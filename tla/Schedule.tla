------------------------------ MODULE Schedule ------------------------------
(***************************************************************************)
(* The schedule kept in state.json and everyone who reads and writes it:   *)
(* the scheduled tasks with their create, edit and list requests, the      *)
(* legacy schedule computed from the configuration, the tick that selects  *)
(* what is due, the runs that write the next install time when they end,   *)
(* and the import of a configuration.                                      *)
(*                                                                         *)
(* Every one of these operations reads state.json, computes, and writes    *)
(* its result in a later step with StateStore.update, which reads the file *)
(* again, changes some keys of what it read and writes all of it back.     *)
(* Nothing keeps another thread from writing in between: neither between   *)
(* the read and the update nor within the update.                          *)
(*                                                                         *)
(* A moment in the future is represented by the time left until it; 0 is   *)
(* any moment that has come.  The unit of time is one step of PassTime.    *)
(***************************************************************************)
EXTENDS Integers, FiniteSets

CONSTANTS
  Ids,         \* the ids a task can have
  CreateIds,   \* the ids that clients put into the payload of a new task
  EditIds,     \* the ids that clients put into the payload of an edit
  Web,         \* the threads of the web server
  Main,        \* the thread of the service loop
  Settings,    \* the settings the legacy schedule is computed from
  Imports,     \* the settings that clients import
  Period       \* the longest time until the next occurrence of a schedule

ASSUME IdsAssumption == CreateIds \subseteq Ids /\ EditIds \subseteq Ids
ASSUME ThreadsAssumption == Main \notin Web
ASSUME PeriodAssumption == Period \in Nat \ {0}
ASSUME SettingsAssumption == Settings # {} /\ Imports \subseteq Settings

TaskTypes == {"auto_check_update", "auto_update"}
\* TASK_TYPE_SEQUENCE
Rank(type) == IF type = "auto_check_update" THEN 0 ELSE 1

NoTime == -1
Task == [id : Ids, type : TaskTypes, enabled : BOOLEAN, next : 0..Period \cup {NoTime}]
\* What a thread keeps of the task it was asked to run or has edited.
Named(t) == [id |-> t.id, type |-> t.type]
NoTask == [id |-> "none", type |-> "none"]

Threads == Web \cup {Main}

VARIABLES
  config,     \* the settings of self.config and self.scheduler
  file,       \* the schedule part of state.json
  thread,     \* what each thread is doing, with the local variables it does it with
  overtaken,  \* history: the threads in an update whose read is older than another's write
  emptied,    \* history: this process has written an empty list over tasks
  collided    \* history: an edit has given a task the id of another one

history == <<overtaken, emptied, collided>>
vars == <<config, file, thread, history>>

\* at: where the thread is; tasks: the list it read and is going to write;
\* task: the task it was asked to run or has edited; install: the next_install
\* it read or computed; signature: the signature it computed; copy: in an
\* update, what it read of the file, changed and about to be written.
Idle == [at |-> "idle", tasks |-> {}, task |-> NoTask,
         install |-> [left |-> NoTime, by |-> "tasks"],
         signature |-> "none", copy |-> {}]

\* Where a thread writes the list it holds, or the next install it holds.
ListSaves == {"save_selection", "save_advance", "save_tasks", "save_list", "save_refresh"}
InstallSaves == {"record_check", "record_failure", "save_install", "save_runs"}

At(p, point) == thread[p].at = point /\ thread[p].copy = {}
Goto(p, point) == thread' = [thread EXCEPT ![p].at = point]
Finish(p) == thread' = [thread EXCEPT ![p] = Idle]

-----------------------------------------------------------------------------
(* Task lists *)

\* _normalize_state_tasks on a list in its stored order (by type, then id): of
\* the tasks with one id it keeps the first.  Enabled tasks always have a
\* next_run and disabled ones never (TypeOK), so that part changes nothing.
Normalized(tasks) ==
  {kept \in SUBSET tasks :
     /\ \A t \in tasks : \E u \in kept : u.id = t.id /\ Rank(u.type) <= Rank(t.type)
     /\ \A t, u \in kept : t.id = u.id => t = u}

Enabled(tasks, type) == \E t \in tasks : t.type = type /\ t.enabled

\* _validate_task_dependencies
DependenciesHold(tasks) ==
  Enabled(tasks, "auto_update") => Enabled(tasks, "auto_check_update")

\* Mutant: a disabled task keeps a next run.
NextOfAny(enabled) == 1..Period
\* compute_task_next: strictly in the future, none for a disabled task.
NextOf(enabled) == IF enabled THEN 1..Period ELSE {NoTime}

DueTasks(tasks) == {t \in tasks : t.enabled /\ t.next = 0}

\* _next_runs_from_tasks for next_install: the earliest of the enabled updates
InstallTimes(tasks) ==
  LET times == {t.next : t \in {u \in tasks : u.type = "auto_update" /\ u.enabled}}
  IN IF times = {} THEN {NoTime} ELSE {n \in times : \A m \in times : n <= m}

\* compute_next("install") of the current scheduler
ComputedInstalls == [left : 1..Period, by : {config}]

\* ensure_schedule for next_install: a missing one is computed.
EnsuredInstalls(read) ==
  IF read.left = NoTime THEN ComputedInstalls ELSE {read}

-----------------------------------------------------------------------------
(* StateStore.update *)

\* The updaters: _persist_schedule_tasks writes a list with the next install
\* that follows from it, set_next_runs and record_check a next install,
\* set_schedule_signature a signature; all the others write other keys.
Updated(p, read) ==
  LET at == thread[p].at
      tasks == thread[p].tasks
  IN CASE at \in ListSaves ->
            {[read EXCEPT !.tasks = tasks, !.install = [left |-> n, by |-> "tasks"]] :
               n \in InstallTimes(tasks)}
       [] at \in InstallSaves -> {[read EXCEPT !.install = thread[p].install]}
       [] at = "sign" -> {[read EXCEPT !.signature = thread[p].signature]}
       [] OTHER -> {read}

\* The update reads the file and changes its copy ...
BeginUpdate(p) ==
  /\ thread[p].copy = {}
  /\ thread[p].at \in ListSaves \cup InstallSaves \cup {"sign", "idle", "install"}
  /\ \E new \in Updated(p, file) : thread' = [thread EXCEPT ![p].copy = {new}]
  /\ UNCHANGED <<config, file, history>>

\* ... and writes all of it back, from the given point.
EndUpdate(p, point) ==
  /\ thread[p].at = point
  /\ file' \in thread[p].copy
  /\ overtaken' = {q \in Threads \ {p} : thread[q].copy # {}}
  /\ emptied' = (emptied \/ (file.tasks # {} /\ file'.tasks = {}))
  /\ UNCHANGED <<config, collided>>

\* The jobs, results, backups, failures and self tests that the loop and the web
\* threads record write other keys, and with them what they read of the schedule.
UpdateOtherKeys(p) ==
  /\ EndUpdate(p, "idle") \/ EndUpdate(p, "install")
  /\ thread' = [thread EXCEPT ![p].copy = {}]

-----------------------------------------------------------------------------
(* Time *)

Closer(left) == IF left > 0 THEN left - 1 ELSE left
CloserTask(t) == [t EXCEPT !.next = Closer(@)]
CloserTasks(tasks) == {CloserTask(t) : t \in tasks}
CloserInstall(install) == [install EXCEPT !.left = Closer(@)]

CloserFile(f) == [f EXCEPT !.tasks = CloserTasks(@), !.install = CloserInstall(@)]

\* Time passes for the timestamps in state.json and for the copies that the
\* threads hold of them.
PassTime ==
  /\ file' = CloserFile(file)
  /\ thread' = [p \in Threads |->
       [thread[p] EXCEPT !.tasks = CloserTasks(@), !.install = CloserInstall(@),
                         !.copy = {CloserFile(f) : f \in @}]]
  /\ UNCHANGED <<config, history>>

-----------------------------------------------------------------------------
(* tick *)

\* TASK_TYPE_ACTIONS
Entry(task) == IF task.type = "auto_update" THEN "install" ELSE "check"

\* Mutant: the list is always written back.
SelectAndSave ==
  /\ At(Main, "idle")
  /\ \E kept \in Normalized(file.tasks) :
     \E task \in {Named(t) : t \in DueTasks(kept)} \cup {NoTask} :
       thread' = [thread EXCEPT ![Main] =
         [@ EXCEPT !.at = "save_selection", !.tasks = kept, !.task = task]]
  /\ UNCHANGED <<config, file, history>>

\* _select_due_schedule_task picks the task that has been due the longest, which
\* of several due ones may be any here; the list is written back first when
\* normalising changed it.
SelectDueTask ==
  /\ At(Main, "idle")
  /\ \E kept \in Normalized(file.tasks) :
       \/ /\ kept # file.tasks
          /\ \E task \in IF DueTasks(kept) = {} THEN {NoTask} ELSE {Named(t) : t \in DueTasks(kept)} :
               thread' = [thread EXCEPT ![Main] =
                 [@ EXCEPT !.at = "save_selection", !.tasks = kept, !.task = task]]
       \/ /\ kept = file.tasks
          /\ \E t \in DueTasks(kept) :
               thread' = [thread EXCEPT ![Main] = [@ EXCEPT !.at = Entry(t), !.task = Named(t)]]
  /\ UNCHANGED <<config, file, history>>

SaveSelection ==
  /\ EndUpdate(Main, "save_selection")
  /\ IF thread[Main].task = NoTask
     THEN Finish(Main)
     ELSE thread' = [thread EXCEPT ![Main].at = Entry(thread[Main].task),
                                   ![Main].tasks = {}, ![Main].copy = {}]

\* Legacy actions are due only while there are no tasks.
LegacyInstallDue == file.tasks = {} /\ file.install.left = 0

DispatchLegacyInstall ==
  /\ At(Main, "idle")
  /\ LegacyInstallDue
  /\ Goto(Main, "install")
  /\ UNCHANGED <<config, file, history>>

\* A check or an install from the action queue, or the legacy check, which may
\* be due at any tick.
DispatchOther ==
  /\ At(Main, "idle")
  /\ Goto(Main, "check") \/ Goto(Main, "install")
  /\ UNCHANGED <<config, file, history>>

\* The operation is over; a task that was run is advanced.
OperationEnds ==
  IF thread[Main].task = NoTask
  THEN Finish(Main)
  ELSE thread' = [thread EXCEPT ![Main] = [Idle EXCEPT !.at = "advance", !.task = thread[Main].task]]

\* run_check reads next_install, or computes a missing one, before it asks the
\* Supervisor for updates ...
BeginCheck ==
  /\ At(Main, "check")
  /\ \E install \in EnsuredInstalls(file.install) :
       thread' = [thread EXCEPT ![Main].at = "record_check", ![Main].install = install]
  /\ UNCHANGED <<config, file, history>>

\* ... or, when that fails, reads it once more ...
CheckFails ==
  /\ At(Main, "record_check")
  /\ thread' = [thread EXCEPT ![Main].at = "record_failure", ![Main].install = file.install]
  /\ UNCHANGED <<config, file, history>>

\* ... and writes what it has back when the check is over.
RecordCheck ==
  /\ EndUpdate(Main, "record_check") \/ EndUpdate(Main, "record_failure")
  /\ OperationEnds

\* run_install computes the next one on every way out ...
RunInstall ==
  /\ At(Main, "install")
  /\ \E install \in ComputedInstalls :
       thread' = [thread EXCEPT ![Main].at = "save_install", ![Main].install = install]
  /\ UNCHANGED <<config, file, history>>

AdvanceInstallSchedule ==
  /\ EndUpdate(Main, "save_install")
  /\ OperationEnds

\* ... but when a notification raises: before the gate is passed, or in the
\* handling of a run that failed.  The exception ends the tick as well, and the
\* task is not advanced.
InstallRaises ==
  /\ At(Main, "install")
  /\ Finish(Main)
  /\ UNCHANGED <<config, file, history>>

\* _advance_schedule_task reads the list again.
AdvanceTask ==
  /\ At(Main, "advance")
  /\ \E kept \in Normalized(file.tasks) :
       \/ /\ \A t \in kept : t.id # thread[Main].task.id
          /\ Finish(Main)
       \/ \E t \in kept : \E n \in NextOf(t.enabled) :
            /\ t.id = thread[Main].task.id
            /\ thread' = [thread EXCEPT ![Main].at = "save_advance",
                 ![Main].tasks = (kept \ {t}) \cup {[t EXCEPT !.next = n]}]
  /\ UNCHANGED <<config, file, history>>

SaveAdvance ==
  /\ EndUpdate(Main, "save_advance")
  /\ Finish(Main)

-----------------------------------------------------------------------------
(* Requests about tasks *)

IdsOf(tasks) == {t.id : t \in tasks}
\* uuid4 gives an id that no list contains.
FreshIds ==
  Ids \ (IdsOf(file.tasks)
         \cup UNION {IdsOf(thread[p].tasks) \cup UNION {IdsOf(f.tasks) : f \in thread[p].copy} :
                       p \in Threads})

\* A thread has a validated list to write; task is what the client is told.
ToSave(p, tasks, task) ==
  /\ DependenciesHold(tasks)
  /\ thread' = [thread EXCEPT ![p] = [@ EXCEPT !.at = "save_tasks", !.tasks = tasks, !.task = Named(task)]]

\* POST /api/tasks: the first half of create_schedule_task.  A request that is
\* refused changes nothing.
CreateTask(p, type, enabled) ==
  /\ At(p, "idle")
  /\ \E kept \in Normalized(file.tasks), id \in FreshIds \cup CreateIds, n \in NextOf(enabled) :
       LET new == [id |-> id, type |-> type, enabled |-> enabled, next |-> n]
       IN /\ \A t \in kept : t.type # type
          /\ ToSave(p, kept \cup {new}, new)
  /\ UNCHANGED <<config, file, history>>

\* Mutant: an edit is not validated against the other tasks.
UpdateTaskUnchecked(p, id, type, enabled) ==
  /\ At(p, "idle")
  /\ \E kept \in Normalized(file.tasks), n \in NextOf(enabled) :
       LET updated == [id |-> id, type |-> type, enabled |-> enabled, next |-> n]
       IN \E t \in kept :
            /\ t.id = id
            /\ thread' = [thread EXCEPT ![p] = [@ EXCEPT !.at = "save_tasks",
                 !.tasks = (kept \ {t}) \cup {updated}, !.task = Named(updated)]]
  /\ UNCHANGED <<config, file, history>>

\* PUT /api/tasks/<id> and POST /api/tasks/<id>/enabled: the first half of
\* update_schedule_task.  The type may change, and the id when one is given.
UpdateTask(p, id, type, enabled) ==
  /\ At(p, "idle")
  /\ \E kept \in Normalized(file.tasks), newId \in {id} \cup EditIds, n \in NextOf(enabled) :
       LET updated == [id |-> newId, type |-> type, enabled |-> enabled, next |-> n]
       IN \E t \in kept :
            /\ t.id = id
            /\ ToSave(p, (kept \ {t}) \cup {updated}, updated)
            /\ collided' = (collided \/ newId \in IdsOf(kept \ {t}))
  /\ UNCHANGED <<config, file, overtaken, emptied>>

\* The second half of both; the handler goes on to list the tasks.
SaveTasks(p) ==
  /\ EndUpdate(p, "save_tasks")
  /\ thread' = [thread EXCEPT ![p].at = "list", ![p].tasks = {}, ![p].copy = {}]

\* list_schedule_tasks, after an edit or for GET /api/tasks and /api/status
ListTasks(p) ==
  /\ At(p, "list") \/ At(p, "idle")
  /\ \E kept \in Normalized(file.tasks) :
       IF kept = file.tasks
       THEN Finish(p)
       ELSE thread' = [thread EXCEPT ![p] = [Idle EXCEPT !.at = "save_list", !.tasks = kept]]
  /\ UNCHANGED <<config, file, history>>

SaveList(p) ==
  /\ EndUpdate(p, "save_list")
  /\ Finish(p)

-----------------------------------------------------------------------------
(* The configuration, and the start of the process *)

\* POST /api/actions/import: reload_config up to _refresh_schedule
ImportConfiguration(p, settings) ==
  /\ At(p, "idle")
  /\ config' = settings
  /\ Goto(p, "refresh")
  /\ UNCHANGED <<file, history>>

\* Mutant: a changed signature is recorded without computing the next runs.
RefreshOnlySigns(p) ==
  /\ At(p, "refresh")
  /\ thread' = [thread EXCEPT ![p].at = "sign", ![p].signature = config]
  /\ UNCHANGED <<config, file, history>>

\* _refresh_schedule reads the state and decides: with tasks it writes them back
\* as they were read; without, it computes the next runs when the signature
\* changed and else writes back those it read, a missing one computed.
RefreshSchedule(p) ==
  /\ At(p, "refresh")
  /\ \E kept \in Normalized(file.tasks) :
     \E install \in IF file.signature # config THEN ComputedInstalls
                    ELSE EnsuredInstalls(file.install) :
       thread' = [thread EXCEPT ![p] =
         IF kept # {} THEN [Idle EXCEPT !.at = "save_refresh", !.tasks = kept]
         ELSE [Idle EXCEPT !.at = "save_runs", !.install = install, !.signature = config]]
  /\ UNCHANGED <<config, file, history>>

\* The signature that the tasks are stored with is taken after them.
SaveRefresh(p) ==
  \/ /\ EndUpdate(p, "save_refresh")
     /\ thread' = [thread EXCEPT ![p] = [Idle EXCEPT !.at = "sign", !.signature = config]]
  \/ /\ EndUpdate(p, "save_runs")
     /\ thread' = [thread EXCEPT ![p] = [Idle EXCEPT !.at = "sign", !.signature = thread[p].signature]]

SetScheduleSignature(p) ==
  /\ EndUpdate(p, "sign")
  /\ Finish(p)

StartingThreads == [p \in Threads |-> IF p = Main THEN [Idle EXCEPT !.at = "refresh"] ELSE Idle]

\* The process ends and is started again, with the options as they are then:
\* __init__ refreshes the schedule before the service loop and the web server run.
Restart ==
  /\ thread' = StartingThreads
  /\ config' \in Settings
  /\ overtaken' = {}
  /\ emptied' = FALSE
  /\ UNCHANGED <<file, collided>>

-----------------------------------------------------------------------------
\* The first start, on the state of _default_state.
Init ==
  /\ config \in Settings
  /\ file = [tasks |-> {}, install |-> [left |-> NoTime, by |-> "tasks"], signature |-> "none"]
  /\ thread = StartingThreads
  /\ overtaken = {} /\ emptied = FALSE /\ collided = FALSE

Refresh(p) == RefreshSchedule(p) \/ SaveRefresh(p) \/ SetScheduleSignature(p)

Tick ==
  \/ SelectDueTask \/ SaveSelection
  \/ DispatchLegacyInstall \/ DispatchOther
  \/ BeginCheck \/ CheckFails \/ RecordCheck
  \/ RunInstall \/ AdvanceInstallSchedule \/ InstallRaises
  \/ AdvanceTask \/ SaveAdvance

\* The web server is started when the service is.
RefreshPoints == {"refresh", "save_refresh", "save_runs", "sign"}
Starting == thread[Main].at \in RefreshPoints

WebRequest(p) ==
  \/ \E type \in TaskTypes, enabled \in BOOLEAN : CreateTask(p, type, enabled)
  \/ \E id \in Ids, type \in TaskTypes, enabled \in BOOLEAN : UpdateTask(p, id, type, enabled)
  \/ SaveTasks(p) \/ ListTasks(p) \/ SaveList(p)
  \/ \E s \in Imports : ImportConfiguration(p, s)
  \/ Refresh(p) \/ BeginUpdate(p) \/ UpdateOtherKeys(p)

Next ==
  \/ Tick
  \/ Refresh(Main) \/ BeginUpdate(Main) \/ UpdateOtherKeys(Main)
  \/ ~Starting /\ \E p \in Web : WebRequest(p)
  \/ PassTime
  \/ Restart

Spec == Init /\ [][Next]_vars

-----------------------------------------------------------------------------
(* Properties *)

InstallTime == [left : 0..Period \cup {NoTime}, by : Settings \cup {"tasks"}]
Points == RefreshPoints \cup ListSaves \cup InstallSaves \cup
  {"idle", "install", "check", "advance", "list"}
\* A stored task has a next_run exactly when it is enabled.
Tasks == {t \in Task : t.enabled <=> t.next # NoTime}

FileType == [tasks : SUBSET Tasks, install : InstallTime, signature : Settings \cup {"none"}]
ThreadType == [at : Points, tasks : SUBSET Tasks, task : [id : Ids, type : TaskTypes] \cup {NoTask},
               install : InstallTime, signature : Settings \cup {"none"}, copy : SUBSET FileType]

\* The type invariant.
TypeOK ==
  /\ config \in Settings /\ file \in FileType /\ thread \in [Threads -> ThreadType]
  /\ overtaken \subseteq Threads /\ emptied \in BOOLEAN /\ collided \in BOOLEAN

\* Whatever requests, ticks and the updates of other keys write over each other,
\* an enabled Auto Update task is stored without an enabled Auto Check Update task
\* only after an edit that gave a task the id of another one: validating the list
\* a request read is enough until normalising may drop a check.
AutoUpdateNeedsCheck == DependenciesHold(file.tasks) \/ collided

\* The last task disappears, and the legacy schedule that tasks switch off comes
\* back, only by an update that puts back what it read before another thread's
\* write; no list that was read and written in separate steps does it.
TasksStay ==
  [][file.tasks # {} /\ file'.tasks = {} => \E p \in overtaken : file' \in thread[p].copy]_vars

\* While the legacy schedule is in force its next install is a stored moment,
\* whatever updates undo each other, as long as none of them has taken the tasks
\* away: a missing one would be computed afresh at every tick and never come.
LegacyInstallIsSet == ~Starting /\ ~emptied /\ file.tasks = {} => file.install.left # NoTime
=============================================================================
