---------------------------- MODULE RunLifecycle ----------------------------
(***************************************************************************)
(* The main thread of the add-on: the service loop of main.py and the      *)
(* operations of AutoUpgradeService that it dispatches (check, install,    *)
(* retry, backup, clear, watchdog), down to the executor's per-item loop.  *)
(* Web threads are present through what they do to this thread: they       *)
(* append to its action queue and replace its configuration at any moment. *)
(*                                                                         *)
(* What survives a crash is what the code keeps under /data: the lock file *)
(* and the run part of state.json.  Everything else is process memory.     *)
(*                                                                         *)
(* Timestamps are represented by the time that remains until them, or that *)
(* has passed since them, cut off at the first value the code can no       *)
(* longer tell from a larger one.  The code only ever compares a timestamp *)
(* with now, so nothing it can observe is lost and no bound on the clock   *)
(* is needed.  The unit of time is one step of PassTime.                   *)
(***************************************************************************)
EXTENDS Integers, Sequences, FiniteSets

CONSTANTS
  Items,          \* the components that may have an update
  Threshold,      \* safe_mode_failure_threshold
  Cooldown,       \* cooldown_minutes_after_failure
  SafeMode,       \* safe_mode_minutes
  MinDelay,       \* min_minutes_between_runs
  Stale,          \* stale_after_seconds of the run lock
  WatchdogAfter,  \* watchdog_timeout_minutes
  Configs,        \* the configurations the user switches between
  Snapshots,      \* what the preconditions of a run may evaluate to
  Requests,       \* the actions web threads enqueue
  Scheduled,      \* the <<action, trigger>> pairs the schedules dispatch
  MaxQueue        \* bound on the length of the action queue

\* install: "dry_run" stands for dry_run and for notify_only_mode (no backup, no
\* request), "check_only" for check_only_mode (a backup, no request).  webhook:
\* notifications go to a webhook, the one channel whose errors are not all caught.
ConfigType == [createBackup : BOOLEAN, install : {"live", "check_only", "dry_run"},
               rollback : BOOLEAN, autoInstall : BOOLEAN, watchdog : BOOLEAN,
               webhook : BOOLEAN]

\* thresholds: every rule of evaluate_run that is not about the calendar holds;
\* window: the maintenance window and the allowed weekdays hold.
SnapshotType == [thresholds : BOOLEAN, window : BOOLEAN]

Actions == {"check", "check_install", "install", "retry", "backup", "clear"}
Triggers == {"manual", "schedule", "schedule_task"}

ASSUME DurationsAssumption ==
  /\ Threshold \in Nat
  /\ Cooldown \in Nat
  /\ SafeMode \in Nat
  /\ MinDelay \in Nat
  /\ Stale \in Nat
  /\ WatchdogAfter \in Nat
  /\ MaxQueue \in Nat
ASSUME InputsAssumption ==
  /\ Configs \subseteq ConfigType
  /\ Configs # {}
  /\ Snapshots \subseteq SnapshotType
  /\ Requests \subseteq Actions
  /\ Scheduled \subseteq Actions \X Triggers

VARIABLES
  \* process memory
  pc,           \* where the main thread is; "down" when the process is not running
  config,       \* self.config (the options file it comes from survives)
  queue,        \* action_queue
  holding,      \* ProcessLock._fd is not None
  run,          \* the local variables of the operation in progress
  snap,         \* the evaluation of the preconditions of the run in progress
  summary,      \* the RunSummary on its way to _handle_summary
  \* files under /data
  lockAge,      \* time since LOCK_FILE was created, NoLock if there is none
  job,          \* running_job
  retryQueue,   \* retry_queue
  failureCount, \* failure_count, cut off at Threshold
  cooldown,     \* time left until cooldown_until
  safeMode,     \* time left until safe_mode_until
  lastRun,      \* last_run: its status and the time since completed_at
  \* history variables, read by properties only
  startAge,     \* time since an install run last recorded its job
  unreported    \* items the latest job sent an update request for and whose
                \* result it has not written to state.json

memory == <<config, queue, holding, run, snap, summary>>
accounts == <<retryQueue, failureCount, cooldown, safeMode>>
disk == <<lockAge, job, retryQueue, failureCount, cooldown, safeMode, lastRun>>
history == <<startAge, unreported>>
vars == <<pc, memory, disk, history>>

-----------------------------------------------------------------------------
(* Values *)

NoLock == -1
NoJob == [mode |-> "none", pending |-> {}, age |-> 0, backup |-> FALSE]
NoSummary == [status |-> "none", results |-> {}, failed |-> {}, age |-> 0]
NoSnapshot == [thresholds |-> FALSE, window |-> FALSE]
NoRun == [mode |-> "none", trigger |-> "manual", todo |-> {}, current |-> {},
          updated |-> {}, failed |-> {}, backup |-> FALSE,
          cfg |-> CHOOSE c \in Configs : TRUE]

\* One unit later, seen from a code that cannot tell ages from limit on apart.
Older(age, limit) == IF age < limit THEN age + 1 ELSE limit
\* One unit closer to a moment in the future.
Closer(left) == IF left > 0 THEN left - 1 ELSE 0

\* datetime values only occur in comparisons; this is all time does.
PassTime ==
  /\ lockAge' = IF lockAge = NoLock THEN NoLock ELSE Older(lockAge, Stale + 1)
  /\ job' = IF job = NoJob THEN NoJob ELSE [job EXCEPT !.age = Older(@, WatchdogAfter + 1)]
  /\ cooldown' = Closer(cooldown)
  /\ safeMode' = Closer(safeMode)
  /\ lastRun' = [lastRun EXCEPT !.age = Older(@, MinDelay)]
  /\ summary' = IF summary = NoSummary THEN NoSummary
                ELSE [summary EXCEPT !.age = Older(@, MinDelay)]
  /\ startAge' = Older(startAge, MinDelay)
  /\ UNCHANGED <<pc, config, queue, holding, run, snap, retryQueue, failureCount, unreported>>

-----------------------------------------------------------------------------
(* Web threads *)

\* POST /api/actions/<a>
EnqueueAction(a) ==
  /\ pc # "down"
  /\ Len(queue) < MaxQueue
  /\ queue' = Append(queue, a)
  /\ UNCHANGED <<pc, config, holding, run, snap, summary, disk, history>>

\* POST /api/actions/import: the web thread swaps the service's configuration
\* under whatever the main thread is doing.
ReloadConfig(c) ==
  /\ pc # "down"
  /\ config' = c
  /\ UNCHANGED <<pc, queue, holding, run, snap, summary, disk, history>>

-----------------------------------------------------------------------------
(* The process *)

Crash ==
  /\ pc # "down"
  /\ pc' = "down"
  /\ queue' = << >>
  /\ holding' = FALSE
  /\ run' = NoRun
  /\ snap' = NoSnapshot
  /\ summary' = NoSummary
  /\ UNCHANGED <<config, disk, history>>

\* Mutant: the interrupted items are reported but not queued.
MarkInterruptedForgets ==
  /\ lastRun' = IF job = NoJob THEN lastRun ELSE [status |-> "interrupted", age |-> 0]
  /\ job' = NoJob
  /\ UNCHANGED retryQueue
\* Mutant: the interrupted run is not entered as the last run.
MarkInterruptedUndated ==
  /\ retryQueue' = IF job = NoJob THEN retryQueue ELSE job.pending
  /\ job' = NoJob
  /\ UNCHANGED lastRun

\* __init__ turns a job found in state.json into an interrupted run.  The lock
\* file is left as it is.
MarkInterruptedIfRunning ==
  IF job = NoJob
  THEN UNCHANGED <<job, lastRun, retryQueue>>
  ELSE /\ lastRun' = [status |-> "interrupted", age |-> 0]
       /\ retryQueue' = job.pending
       /\ job' = NoJob

Restart ==
  /\ pc = "down"
  /\ pc' = "idle"
  /\ MarkInterruptedIfRunning
  /\ UNCHANGED <<memory, lockAge, failureCount, cooldown, safeMode, history>>

-----------------------------------------------------------------------------
(* tick *)

\* Mutant: the watchdog looks at install jobs only.
WatchdogFiresOnInstalls == config.watchdog /\ job.mode = "install" /\ job.age > WatchdogAfter
WatchdogFires == config.watchdog /\ job # NoJob /\ job.age > WatchdogAfter

\* tick begins with the watchdog.  When it fires it writes state.json twice;
\* this is the first write, clear_stuck_state.
BeginTick ==
  /\ pc = "idle"
  /\ IF WatchdogFires
     THEN /\ pc' = "watchdog"
          /\ job' = NoJob
          /\ retryQueue' = {}
          /\ cooldown' = 0
          /\ safeMode' = 0
     ELSE /\ pc' = "dequeue"
          /\ UNCHANGED <<job, retryQueue, cooldown, safeMode>>
  /\ UNCHANGED <<memory, lockAge, failureCount, lastRun, history>>

\* The second write of the watchdog, set_failure_mode.  Only this thread
\* changes failure_count, so the value read before the first write is current.
WatchdogSetsFailureMode ==
  /\ pc = "watchdog"
  /\ failureCount' = Older(failureCount, Threshold)
  /\ cooldown' = Cooldown
  /\ safeMode' = SafeMode
  /\ pc' = "dequeue"
  /\ UNCHANGED <<memory, lockAge, job, retryQueue, lastRun, history>>

ModeOf(a) == CASE a \in {"install", "check_install"} -> "install"
               [] a = "retry" -> "retry"
               [] OTHER -> "none"
EntryOf(a) == CASE a \in {"check", "check_install"} -> "check"
                [] a = "install" -> "gate"
                [] OTHER -> a

Dispatch(a, trigger) ==
  /\ pc' = EntryOf(a)
  /\ run' = [NoRun EXCEPT !.mode = ModeOf(a), !.trigger = trigger]
  /\ UNCHANGED <<config, holding, snap, summary, disk, history>>

\* Mutant: the action is looked at but not removed.
DispatchPeeked ==
  /\ pc = "dequeue"
  /\ queue # << >>
  /\ Dispatch(Head(queue), "manual")
  /\ UNCHANGED queue

DispatchQueued ==
  /\ pc = "dequeue"
  /\ queue # << >>
  /\ Dispatch(Head(queue), "manual")
  /\ queue' = Tail(queue)

\* A task or a legacy action is due.  When they are is the subject of other
\* modules; here they may be due at any tick that finds the queue empty.
DispatchScheduled ==
  /\ pc = "dequeue"
  /\ queue = << >>
  /\ \E s \in Scheduled : Dispatch(s[1], s[2])
  /\ UNCHANGED queue

NothingDue ==
  /\ pc = "dequeue"
  /\ queue = << >>
  /\ pc' = "idle"
  /\ UNCHANGED <<memory, disk, history>>

\* The operation in progress returns to the service loop.
Return ==
  /\ pc' = "idle"
  /\ run' = NoRun
  /\ snap' = NoSnapshot
  /\ summary' = NoSummary

-----------------------------------------------------------------------------
(* Operations that take no lock *)

\* run_check: what it records is display data.  check_install goes on to the
\* install unless the check failed.
RunCheck ==
  /\ pc = "check"
  /\ \/ run.mode = "install" /\ pc' = "gate" /\ UNCHANGED <<run, snap, summary>>
     \/ Return
  /\ UNCHANGED <<config, queue, holding, disk, history>>

\* backup_now, successful or not.
BackupNow ==
  /\ pc = "backup"
  /\ Return
  /\ UNCHANGED <<config, queue, holding, disk, history>>

\* clear_stuck_state: failure_count and the lock file stay.
ClearStuckState ==
  /\ pc = "clear"
  /\ job' = NoJob
  /\ retryQueue' = {}
  /\ cooldown' = 0
  /\ safeMode' = 0
  /\ unreported' = {}
  /\ Return
  /\ UNCHANGED <<config, queue, holding, lockAge, failureCount, lastRun, startAge>>

-----------------------------------------------------------------------------
(* run_install up to its job, retry_failed up to its job *)

\* Mutant: the cooldown is forgotten.
BlockedExceptByCooldown ==
  \/ safeMode > 0
  \/ lastRun.status # "none" /\ lastRun.age < MinDelay

BlockedByRuntimeState ==
  \/ safeMode > 0
  \/ cooldown > 0
  \/ lastRun.status # "none" /\ lastRun.age < MinDelay

\* evaluate_run: the calendar counts only in mode "scheduled_install", which
\* run_install asks for when the trigger is exactly "schedule".
Allowed(s) == s.thresholds /\ (run.trigger = "schedule" => s.window)

\* The part of run_install before the lock, with evaluation s of the rules.  Where it
\* skips the run, it makes no difference to this thread whether it returns or the
\* notification of the skip raises.
GateInstall(s) ==
  /\ pc = "gate"
  /\ IF (run.trigger = "schedule" /\ ~config.autoInstall) \/ BlockedByRuntimeState \/ ~Allowed(s)
     THEN Return
     ELSE pc' = "acquire" /\ snap' = s /\ UNCHANGED <<run, summary>>
  /\ UNCHANGED <<config, queue, holding, disk, history>>

\* retry_failed reads the retry queue before it asks for the lock.
BeginRetry ==
  /\ pc = "retry"
  /\ IF retryQueue = {}
     THEN Return
     ELSE pc' = "acquire" /\ run' = [run EXCEPT !.todo = retryQueue] /\ UNCHANGED <<snap, summary>>
  /\ UNCHANGED <<config, queue, holding, disk, history>>

\* Mutant: a stale lock is never broken.
LockIsFreeIfAbsent == lockAge = NoLock
LockIsFree == lockAge = NoLock \/ lockAge > Stale

\* ProcessLock.acquire breaks a lock that is too old, whoever left it.
AcquireRunLock ==
  /\ pc = "acquire"
  /\ IF LockIsFree
     THEN /\ lockAge' = 0
          /\ holding' = TRUE
          /\ pc' = IF run.mode = "install" THEN "plan_install" ELSE "plan_retry"
          /\ UNCHANGED <<run, snap, summary>>
     ELSE Return /\ UNCHANGED <<lockAge, holding>>
  /\ UNCHANGED <<config, queue, job, accounts, lastRun, history>>

\* Mutant: every job is recorded as an install.
StartJobAsInstall(plan) ==
  /\ job' = [mode |-> "install", pending |-> plan, age |-> 0, backup |-> FALSE]
  /\ run' = [run EXCEPT !.todo = plan]
  /\ unreported' = {}
  /\ pc' = "pre_backup"

\* start_job, then on to the backup.
StartJob(plan) ==
  /\ job' = [mode |-> run.mode, pending |-> plan, age |-> 0, backup |-> FALSE]
  /\ run' = [run EXCEPT !.todo = plan]
  /\ unreported' = {}
  /\ pc' = "pre_backup"

\* Mutant: with nothing to do, it returns outside the try statement.
PlanInstallKeepsLock(plan) ==
  /\ pc = "plan_install"
  /\ IF plan = {}
     THEN Return /\ UNCHANGED <<job, history>>
     ELSE StartJob(plan) /\ startAge' = 0 /\ UNCHANGED <<snap, summary>>
  /\ UNCHANGED <<config, queue, holding, lockAge, accounts, lastRun>>

\* discover, build_plan and _filter_plan_items: the plan is any part of what
\* could be updated, or discovery raises.
PlanInstall(plan) ==
  /\ pc = "plan_install"
  /\ IF plan = {}
     THEN pc' = "release" /\ UNCHANGED <<run, job, history>>
     ELSE StartJob(plan) /\ startAge' = 0
  /\ UNCHANGED <<config, queue, holding, snap, summary, lockAge, accounts, lastRun>>

DiscoverRaises ==
  /\ pc = "plan_install"
  /\ pc' = "raised"
  /\ UNCHANGED <<memory, disk, history>>

\* retry_failed collects a snapshot but evaluates no rule on it; build_plan may
\* drop any of the queued items, even all of them.
PlanRetry(s, plan) ==
  /\ pc = "plan_retry"
  /\ plan \subseteq run.todo
  /\ StartJob(plan)
  /\ snap' = s
  /\ UNCHANGED <<config, queue, holding, summary, lockAge, accounts, lastRun, startAge>>

-----------------------------------------------------------------------------
(* From the job to the updates *)

NeedsBackup(c) == c.createBackup /\ c.install # "dry_run"

\* The pre-update backup with set_running_backup_id and mark_backup; waiting
\* for it or trimming older backups may raise.
PreUpdateBackup ==
  /\ pc = "pre_backup"
  /\ \/ /\ NeedsBackup(config)
        /\ run' = [run EXCEPT !.backup = TRUE]
        /\ job' = [job EXCEPT !.backup = TRUE]
        /\ pc' = "pre_actions"
     \/ NeedsBackup(config) /\ pc' = "raised" /\ UNCHANGED <<run, job>>
     \/ ~NeedsBackup(config) /\ pc' = "pre_actions" /\ UNCHANGED <<run, job>>
  /\ UNCHANGED <<config, queue, holding, snap, summary, lockAge, accounts, lastRun, history>>

\* Mutant: the executor relies on its caller for the backup.
RunPreActionsNoBackup ==
  /\ pc = "pre_actions"
  /\ \/ pc' = "raised" /\ UNCHANGED run
     \/ pc' = "update" /\ run' = [run EXCEPT !.cfg = config]
  /\ UNCHANGED <<config, queue, holding, snap, summary, disk, history>>

\* _run_pre_actions, then execute is entered: from here on the executor works
\* with the configuration it was built with, not with later ones.
RunPreActions ==
  /\ pc = "pre_actions"
  /\ \/ pc' = "raised" /\ UNCHANGED <<run, summary>>
     \/ /\ run' = [run EXCEPT !.cfg = config]
        /\ IF run.todo = {}
           THEN /\ summary' = [NoSummary EXCEPT !.status = "skipped"]
                /\ pc' = "finish"
           ELSE /\ pc' = IF run.backup \/ config.install = "dry_run" THEN "update" ELSE "exec_backup"
                /\ UNCHANGED summary
  /\ UNCHANGED <<config, queue, holding, snap, disk, history>>

\* The executor asks for a backup itself when it was given none.
ExecutorBackup ==
  /\ pc = "exec_backup"
  /\ \/ ~run.cfg.createBackup /\ pc' = "update" /\ UNCHANGED run
     \/ run.cfg.createBackup /\ pc' = "update" /\ run' = [run EXCEPT !.backup = TRUE]
     \/ run.cfg.createBackup /\ pc' = "raised" /\ UNCHANGED run
  /\ UNCHANGED <<config, queue, holding, snap, summary, disk, history>>

\* dry_run, notify_only_mode and check_only_mode send no request.
SimulateUpdate(i) ==
  /\ pc = "update"
  /\ i \in run.todo
  /\ run.cfg.install # "live"
  /\ run' = [run EXCEPT !.todo = @ \ {i}, !.updated = @ \cup {i}]
  /\ UNCHANGED <<pc, config, queue, holding, snap, summary, disk, history>>

\* The notification sent before each update may raise, and so leave the loop between
\* two items: the executor's notifier, hence the configuration it was built with.
StartNotificationRaises ==
  /\ pc = "update"
  /\ run.todo # {}
  /\ run.cfg.webhook
  /\ pc' = "raised"
  /\ UNCHANGED <<memory, disk, history>>

\* Mutant: the item stays among those to be updated.
RequestUpdateAgain(i) ==
  /\ pc = "update"
  /\ i \in run.todo
  /\ run.cfg.install = "live"
  /\ run' = [run EXCEPT !.current = {i}]
  /\ unreported' = unreported \cup {i}
  /\ pc' = "wait"
  /\ UNCHANGED <<config, queue, holding, snap, summary, disk, startAge>>

RequestUpdate(i) ==
  /\ pc = "update"
  /\ i \in run.todo
  /\ run.cfg.install = "live"
  /\ run' = [run EXCEPT !.todo = @ \ {i}, !.current = {i}]
  /\ unreported' = unreported \cup {i}
  /\ pc' = "wait"
  /\ UNCHANGED <<config, queue, holding, snap, summary, disk, startAge>>

\* The job ended and the health check decides, or anything on the way raised.
UpdateEnds ==
  /\ pc = "wait"
  /\ \/ run' = [run EXCEPT !.current = {}, !.updated = @ \cup run.current]
     \/ run' = [run EXCEPT !.current = {}, !.failed = @ \cup run.current]
  /\ pc' = "update"
  /\ UNCHANGED <<config, queue, holding, snap, summary, disk, history>>

Outcome == IF run.failed = {} THEN "success"
           ELSE IF run.updated = {} THEN "failed" ELSE "partial"

\* The tail of execute.  completed_at is taken before the rollback request.
ExecutionEnds ==
  /\ pc = "update"
  /\ run.todo = {}
  /\ summary' = [status |-> Outcome, results |-> run.updated \cup run.failed,
                 failed |-> run.failed, age |-> 0]
  /\ pc' = IF Outcome = "failed" /\ run.backup /\ run.cfg.rollback THEN "rollback" ELSE "finish"
  /\ UNCHANGED <<config, queue, holding, run, snap, disk, history>>

\* attempt_rollback asks for a restore; when that raises, the summary is lost.
AttemptRollback ==
  /\ pc = "rollback"
  /\ \/ pc' = "finish" /\ UNCHANGED summary
     \/ pc' = "raised" /\ summary' = NoSummary
  /\ UNCHANGED <<config, queue, holding, run, snap, disk, history>>

-----------------------------------------------------------------------------
(* Exceptions, _handle_summary, and the way out *)

\* Mutant: run_install has no except clause either.
HandleNoException ==
  /\ pc = "raised"
  /\ pc' = "release"
  /\ UNCHANGED <<memory, disk, history>>

\* run_install reports a failed run with no results; retry_failed has no
\* except clause, so its job stays and the loop in main.py logs the exception.
HandleException ==
  /\ pc = "raised"
  /\ IF run.mode = "install"
     THEN pc' = "finish" /\ summary' = [NoSummary EXCEPT !.status = "failed"]
     ELSE pc' = "release" /\ UNCHANGED summary
  /\ UNCHANGED <<config, queue, holding, run, snap, disk, history>>

FinishJob ==
  /\ pc = "finish"
  /\ lastRun' = [status |-> summary.status, age |-> summary.age]
  /\ job' = NoJob
  /\ unreported' = unreported \ summary.results
  /\ pc' = "account"
  /\ UNCHANGED <<memory, lockAge, accounts, startAge>>

RunFailed == summary.failed # {} \/ summary.status = "failed"

\* Mutant: the count starts again when safe mode does.
AccountRestartsCount ==
  /\ pc = "account"
  /\ IF RunFailed /\ failureCount + 1 < Threshold
     THEN failureCount' = failureCount + 1 /\ cooldown' = Cooldown /\ safeMode' = 0
     ELSE /\ failureCount' = 0
          /\ cooldown' = IF RunFailed THEN Cooldown ELSE 0
          /\ safeMode' = IF RunFailed THEN SafeMode ELSE 0
  /\ pc' = "queue_retry"
  /\ UNCHANGED <<memory, lockAge, job, retryQueue, lastRun, history>>

\* set_failure_mode or clear_failure_mode
AccountForRun ==
  /\ pc = "account"
  /\ IF RunFailed
     THEN /\ failureCount' = Older(failureCount, Threshold)
          /\ cooldown' = Cooldown
          /\ safeMode' = IF failureCount' >= Threshold THEN SafeMode ELSE 0
     ELSE failureCount' = 0 /\ cooldown' = 0 /\ safeMode' = 0
  /\ pc' = "queue_retry"
  /\ UNCHANGED <<memory, lockAge, job, retryQueue, lastRun, history>>

\* Mutant: what failed is queued, also after a run that has no results.
QueueRetryAlways ==
  /\ pc = "queue_retry"
  /\ retryQueue' = summary.failed
  /\ pc' = "notify"
  /\ UNCHANGED <<memory, lockAge, job, failureCount, cooldown, safeMode, lastRun, history>>

\* queue_retry when items failed, clear_retry_queue when the run did not fail.
QueueRetry ==
  /\ pc = "queue_retry"
  /\ retryQueue' = IF RunFailed /\ summary.failed = {} THEN retryQueue ELSE summary.failed
  /\ pc' = "notify"
  /\ UNCHANGED <<memory, lockAge, job, failureCount, cooldown, safeMode, lastRun, history>>

\* Only the except clause of run_install reports a failure without results.
FromExcept == summary.status = "failed" /\ summary.results = {}

\* The notification of the run's end; the event and the post-update actions that
\* follow are guarded, but for a second notification.
NotifyOfRun ==
  /\ pc = "notify"
  /\ pc' = "release"
  /\ UNCHANGED <<memory, disk, history>>

\* When it raises, a run_install that is still in its try statement reports a failed
\* run in the place of the one it has just reported.  Its except clause and
\* retry_failed have only the finally clause ahead.
NotifyRaises ==
  /\ pc = "notify"
  /\ config.webhook
  /\ IF run.mode = "install" /\ ~FromExcept
     THEN pc' = "raised" /\ summary' = NoSummary
     ELSE pc' = "release" /\ UNCHANGED summary
  /\ UNCHANGED <<config, queue, holding, run, snap, disk, history>>

\* finally: self.lock.release()
ReleaseRunLock ==
  /\ pc = "release"
  /\ lockAge' = NoLock
  /\ holding' = FALSE
  /\ Return
  /\ UNCHANGED <<config, queue, job, accounts, lastRun, history>>

-----------------------------------------------------------------------------
Init ==
  /\ pc = "idle"
  /\ config \in Configs
  /\ queue = << >>
  /\ holding = FALSE
  /\ run = NoRun
  /\ snap = NoSnapshot
  /\ summary = NoSummary
  /\ lockAge = NoLock
  /\ job = NoJob
  /\ retryQueue = {}
  /\ failureCount = 0
  /\ cooldown = 0
  /\ safeMode = 0
  /\ lastRun = [status |-> "none", age |-> MinDelay]
  /\ startAge = MinDelay
  /\ unreported = {}

Tick == BeginTick \/ WatchdogSetsFailureMode \/ DispatchQueued \/ DispatchScheduled \/ NothingDue

RunInstall ==
  \/ \E s \in Snapshots : GateInstall(s)
  \/ \E plan \in SUBSET Items : PlanInstall(plan)
  \/ DiscoverRaises

RetryFailed ==
  \/ BeginRetry
  \/ \E s \in Snapshots, plan \in SUBSET Items : PlanRetry(s, plan)

Execute ==
  \/ ExecutorBackup
  \/ StartNotificationRaises
  \/ \E i \in Items : SimulateUpdate(i) \/ RequestUpdate(i)
  \/ UpdateEnds
  \/ ExecutionEnds
  \/ AttemptRollback

HandleSummary == FinishJob \/ AccountForRun \/ QueueRetry \/ NotifyOfRun \/ NotifyRaises

MainThread ==
  \/ Tick
  \/ RunCheck \/ BackupNow \/ ClearStuckState
  \/ RunInstall \/ RetryFailed \/ AcquireRunLock
  \/ PreUpdateBackup \/ RunPreActions \/ Execute
  \/ HandleException \/ HandleSummary \/ ReleaseRunLock

WebThreads ==
  \/ \E a \in Requests : EnqueueAction(a)
  \/ \E c \in Configs : ReloadConfig(c)

Next == MainThread \/ WebThreads \/ PassTime \/ Crash \/ Restart

Spec == Init /\ [][Next]_vars

\* The loop of main.py calls tick for ever, every call tick makes returns or
\* raises (each request and each wait for a job has a timeout), time passes, and
\* the Supervisor starts an add-on that stopped (config.yaml, boot: auto).
Fairness == WF_vars(MainThread) /\ WF_vars(PassTime) /\ WF_vars(Restart)

FairSpec == Spec /\ Fairness

-----------------------------------------------------------------------------
(* Properties *)

\* The points of the main thread between acquire and release ...
LockedPoints == {"plan_install", "plan_retry", "pre_backup", "pre_actions", "exec_backup",
                 "update", "wait", "rollback", "raised", "finish", "account", "queue_retry",
                 "notify", "release"}
\* ... and those at which the run has recorded its job in state.json.
JobPoints == {"pre_backup", "pre_actions", "exec_backup", "update", "wait", "rollback"}
FreePoints == {"down", "idle", "watchdog", "dequeue", "check", "gate", "retry", "backup",
               "clear", "acquire"}

Statuses == {"none", "success", "partial", "failed", "skipped", "interrupted"}
JobType == [mode : {"none", "install", "retry"}, pending : SUBSET Items, age : 0..WatchdogAfter + 1,
            backup : BOOLEAN]
RunType == [mode : {"none", "install", "retry"}, trigger : Triggers, todo : SUBSET Items,
            current : SUBSET Items, updated : SUBSET Items, failed : SUBSET Items,
            backup : BOOLEAN, cfg : Configs]
SummaryType == [status : Statuses, results : SUBSET Items, failed : SUBSET Items,
                age : 0..MinDelay]

\* The type invariant.
TypeOK ==
  /\ pc \in LockedPoints \cup FreePoints
  /\ config \in Configs
  /\ queue \in Seq(Requests)
  /\ holding \in BOOLEAN
  /\ run \in RunType
  /\ snap \in SnapshotType
  /\ summary \in SummaryType
  /\ lockAge \in 0..Stale + 1 \cup {NoLock}
  /\ job \in JobType
  /\ retryQueue \in SUBSET Items
  /\ failureCount \in 0..Threshold
  /\ cooldown \in 0..Cooldown
  /\ safeMode \in 0..SafeMode
  /\ lastRun \in [status : Statuses, age : 0..MinDelay]
  /\ startAge \in 0..MinDelay
  /\ unreported \in SUBSET Items

\* Every way through run_install and retry_failed, exceptions included, gives
\* the run lock back, and while the run lasts its lock file is there.
LockMatchesRun ==
  /\ holding <=> pc \in LockedPoints
  /\ holding => lockAge # NoLock

\* What the running_job on disk says is what the run in memory is doing, so that
\* a crash at any moment leaves a true account of it.
JobMatchesRun ==
  pc \in JobPoints =>
    /\ job.mode = run.mode
    /\ run.todo \cup run.current \cup run.updated \cup run.failed \subseteq job.pending

\* The items whose update was asked for, whose result is in no state.json, and that
\* neither the running job nor the retry queue knows of any more.
Forgotten == unreported \ (IF job = NoJob THEN retryQueue ELSE job.pending)

\* Of all steps only two lose track of an item whose update was asked for: the watchdog's
\* clear, and an install that ends its own job broken off by an exception.  No crash, no
\* restart, no later run, no settled result and no retry does.
OnlyTheseForget ==
  [][Forgotten' \ Forgotten # {} =>
       \/ pc = "idle" /\ pc' = "watchdog"
       \/ pc = "finish" /\ job.mode = "install" /\ FromExcept]_vars

\* No update is requested without the backup the executor was configured to
\* make, whatever configuration the dashboard imports during the run.
BackupBeforeRequest ==
  pc = "wait" /\ run.cfg.createBackup => run.backup

\* An install never leaves its job behind in a process that goes on running:
\* only a retry does.
InstallJobEnds ==
  job.mode = "install" => pc = "down" \/ (run.mode = "install" /\ pc \in JobPoints \cup {"raised", "finish"})

InstallStarts == pc = "plan_install" /\ pc' = "pre_backup"
GateHeld == cooldown = 0 /\ safeMode = 0 /\ Allowed(snap)

\* When an install records its job, the cooldown and safe mode it read before it
\* waited for the lock are still over, and the rules it evaluated held.
InstallIsGated == [][InstallStarts => GateHeld]_vars

\* Two installs start at least min_minutes_between_runs apart, whatever crashes,
\* exceptions, retries or clears come between them.
InstallsAreSpaced ==
  [][InstallStarts => startAge = MinDelay]_vars

\* Without the watchdog, a failed run that ends while safe mode is on (a retry)
\* starts safe mode anew and never ends it.
FailedRunKeepsSafeMode ==
  [][pc = "account" /\ pc' = "queue_retry" /\ RunFailed /\ safeMode > 0 => safeMode' = SafeMode]_vars

\* With the watchdog on, a job in state.json that no run is working on does not
\* stay for ever: it is cleared, unless a new run gets the lock first.
StuckJobEnds == (job # NoJob /\ ~holding) ~> (job = NoJob \/ holding)

\* A lock that a crash left behind does not keep out runs for ever: if acquire
\* is called again and again, again and again it succeeds.
LockIsGrantedAgain == []<><<AcquireRunLock>>_vars => []<>holding

\* An action that a web thread enqueued is taken from the queue (or lost with
\* the process).
QueueIsServed == queue # << >> ~> queue = << >>

\* The run on record is the one in progress from its job to its end.
RunIsOnRecord == pc \in JobPoints \/ (pc \in {"raised", "finish"} /\ job.mode = run.mode)
Settling == pc \in {"account", "queue_retry"}
Phase == IF RunIsOnRecord THEN "running"
         ELSE IF job # NoJob THEN "abandoned"
         ELSE IF Settling THEN "ended" ELSE "none"
Waiting == IF RunIsOnRecord THEN run.todo ELSE {}
Unsettled == IF Settling THEN summary.failed ELSE {}

Account == INSTANCE RunAccount WITH
  up <- pc # "down", phase <- Phase, mode <- job.mode, items <- job.pending,
  rest <- Waiting, active <- run.current, asked <- unreported, unsettled <- Unsettled,
  owed <- retryQueue, last <- lastRun.status

\* The runs, checks, clears and the watchdog, with crashes and imports between any
\* two of their steps, keep one account in state.json: no item is asked for twice in a
\* run or beside another one, no run has results before each item has had its turn, none takes the
\* place of another whose items it would lose, a run that was cut off comes back as
\* items to be retried, and a retry takes nothing else.
ActsAsAccount == Account!AccountSpec
=============================================================================
