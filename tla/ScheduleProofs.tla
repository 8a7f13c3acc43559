--------------------------- MODULE ScheduleProofs ---------------------------
(***************************************************************************)
(* Proofs about Schedule for any number of web threads, ids, settings and  *)
(* any period.                                                             *)
(***************************************************************************)
EXTENDS Schedule, TLAPS

-----------------------------------------------------------------------------
(* Values *)

\* The default thread record has the type of a thread record.
LEMMA IdleType ==
  /\ Idle.at = "idle" /\ Idle.tasks = {} /\ Idle.task = NoTask /\ Idle.copy = {}
  /\ Idle \in ThreadType
<1>1. [left |-> NoTime, by |-> "tasks"] \in InstallTime
  BY DEF InstallTime, NoTime
<1>. QED
  BY <1>1 DEF Idle, ThreadType, Points

\* Normalising a list of tasks selects some of them.
LEMMA NormalizedType ==
  ASSUME NEW tasks, NEW kept \in Normalized(tasks)
  PROVE  kept \subseteq tasks /\ (tasks # {} => kept # {})
BY DEF Normalized

\* The time until the next occurrence of a task goes with its being enabled.
LEMMA NextOfType ==
  ASSUME NEW enabled \in BOOLEAN, NEW n \in NextOf(enabled)
  PROVE  n \in 0..Period \cup {NoTime} /\ (enabled <=> n # NoTime)
BY PeriodAssumption DEF NextOf, NoTime

\* The next install of a list of tasks is a time.
LEMMA InstallTimesType ==
  ASSUME NEW tasks \in SUBSET Tasks, NEW n \in InstallTimes(tasks)
  PROVE  [left |-> n, by |-> "tasks"] \in InstallTime
<1>1. {t.next : t \in {u \in tasks : u.type = "auto_update" /\ u.enabled}} \subseteq 0..Period \cup {NoTime}
  BY DEF Tasks, Task
<1>. QED
  BY <1>1 DEF InstallTimes, InstallTime

\* Time leaves the tasks what they are.
LEMMA CloserTaskType ==
  ASSUME NEW t \in Tasks
  PROVE  /\ CloserTask(t) \in Tasks
         /\ CloserTask(t).id = t.id /\ CloserTask(t).type = t.type
         /\ CloserTask(t).enabled = t.enabled
<1>1. t.next \in 0..Period \cup {NoTime} /\ t \in Task
  BY DEF Tasks, Task
<1>2. Closer(t.next) \in 0..Period \cup {NoTime} /\ (Closer(t.next) = NoTime <=> t.next = NoTime)
  BY <1>1, PeriodAssumption DEF Closer, NoTime
<1>. QED
  BY <1>1, <1>2 DEF CloserTask, Tasks, Task

\* Time leaves a next install a next install, and a missing one missing.
LEMMA CloserInstallType ==
  ASSUME NEW i \in InstallTime
  PROVE  /\ CloserInstall(i) \in InstallTime
         /\ i.left = NoTime <=> CloserInstall(i).left = NoTime
BY PeriodAssumption DEF InstallTime, CloserInstall, Closer, NoTime

\* A computed next install is a moment.
LEMMA ComputedInstallsType ==
  ASSUME TypeOK, NEW install \in ComputedInstalls
  PROVE  install \in InstallTime /\ install.left # NoTime
BY PeriodAssumption DEF ComputedInstalls, InstallTime, TypeOK, NoTime

\* A next install that ensure_schedule returns is never missing.
LEMMA EnsuredInstallsType ==
  ASSUME TypeOK, NEW read \in InstallTime, NEW install \in EnsuredInstalls(read)
  PROVE  install \in InstallTime /\ install.left # NoTime
BY ComputedInstallsType DEF EnsuredInstalls

\* Time leaves a file a file.
LEMMA CloserFileType ==
  ASSUME NEW f \in FileType
  PROVE  /\ CloserFile(f) \in FileType
         /\ CloserFile(f).tasks = CloserTasks(f.tasks)
         /\ f.tasks = {} <=> CloserFile(f).tasks = {}
         /\ f.install.left = NoTime <=> CloserFile(f).install.left = NoTime
<1>1. CloserTasks(f.tasks) \in SUBSET Tasks /\ (f.tasks = {} <=> CloserTasks(f.tasks) = {})
  BY CloserTaskType DEF FileType, CloserTasks
<1>2. CloserInstall(f.install) \in InstallTime
      /\ (f.install.left = NoTime <=> CloserInstall(f.install).left = NoTime)
  BY CloserInstallType DEF FileType
<1>3. CloserFile(f).tasks = CloserTasks(f.tasks) /\ CloserFile(f).install = CloserInstall(f.install)
  BY DEF CloserFile, FileType
<1>4. CloserFile(f) \in FileType
  BY <1>1, <1>2 DEF CloserFile, FileType
<1>. QED
  BY <1>1, <1>2, <1>3, <1>4

\* What an update makes of the file it reads: a list save has the list of the
\* thread, an install save its next install, and the rest is as it was read.
LEMMA UpdatedType ==
  ASSUME TypeOK, NEW p \in Threads, NEW new \in Updated(p, file)
  PROVE  /\ new \in FileType
         /\ new.tasks = IF thread[p].at \in ListSaves THEN thread[p].tasks ELSE file.tasks
         /\ thread[p].at \in InstallSaves => new.install = thread[p].install
         /\ thread[p].at \notin ListSaves \cup InstallSaves => new.install = file.install
<1>. DEFINE at == thread[p].at
            tasks == thread[p].tasks
<1>0. thread[p] \in ThreadType /\ file \in FileType /\ tasks \in SUBSET Tasks
  BY DEF TypeOK, ThreadType
<1>. HIDE DEF tasks
<1>1. CASE at \in ListSaves
  <2>0. at \notin InstallSaves /\ at # "sign"
    BY <1>1 DEF ListSaves, InstallSaves
  <2>1. PICK n \in InstallTimes(tasks) :
          new = [file EXCEPT !.tasks = tasks, !.install = [left |-> n, by |-> "tasks"]]
    BY <1>1, <2>0 DEF Updated, tasks
  <2>. DEFINE install == [left |-> n, by |-> "tasks"]
  <2>2. install \in InstallTime
    BY <1>0, <2>1, InstallTimesType
  <2>. HIDE DEF install
  <2>3. new \in FileType /\ new.tasks = tasks
    BY <1>0, <2>1, <2>2 DEF FileType, install
  <2>. QED
    BY <1>1, <2>0, <2>3 DEF tasks
<1>2. CASE at \in InstallSaves
  <2>1. at \notin ListSaves /\ at # "sign"
    BY <1>2 DEF ListSaves, InstallSaves
  <2>2. new = [file EXCEPT !.install = thread[p].install]
    BY <1>2, <2>1 DEF Updated
  <2>. DEFINE install == thread[p].install
  <2>3. install \in InstallTime
    BY <1>0 DEF ThreadType
  <2>. HIDE DEF install
  <2>4. new = [file EXCEPT !.install = install]
    BY <2>2 DEF install
  <2>5. new \in FileType /\ new.tasks = file.tasks /\ new.install = install
    BY <1>0, <2>3, <2>4 DEF FileType
  <2>. QED
    BY <1>2, <2>1, <2>5 DEF install
<1>3. CASE at \notin ListSaves \cup InstallSaves
  <2>1. new = [file EXCEPT !.signature = thread[p].signature] \/ new = file
    BY <1>3 DEF Updated
  <2>2. new \in FileType /\ new.tasks = file.tasks /\ new.install = file.install
    BY <1>0, <2>1 DEF FileType, ThreadType
  <2>. QED
    BY <1>3, <2>2
<1>. QED
  BY <1>1, <1>2, <1>3

-----------------------------------------------------------------------------
(* Lists that satisfy the dependency and stay so *)

\* A list satisfies the dependency and still does when it is normalised: no two
\* of its checks have one id, so that normalising drops none of them.
Sound(tasks) ==
  /\ DependenciesHold(tasks)
  /\ \A t, u \in tasks :
       t.type = "auto_check_update" /\ u.type = "auto_check_update" /\ t.id = u.id => t = u

\* The empty list is sound.
LEMMA NoTasksAreSound == Sound({})
BY DEF Sound, DependenciesHold, Enabled

\* Normalising a sound list, which drops tasks but validates nothing, gives a sound
\* list: no check is dropped, as checks come first and no two of them share an id.
LEMMA NormalizedIsSound ==
  ASSUME NEW tasks \in SUBSET Tasks, Sound(tasks), NEW kept \in Normalized(tasks)
  PROVE  Sound(kept)
<1>1. kept \subseteq tasks
  BY DEF Normalized
<1>2. ASSUME NEW c \in tasks, c.type = "auto_check_update"
      PROVE  c \in kept
  <2>1. PICK u \in kept : u.id = c.id /\ Rank(u.type) <= Rank(c.type)
    BY DEF Normalized
  <2>2. u.type = "auto_check_update"
    BY <1>1, <1>2, <2>1 DEF Rank, Tasks, Task, TaskTypes
  <2>. QED
    BY <1>1, <1>2, <2>1, <2>2 DEF Sound
<1>. QED
  BY <1>1, <1>2 DEF Sound, DependenciesHold, Enabled

\* What a thread makes of the stored list when it normalises it.
LEMMA KeptTasks ==
  ASSUME TypeOK, NEW kept \in Normalized(file.tasks)
  PROVE  /\ kept \in SUBSET Tasks
         /\ kept # file.tasks => kept # {}
         /\ Sound(file.tasks) => Sound(kept)
<1>1. file.tasks \in SUBSET Tasks
  BY DEF TypeOK, FileType
<1>2. kept \subseteq file.tasks /\ (file.tasks # {} => kept # {})
  BY NormalizedType
<1>3. Sound(file.tasks) => Sound(kept)
  BY <1>1, NormalizedIsSound
<1>. QED
  BY <1>1, <1>2, <1>3

\* A list whose tasks correspond one to one, with their ids, types and enabled
\* flags, to those of a sound list is sound.
LEMMA CloserIsSound ==
  ASSUME NEW tasks \in SUBSET Tasks, Sound(tasks)
  PROVE  Sound(CloserTasks(tasks))
<1>1. \A type : Enabled(CloserTasks(tasks), type) <=> Enabled(tasks, type)
  BY CloserTaskType DEF Enabled, CloserTasks
<1>2. ASSUME NEW t \in CloserTasks(tasks), NEW u \in CloserTasks(tasks),
             t.type = "auto_check_update", u.type = "auto_check_update", t.id = u.id
      PROVE  t = u
  <2>1. PICK a \in tasks, b \in tasks : t = CloserTask(a) /\ u = CloserTask(b)
    BY DEF CloserTasks
  <2>2. a = b
    BY <1>2, <2>1, CloserTaskType DEF Sound
  <2>. QED
    BY <2>1, <2>2
<1>. QED
  BY <1>1, <1>2 DEF Sound, DependenciesHold

\* Advancing one task of a normalised list keeps it sound.
LEMMA AdvancedIsSound ==
  ASSUME NEW tasks \in SUBSET Tasks, Sound(tasks), NEW kept \in Normalized(tasks),
         NEW t \in kept, NEW n
  PROVE  Sound((kept \ {t}) \cup {[t EXCEPT !.next = n]})
<1>. DEFINE new == [t EXCEPT !.next = n]
            list == (kept \ {t}) \cup {new}
<1>1. kept \subseteq Tasks /\ Sound(kept)
  BY NormalizedIsSound, NormalizedType
<1>2. new.id = t.id /\ new.type = t.type /\ new.enabled = t.enabled
  BY <1>1 DEF Tasks, Task
<1>. HIDE DEF new
<1>3. \A type : Enabled(list, type) <=> Enabled(kept, type)
  BY <1>2 DEF Enabled
<1>4. \A u, v \in list : u.id = v.id => u = v
  BY <1>2 DEF Normalized
<1>. QED
  BY <1>1, <1>3, <1>4 DEF Sound, DependenciesHold, new

\* An edit that gives a task of a normalised list no id of another one and is
\* validated makes a sound list.
LEMMA EditedIsSound ==
  ASSUME NEW tasks, NEW kept \in Normalized(tasks), NEW t \in kept, NEW new,
         new.id \notin IdsOf(kept \ {t}), DependenciesHold((kept \ {t}) \cup {new})
  PROVE  Sound((kept \ {t}) \cup {new})
BY DEF Sound, Normalized, IdsOf

\* So does a task of a type that the list does not have yet.
LEMMA CreatedIsSound ==
  ASSUME NEW tasks, NEW kept \in Normalized(tasks), NEW new, \A t \in kept : t.type # new.type,
         DependenciesHold(kept \cup {new})
  PROVE  Sound(kept \cup {new})
BY DEF Sound, Normalized

-----------------------------------------------------------------------------
(* What a step is *)

\* The start of the process has written the next install.
Ready == thread[Main].at \notin {"refresh", "save_refresh", "save_runs"}

\* A step of thread p leaves it with r: a list to be written has a task in it, a
\* next install that was computed or ensured is a moment, and the list is sound
\* if what it was made of is, unless an edit made two ids collide.
Moves(p, r) ==
  /\ r.copy = {}
  /\ thread' = [thread EXCEPT ![p] = r]
  /\ config' \in Settings /\ collided' \in BOOLEAN /\ (collided => collided')
  /\ r.at \in ListSaves => r.tasks # {}
  /\ r.at \in {"save_runs", "save_install", "record_check"} => r.install.left # NoTime
  /\ Sound(file.tasks) /\ Sound(thread[p].tasks) => collided' \/ Sound(r.tasks)

\* A step that reads or computes, outside an update.
Reads(p, r) ==
  /\ Moves(p, r)
  /\ UNCHANGED <<file, overtaken, emptied>>
  /\ thread[p].copy = {}
  /\ p = Main /\ ~Ready => r.at \in {"save_refresh", "save_runs"}
  /\ r.at = "record_failure" => p = Main /\ Ready /\ r.install = file.install

\* A step that ends an update.
Writes(p, r) ==
  /\ Moves(p, r)
  /\ EndUpdate(p, thread[p].at)
  /\ r.at # "record_failure"

\* A step that begins an update; the web server runs once the start is over.
Begins(p) == BeginUpdate(p) /\ (p = Main \/ Ready)

\* What every step is.
Step ==
  \/ \E p \in Threads : Begins(p)
  \/ \E p \in Threads : \E r \in ThreadType : Reads(p, r) \/ Writes(p, r)
  \/ PassTime
  \/ Restart

\* A thread that finishes, and one that only changes its point.
LEMMA SimpleMoves ==
  ASSUME TypeOK, NEW p \in Threads, UNCHANGED <<config, collided>>
  PROVE  /\ Finish(p) => Moves(p, Idle) /\ Idle \in ThreadType
         /\ \A point \in Points \ (ListSaves \cup {"save_runs", "save_install", "record_check"}) :
              thread' = [thread EXCEPT ![p].at = point, ![p].copy = {}]
                => LET r == [thread[p] EXCEPT !.at = point, !.copy = {}]
                   IN Moves(p, r) /\ r \in ThreadType /\ r.at = point
<1>0. thread[p] \in ThreadType /\ config \in Settings /\ collided \in BOOLEAN
  BY DEF TypeOK
<1>1. Finish(p) => Moves(p, Idle)
  BY <1>0, IdleType, NoTasksAreSound DEF Finish, Moves, ListSaves
<1>2. ASSUME NEW point \in Points \ (ListSaves \cup {"save_runs", "save_install", "record_check"}),
             thread' = [thread EXCEPT ![p].at = point, ![p].copy = {}]
      PROVE  LET r == [thread[p] EXCEPT !.at = point, !.copy = {}]
             IN Moves(p, r) /\ r \in ThreadType /\ r.at = point
  <2>. DEFINE r == [thread[p] EXCEPT !.at = point, !.copy = {}]
  <2>1. r \in ThreadType /\ r.at = point /\ r.copy = {} /\ r.tasks = thread[p].tasks
    BY <1>0 DEF ThreadType
  <2>2. thread' = [thread EXCEPT ![p] = r]
    BY <1>2
  <2>. HIDE DEF r
  <2>3. Moves(p, r)
    BY <1>0, <2>1, <2>2 DEF Moves
  <2>. QED
    BY <2>1, <2>3 DEF r
<1>. QED
  BY <1>1, <1>2, IdleType

\* The same for a thread that is outside an update and keeps its copy empty.
LEMMA GotoMoves ==
  ASSUME TypeOK, NEW p \in Threads, UNCHANGED collided, config' \in Settings, thread[p].copy = {},
         NEW point \in Points \ (ListSaves \cup {"save_runs", "save_install", "record_check"}),
         Goto(p, point)
  PROVE  \E r \in ThreadType : Moves(p, r) /\ r.at = point
<1>. DEFINE r == [thread[p] EXCEPT !.at = point]
<1>1. r \in ThreadType /\ r.at = point /\ r.copy = {} /\ r.tasks = thread[p].tasks
  BY DEF TypeOK, ThreadType
<1>2. thread' = [thread EXCEPT ![p] = r]
  BY DEF Goto
<1>. HIDE DEF r
<1>3. Moves(p, r)
  BY <1>1, <1>2 DEF Moves, TypeOK
<1>. QED
  BY <1>1, <1>3

\* The ticks of the service loop that only read.
LEMMA TickReads ==
  ASSUME TypeOK,
         \/ SelectDueTask \/ DispatchLegacyInstall \/ DispatchOther \/ BeginCheck \/ CheckFails
         \/ RunInstall \/ InstallRaises \/ AdvanceTask
  PROVE  \E r \in ThreadType : Reads(Main, r)
<1>. DEFINE m == thread[Main]
<1>0. /\ Main \in Threads /\ m \in ThreadType /\ file \in FileType /\ config \in Settings
      /\ collided \in BOOLEAN /\ thread \in [Threads -> ThreadType]
  BY DEF TypeOK, Threads
<1>1. m.copy = {} /\ Ready /\ UNCHANGED <<config, file, history>>
  BY DEF SelectDueTask, DispatchLegacyInstall, DispatchOther, BeginCheck, CheckFails, RunInstall,
         InstallRaises, AdvanceTask, At, Ready
<1>2. ASSUME NEW r \in ThreadType, Moves(Main, r), r.at # "record_failure"
      PROVE  Reads(Main, r)
  BY <1>1, <1>2 DEF Reads, history
<1>3. ASSUME NEW point \in Points \ (ListSaves \cup {"save_runs", "save_install", "record_check", "record_failure"}),
             Goto(Main, point)
      PROVE  \E r \in ThreadType : Reads(Main, r)
  BY <1>0, <1>1, <1>2, <1>3, GotoMoves DEF history
<1>4. CASE Finish(Main)
  <2>1. Moves(Main, Idle) /\ Idle \in ThreadType
    BY <1>0, <1>1, <1>4, SimpleMoves DEF history
  <2>. QED
    BY <1>2, <2>1, IdleType
<1>5. CASE SelectDueTask
  <2>1. PICK kept \in Normalized(file.tasks) :
          \/ /\ kept # file.tasks
             /\ \E task \in {Named(t) : t \in DueTasks(kept)} \cup {NoTask} :
                  thread' = [thread EXCEPT ![Main] =
                    [@ EXCEPT !.at = "save_selection", !.tasks = kept, !.task = task]]
          \/ \E t \in DueTasks(kept) :
               thread' = [thread EXCEPT ![Main] = [@ EXCEPT !.at = Entry(t), !.task = Named(t)]]
    BY <1>5 DEF SelectDueTask
  <2>2. kept \in SUBSET Tasks /\ (kept # file.tasks => kept # {})
        /\ (Sound(file.tasks) => Sound(kept))
    BY KeptTasks
  <2>3. \A t \in DueTasks(kept) : Named(t) \in [id : Ids, type : TaskTypes]
    BY <2>2 DEF DueTasks, Named, Tasks, Task
  <2>4. ASSUME kept # file.tasks, NEW task \in {Named(t) : t \in DueTasks(kept)} \cup {NoTask},
               thread' = [thread EXCEPT ![Main] =
                 [@ EXCEPT !.at = "save_selection", !.tasks = kept, !.task = task]]
        PROVE  \E r \in ThreadType : Reads(Main, r)
    <3>. DEFINE r == [m EXCEPT !.at = "save_selection", !.tasks = kept, !.task = task]
    <3>0. task \in [id : Ids, type : TaskTypes] \cup {NoTask} /\ "save_selection" \in Points
      BY <2>3 DEF Points, ListSaves
    <3>1. r \in ThreadType /\ r.at = "save_selection" /\ r.tasks = kept /\ r.copy = {}
      BY <1>0, <1>1, <2>2, <3>0 DEF ThreadType
    <3>2. thread' = [thread EXCEPT ![Main] = r]
      BY <1>0, <2>4
    <3>. HIDE DEF r
    <3>3. Moves(Main, r)
      BY <1>0, <1>1, <2>2, <2>4, <3>1, <3>2 DEF Moves, history
    <3>. QED
      BY <1>2, <3>1, <3>3
  <2>5. ASSUME NEW t \in DueTasks(kept),
               thread' = [thread EXCEPT ![Main] = [@ EXCEPT !.at = Entry(t), !.task = Named(t)]]
        PROVE  \E r \in ThreadType : Reads(Main, r)
    <3>. DEFINE r == [m EXCEPT !.at = Entry(t), !.task = Named(t)]
    <3>0. Entry(t) \in {"install", "check"}
      BY DEF Entry
    <3>1. r \in ThreadType /\ r.at = Entry(t) /\ r.tasks = m.tasks /\ r.copy = {}
      BY <1>0, <1>1, <2>3, <3>0 DEF ThreadType, Points
    <3>2. thread' = [thread EXCEPT ![Main] = r]
      BY <1>0, <2>5
    <3>. HIDE DEF r
    <3>3. Moves(Main, r)
      BY <1>0, <1>1, <3>0, <3>1, <3>2 DEF Moves, ListSaves, history
    <3>. QED
      BY <1>2, <3>0, <3>1, <3>3
  <2>. QED
    BY <2>1, <2>4, <2>5
<1>6. CASE DispatchLegacyInstall \/ DispatchOther
  BY <1>3, <1>6 DEF DispatchLegacyInstall, DispatchOther, Points, ListSaves
<1>7. ASSUME NEW point \in {"record_check", "record_failure", "save_install"}, NEW install \in InstallTime,
             point = "record_failure" => install = file.install,
             point # "record_failure" => install.left # NoTime,
             thread' = [thread EXCEPT ![Main].at = point, ![Main].install = install]
      PROVE  \E r \in ThreadType : Reads(Main, r)
  <2>. DEFINE r == [m EXCEPT !.at = point, !.install = install]
  <2>1. r \in ThreadType /\ r.at = point /\ r.tasks = m.tasks /\ r.install = install /\ r.copy = {}
    BY <1>0, <1>1, <1>7 DEF ThreadType, Points, InstallSaves
  <2>2. thread' = [thread EXCEPT ![Main] = r]
    BY <1>0, <1>7
  <2>. HIDE DEF r
  <2>3. Moves(Main, r)
    BY <1>0, <1>1, <1>7, <2>1, <2>2 DEF Moves, ListSaves, history
  <2>. QED
    BY <1>1, <1>7, <2>1, <2>3 DEF Reads, history
<1>8. CASE BeginCheck
  <2>1. PICK install \in EnsuredInstalls(file.install) :
          thread' = [thread EXCEPT ![Main].at = "record_check", ![Main].install = install]
    BY <1>8 DEF BeginCheck
  <2>2. install \in InstallTime /\ install.left # NoTime
    BY <1>0, EnsuredInstallsType DEF FileType
  <2>. QED
    BY <1>7, <2>1, <2>2
<1>9. CASE CheckFails
  BY <1>0, <1>7, <1>9 DEF CheckFails, FileType
<1>10. CASE RunInstall
  BY <1>7, <1>10, ComputedInstallsType DEF RunInstall
<1>11. CASE AdvanceTask
  <2>1. PICK kept \in Normalized(file.tasks) :
          \/ Finish(Main)
          \/ \E t \in kept : \E n \in NextOf(t.enabled) :
               thread' = [thread EXCEPT ![Main].at = "save_advance",
                            ![Main].tasks = (kept \ {t}) \cup {[t EXCEPT !.next = n]}]
    BY <1>11 DEF AdvanceTask
  <2>2. kept \in SUBSET Tasks
    BY <1>0, NormalizedType DEF FileType
  <2>3. ASSUME NEW t \in kept, NEW n \in NextOf(t.enabled),
               thread' = [thread EXCEPT ![Main].at = "save_advance",
                            ![Main].tasks = (kept \ {t}) \cup {[t EXCEPT !.next = n]}]
        PROVE  \E r \in ThreadType : Reads(Main, r)
    <3>. DEFINE list == (kept \ {t}) \cup {[t EXCEPT !.next = n]}
                r == [m EXCEPT !.at = "save_advance", !.tasks = list]
    <3>1. [t EXCEPT !.next = n] \in Tasks
      BY <2>2, NextOfType DEF Tasks, Task
    <3>2. list \in SUBSET Tasks /\ list # {} /\ (Sound(file.tasks) => Sound(list))
      BY <1>0, <2>2, <3>1, AdvancedIsSound DEF FileType
    <3>. HIDE DEF list
    <3>3. r \in ThreadType /\ r.at = "save_advance" /\ r.tasks = list /\ r.copy = {}
      BY <1>0, <1>1, <3>2 DEF ThreadType, Points, ListSaves
    <3>4. thread' = [thread EXCEPT ![Main] = r]
      BY <1>0, <2>3 DEF list
    <3>. HIDE DEF r
    <3>5. Moves(Main, r)
      BY <1>0, <1>1, <3>2, <3>3, <3>4 DEF Moves, history
    <3>. QED
      BY <1>2, <3>3, <3>5
  <2>. QED
    BY <1>4, <2>1, <2>3
<1>12. CASE InstallRaises
  BY <1>4, <1>12 DEF InstallRaises
<1>. QED
  BY <1>5, <1>6, <1>8, <1>9, <1>10, <1>11, <1>12

\* Those that end an update.
LEMMA TickWrites ==
  ASSUME TypeOK,
         \/ SaveSelection \/ RecordCheck \/ AdvanceInstallSchedule \/ SaveAdvance
         \/ UpdateOtherKeys(Main)
  PROVE  \E r \in ThreadType : Writes(Main, r)
<1>. DEFINE m == thread[Main]
<1>0. /\ Main \in Threads /\ m \in ThreadType /\ thread \in [Threads -> ThreadType]
  BY DEF TypeOK, Threads
<1>1. EndUpdate(Main, m.at) /\ UNCHANGED <<config, collided>>
  BY DEF SaveSelection, RecordCheck, AdvanceInstallSchedule, SaveAdvance, UpdateOtherKeys, EndUpdate
<1>2. ASSUME NEW r \in ThreadType, Moves(Main, r), r.at # "record_failure"
      PROVE  Writes(Main, r)
  BY <1>1, <1>2 DEF Writes
<1>3. CASE Finish(Main)
  <2>1. Moves(Main, Idle) /\ Idle \in ThreadType
    BY <1>0, <1>1, <1>3, SimpleMoves
  <2>. QED
    BY <1>2, <2>1, IdleType
<1>4. CASE SaveSelection
  <2>1. CASE thread' = [thread EXCEPT ![Main].at = Entry(m.task), ![Main].tasks = {}, ![Main].copy = {}]
    <3>. DEFINE r == [m EXCEPT !.at = Entry(m.task), !.tasks = {}, !.copy = {}]
    <3>0. Entry(m.task) \in {"install", "check"}
      BY DEF Entry
    <3>1. r \in ThreadType /\ r.at = Entry(m.task) /\ r.tasks = {} /\ r.copy = {}
      BY <1>0, <3>0 DEF ThreadType, Points
    <3>2. thread' = [thread EXCEPT ![Main] = r]
      BY <1>0, <2>1
    <3>. HIDE DEF r
    <3>3. Moves(Main, r)
      BY <1>1, <3>0, <3>1, <3>2, NoTasksAreSound DEF Moves, ListSaves, TypeOK
    <3>. QED
      BY <1>2, <3>0, <3>1, <3>3
  <2>. QED
    BY <1>3, <1>4, <2>1 DEF SaveSelection
<1>5. CASE OperationEnds
  <2>1. CASE thread' = [thread EXCEPT ![Main] = [Idle EXCEPT !.at = "advance", !.task = thread[Main].task]]
    <3>. DEFINE r == [Idle EXCEPT !.at = "advance", !.task = m.task]
    <3>1. r \in ThreadType /\ r.at = "advance" /\ r.tasks = {} /\ r.copy = {}
      BY <1>0, IdleType DEF ThreadType, Points
    <3>2. thread' = [thread EXCEPT ![Main] = r]
      BY <2>1
    <3>. HIDE DEF r
    <3>3. Moves(Main, r)
      BY <1>1, <3>1, <3>2, NoTasksAreSound DEF Moves, ListSaves, TypeOK
    <3>. QED
      BY <1>2, <3>1, <3>3
  <2>. QED
    BY <1>3, <1>5, <2>1 DEF OperationEnds
<1>6. CASE UpdateOtherKeys(Main)
  <2>. DEFINE r == [m EXCEPT !.copy = {}]
  <2>1. r \in ThreadType /\ r.at = m.at /\ r.tasks = m.tasks /\ r.copy = {}
    BY <1>0 DEF ThreadType
  <2>2. m.at \in {"idle", "install"} /\ thread' = [thread EXCEPT ![Main] = r]
    BY <1>0, <1>6 DEF UpdateOtherKeys, EndUpdate
  <2>. HIDE DEF r
  <2>3. Moves(Main, r)
    BY <1>1, <2>1, <2>2 DEF Moves, ListSaves, TypeOK
  <2>. QED
    BY <1>2, <2>1, <2>2, <2>3
<1>. QED
  BY <1>3, <1>4, <1>5, <1>6 DEF SaveAdvance, RecordCheck, AdvanceInstallSchedule

\* The refresh of the schedule, by the start of the process or by an import.
LEMMA RefreshSteps ==
  ASSUME TypeOK, NEW p \in Threads, Refresh(p)
  PROVE  \E r \in ThreadType : Reads(p, r) \/ Writes(p, r)
<1>0. /\ thread[p] \in ThreadType /\ file \in FileType /\ config \in Settings
      /\ collided \in BOOLEAN /\ thread \in [Threads -> ThreadType]
  BY DEF TypeOK
<1>1. CASE RefreshSchedule(p)
  <2>1. PICK kept \in Normalized(file.tasks) :
          \E install \in IF file.signature # config THEN ComputedInstalls
                         ELSE EnsuredInstalls(file.install) :
            thread' = [thread EXCEPT ![p] =
              IF kept # {} THEN [Idle EXCEPT !.at = "save_refresh", !.tasks = kept]
              ELSE [Idle EXCEPT !.at = "save_runs", !.install = install, !.signature = config]]
    BY <1>1 DEF RefreshSchedule
  <2>2. PICK install : /\ install \in InstallTime /\ install.left # NoTime
                       /\ thread' = [thread EXCEPT ![p] =
                            IF kept # {} THEN [Idle EXCEPT !.at = "save_refresh", !.tasks = kept]
                            ELSE [Idle EXCEPT !.at = "save_runs", !.install = install, !.signature = config]]
    <3>1. \A i \in ComputedInstalls \cup EnsuredInstalls(file.install) :
            i \in InstallTime /\ i.left # NoTime
      BY <1>0, ComputedInstallsType, EnsuredInstallsType DEF FileType
    <3>. QED
      BY <2>1, <3>1
  <2>3. kept \in SUBSET Tasks /\ (Sound(file.tasks) => Sound(kept))
    BY <1>0, NormalizedType, NormalizedIsSound DEF FileType
  <2>. DEFINE r == IF kept # {} THEN [Idle EXCEPT !.at = "save_refresh", !.tasks = kept]
                   ELSE [Idle EXCEPT !.at = "save_runs", !.install = install, !.signature = config]
  <2>4. /\ r \in ThreadType /\ r.copy = {} /\ r.tasks = kept
        /\ kept # {} => r.at = "save_refresh"
        /\ kept = {} => r.at = "save_runs" /\ r.install = install
    <3>1. CASE kept # {}
      BY <2>3, <3>1, IdleType DEF ThreadType, Points, RefreshPoints
    <3>2. CASE kept = {}
      BY <1>0, <2>2, <3>2, IdleType DEF ThreadType, Points, RefreshPoints
    <3>. QED
      BY <3>1, <3>2
  <2>5. thread' = [thread EXCEPT ![p] = r]
    BY <2>2
  <2>. HIDE DEF r
  <2>6. UNCHANGED <<config, file, history>> /\ thread[p].copy = {}
    BY <1>1 DEF RefreshSchedule, At
  <2>7. Moves(p, r)
    BY <1>0, <2>2, <2>3, <2>4, <2>5, <2>6 DEF Moves, ListSaves, history
  <2>. QED
    BY <2>4, <2>6, <2>7 DEF Reads, history
<1>2. CASE SaveRefresh(p)
  <2>1. EndUpdate(p, thread[p].at) /\ UNCHANGED <<config, collided>>
    BY <1>2 DEF SaveRefresh, EndUpdate
  <2>2. PICK signature \in Settings \cup {"none"} :
          thread' = [thread EXCEPT ![p] = [Idle EXCEPT !.at = "sign", !.signature = signature]]
    BY <1>0, <1>2 DEF SaveRefresh, ThreadType
  <2>. DEFINE r == [Idle EXCEPT !.at = "sign", !.signature = signature]
  <2>3. r \in ThreadType /\ r.at = "sign" /\ r.tasks = {} /\ r.copy = {}
    BY <2>2, IdleType DEF ThreadType, Points, RefreshPoints
  <2>4. thread' = [thread EXCEPT ![p] = r]
    BY <2>2
  <2>. HIDE DEF r
  <2>5. Moves(p, r)
    BY <1>0, <2>1, <2>3, <2>4, NoTasksAreSound DEF Moves, ListSaves
  <2>. QED
    BY <2>1, <2>3, <2>5 DEF Writes
<1>3. CASE SetScheduleSignature(p)
  <2>1. EndUpdate(p, thread[p].at) /\ UNCHANGED <<config, collided>>
    BY <1>3 DEF SetScheduleSignature, EndUpdate
  <2>2. Moves(p, Idle) /\ Idle \in ThreadType
    BY <1>3, <2>1, SimpleMoves DEF SetScheduleSignature
  <2>. QED
    BY <2>1, <2>2, IdleType DEF Writes
<1>. QED
  BY <1>1, <1>2, <1>3 DEF Refresh

\* The requests to the web server.
LEMMA WebSteps ==
  ASSUME TypeOK, NEW p \in Web, WebRequest(p), ~BeginUpdate(p)
  PROVE  \E r \in ThreadType : Reads(p, r) \/ Writes(p, r)
<1>0. /\ p \in Threads /\ p # Main /\ thread[p] \in ThreadType /\ file \in FileType
      /\ config \in Settings /\ collided \in BOOLEAN /\ thread \in [Threads -> ThreadType]
  BY ThreadsAssumption DEF TypeOK, Threads
<1>1. ASSUME NEW r \in ThreadType, Moves(p, r), r.at # "record_failure", thread[p].copy = {},
             UNCHANGED <<file, overtaken, emptied>>
      PROVE  \E s \in ThreadType : Reads(p, s) \/ Writes(p, s)
  BY <1>0, <1>1 DEF Reads
<1>2. ASSUME NEW r \in ThreadType, Moves(p, r), r.at # "record_failure", EndUpdate(p, thread[p].at)
      PROVE  \E s \in ThreadType : Reads(p, s) \/ Writes(p, s)
  BY <1>0, <1>2 DEF Writes
<1>3. ASSUME NEW tasks \in SUBSET Tasks, NEW task \in Tasks, tasks # {}, ToSave(p, tasks, task),
             thread[p].copy = {}, UNCHANGED <<config, file, overtaken, emptied>>,
             collided' \in BOOLEAN, collided => collided',
             Sound(file.tasks) => collided' \/ Sound(tasks)
      PROVE  \E s \in ThreadType : Reads(p, s) \/ Writes(p, s)
  <2>. DEFINE r == [thread[p] EXCEPT !.at = "save_tasks", !.tasks = tasks, !.task = Named(task)]
  <2>1. Named(task) \in [id : Ids, type : TaskTypes]
    BY DEF Named, Tasks, Task
  <2>2. r \in ThreadType /\ r.at = "save_tasks" /\ r.tasks = tasks /\ r.copy = {}
    BY <1>0, <1>3, <2>1 DEF ThreadType, Points, ListSaves
  <2>3. thread' = [thread EXCEPT ![p] = r]
    BY <1>0, <1>3 DEF ToSave
  <2>. HIDE DEF r
  <2>4. Moves(p, r)
    BY <1>0, <1>3, <2>2, <2>3 DEF Moves
  <2>. QED
    BY <1>1, <1>3, <2>2, <2>4
<1>4. ASSUME NEW type \in TaskTypes, NEW enabled \in BOOLEAN, CreateTask(p, type, enabled)
      PROVE  \E s \in ThreadType : Reads(p, s) \/ Writes(p, s)
  <2>1. PICK kept \in Normalized(file.tasks), id \in FreshIds \cup CreateIds, n \in NextOf(enabled) :
          LET new == [id |-> id, type |-> type, enabled |-> enabled, next |-> n]
          IN (\A t \in kept : t.type # type) /\ ToSave(p, kept \cup {new}, new)
    BY <1>4 DEF CreateTask
  <2>. DEFINE new == [id |-> id, type |-> type, enabled |-> enabled, next |-> n]
  <2>2. new \in Tasks
    BY NextOfType, IdsAssumption DEF Tasks, Task, FreshIds
  <2>3. kept \in SUBSET Tasks
    BY <1>0, NormalizedType DEF FileType
  <2>4. (\A t \in kept : t.type # new.type) /\ ToSave(p, kept \cup {new}, new)
    BY <2>1
  <2>. HIDE DEF new
  <2>5. Sound(kept \cup {new})
    BY <2>4, CreatedIsSound DEF ToSave
  <2>6. thread[p].copy = {} /\ UNCHANGED <<config, file, history>>
    BY <1>4 DEF CreateTask, At
  <2>. QED
    BY <1>0, <1>3, <2>2, <2>3, <2>4, <2>5, <2>6 DEF history
<1>5. ASSUME NEW id \in Ids, NEW type \in TaskTypes, NEW enabled \in BOOLEAN,
             UpdateTask(p, id, type, enabled)
      PROVE  \E s \in ThreadType : Reads(p, s) \/ Writes(p, s)
  <2>1. PICK kept \in Normalized(file.tasks), newId \in {id} \cup EditIds, n \in NextOf(enabled) :
          LET updated == [id |-> newId, type |-> type, enabled |-> enabled, next |-> n]
          IN \E t \in kept : /\ ToSave(p, (kept \ {t}) \cup {updated}, updated)
                            /\ collided' = (collided \/ newId \in IdsOf(kept \ {t}))
    BY <1>5 DEF UpdateTask
  <2>. DEFINE updated == [id |-> newId, type |-> type, enabled |-> enabled, next |-> n]
  <2>2. PICK t \in kept : /\ ToSave(p, (kept \ {t}) \cup {updated}, updated)
                          /\ collided' = (collided \/ updated.id \in IdsOf(kept \ {t}))
    BY <2>1
  <2>3. updated \in Tasks
    BY NextOfType, IdsAssumption DEF Tasks, Task
  <2>4. kept \in SUBSET Tasks
    BY <1>0, NormalizedType DEF FileType
  <2>. HIDE DEF updated
  <2>5. collided' \in BOOLEAN /\ (collided => collided')
        /\ (~collided' => updated.id \notin IdsOf(kept \ {t}))
    BY <1>0, <2>2
  <2>6. collided' \/ Sound((kept \ {t}) \cup {updated})
    BY <2>2, <2>5, EditedIsSound DEF ToSave
  <2>7. thread[p].copy = {} /\ UNCHANGED <<config, file, overtaken, emptied>>
    BY <1>5 DEF UpdateTask, At
  <2>8. (kept \ {t}) \cup {updated} \in SUBSET Tasks /\ (kept \ {t}) \cup {updated} # {}
    BY <2>3, <2>4
  <2>. QED
    BY <1>3, <2>2, <2>3, <2>5, <2>6, <2>7, <2>8
<1>6. CASE SaveTasks(p)
  <2>. DEFINE r == [thread[p] EXCEPT !.at = "list", !.tasks = {}, !.copy = {}]
  <2>1. r \in ThreadType /\ r.at = "list" /\ r.tasks = {} /\ r.copy = {}
    BY <1>0 DEF ThreadType, Points
  <2>2. thread' = [thread EXCEPT ![p] = r] /\ EndUpdate(p, thread[p].at) /\ UNCHANGED <<config, collided>>
    BY <1>0, <1>6 DEF SaveTasks, EndUpdate
  <2>. HIDE DEF r
  <2>3. Moves(p, r)
    BY <1>0, <2>1, <2>2, NoTasksAreSound DEF Moves, ListSaves
  <2>. QED
    BY <1>2, <2>1, <2>2, <2>3
<1>7. CASE ListTasks(p)
  <2>0. thread[p].copy = {} /\ UNCHANGED <<config, file, history>>
    BY <1>7 DEF ListTasks, At
  <2>1. PICK kept \in Normalized(file.tasks) :
          \/ Finish(p)
          \/ /\ kept # file.tasks
             /\ thread' = [thread EXCEPT ![p] = [Idle EXCEPT !.at = "save_list", !.tasks = kept]]
    BY <1>7 DEF ListTasks
  <2>2. CASE Finish(p)
    <3>1. Moves(p, Idle) /\ Idle \in ThreadType
      BY <1>0, <2>0, <2>2, SimpleMoves DEF history
    <3>. QED
      BY <1>1, <2>0, <3>1, IdleType DEF history
  <2>3. CASE /\ kept # file.tasks
             /\ thread' = [thread EXCEPT ![p] = [Idle EXCEPT !.at = "save_list", !.tasks = kept]]
    <3>. DEFINE r == [Idle EXCEPT !.at = "save_list", !.tasks = kept]
    <3>1. kept \in SUBSET Tasks /\ kept # {} /\ (Sound(file.tasks) => Sound(kept))
      BY <2>3, KeptTasks
    <3>2. r \in ThreadType /\ r.at = "save_list" /\ r.tasks = kept /\ r.copy = {}
      BY <3>1, IdleType DEF ThreadType, Points, ListSaves
    <3>3. thread' = [thread EXCEPT ![p] = r]
      BY <2>3
    <3>. HIDE DEF r
    <3>4. Moves(p, r)
      BY <1>0, <2>0, <3>1, <3>2, <3>3 DEF Moves, history
    <3>. QED
      BY <1>1, <2>0, <3>2, <3>4 DEF history
  <2>. QED
    BY <2>1, <2>2, <2>3
<1>8. CASE SaveList(p)
  <2>1. EndUpdate(p, thread[p].at) /\ UNCHANGED <<config, collided>>
    BY <1>8 DEF SaveList, EndUpdate
  <2>2. Moves(p, Idle) /\ Idle \in ThreadType
    BY <1>0, <1>8, <2>1, SimpleMoves DEF SaveList
  <2>. QED
    BY <1>2, <2>1, <2>2, IdleType
<1>9. ASSUME NEW s \in Imports, ImportConfiguration(p, s)
      PROVE  \E t \in ThreadType : Reads(p, t) \/ Writes(p, t)
  <2>1. thread[p].copy = {} /\ UNCHANGED <<file, history>> /\ config' \in Settings
    BY <1>9, SettingsAssumption DEF ImportConfiguration, At
  <2>2. "refresh" \in Points \ (ListSaves \cup {"save_runs", "save_install", "record_check"})
    BY DEF Points, RefreshPoints, ListSaves
  <2>3. PICK r \in ThreadType : Moves(p, r) /\ r.at = "refresh"
    BY <1>0, <1>9, <2>1, <2>2, GotoMoves DEF ImportConfiguration, history
  <2>. QED
    BY <1>1, <2>1, <2>3 DEF history
<1>10. CASE UpdateOtherKeys(p)
  <2>. DEFINE r == [thread[p] EXCEPT !.copy = {}]
  <2>1. r \in ThreadType /\ r.at = thread[p].at /\ r.tasks = thread[p].tasks /\ r.copy = {}
    BY <1>0 DEF ThreadType
  <2>2. /\ thread[p].at \in {"idle", "install"} /\ thread' = [thread EXCEPT ![p] = r]
        /\ EndUpdate(p, thread[p].at) /\ UNCHANGED <<config, collided>>
    BY <1>0, <1>10 DEF UpdateOtherKeys, EndUpdate
  <2>. HIDE DEF r
  <2>3. Moves(p, r)
    BY <1>0, <2>1, <2>2 DEF Moves, ListSaves
  <2>. QED
    BY <1>2, <2>1, <2>2, <2>3
<1>. QED
  BY <1>0, <1>4, <1>5, <1>6, <1>7, <1>8, <1>9, <1>10, RefreshSteps DEF WebRequest

\* Every step is one of the steps above.
LEMMA StepShape ==
  ASSUME TypeOK, Next
  PROVE  Step
<1>0. Main \in Threads /\ Web \subseteq Threads
  BY DEF Threads
<1>1. CASE Tick \/ UpdateOtherKeys(Main)
  BY <1>0, <1>1, TickReads, TickWrites DEF Tick, Step
<1>2. CASE Refresh(Main)
  BY <1>0, <1>2, RefreshSteps DEF Step
<1>3. CASE BeginUpdate(Main)
  BY <1>0, <1>3 DEF Step, Begins
<1>4. ASSUME NEW p \in Web, WebRequest(p), ~Starting
      PROVE  Step
  <2>1. Ready
    BY <1>4 DEF Starting, Ready, RefreshPoints
  <2>2. CASE BeginUpdate(p)
    BY <1>0, <2>1, <2>2 DEF Step, Begins
  <2>3. CASE ~BeginUpdate(p)
    BY <1>0, <1>4, <2>3, WebSteps DEF Step
  <2>. QED
    BY <2>2, <2>3
<1>. QED
  BY <1>1, <1>2, <1>3, <1>4 DEF Next, Step

\* What time does to a thread.
LEMMA TimeShape ==
  ASSUME TypeOK, PassTime, NEW p \in Threads
  PROVE  /\ thread'[p] \in ThreadType
         /\ thread'[p].at = thread[p].at
         /\ thread'[p].tasks = CloserTasks(thread[p].tasks)
         /\ thread[p].tasks # {} => thread'[p].tasks # {}
         /\ thread'[p].install.left = NoTime <=> thread[p].install.left = NoTime
         /\ thread'[p].copy = {CloserFile(f) : f \in thread[p].copy}
<1>0. thread[p] \in ThreadType
  BY DEF TypeOK
<1>1. thread'[p] = [thread[p] EXCEPT !.tasks = CloserTasks(@), !.install = CloserInstall(@),
                                     !.copy = {CloserFile(f) : f \in @}]
  BY DEF PassTime
<1>2. /\ CloserTasks(thread[p].tasks) \in SUBSET Tasks
      /\ thread[p].tasks # {} => CloserTasks(thread[p].tasks) # {}
  BY <1>0, CloserTaskType DEF ThreadType, CloserTasks
<1>3. CloserInstall(thread[p].install) \in InstallTime
      /\ (CloserInstall(thread[p].install).left = NoTime <=> thread[p].install.left = NoTime)
  BY <1>0, CloserInstallType DEF ThreadType
<1>4. {CloserFile(f) : f \in thread[p].copy} \in SUBSET FileType
  BY <1>0, CloserFileType DEF ThreadType
<1>. QED
  BY <1>0, <1>1, <1>2, <1>3, <1>4 DEF ThreadType

-----------------------------------------------------------------------------
(* Types *)

\* Every step keeps the type invariant.
LEMMA TypeStep ==
  ASSUME TypeOK, [Next]_vars
  PROVE  TypeOK'
<1>1. CASE UNCHANGED vars
  BY <1>1 DEF vars, history, TypeOK
<1>2. ASSUME NEW p \in Threads, Begins(p)
      PROVE  TypeOK'
  <2>1. PICK new \in Updated(p, file) : thread' = [thread EXCEPT ![p].copy = {new}]
    BY <1>2 DEF Begins, BeginUpdate
  <2>2. [thread[p] EXCEPT !.copy = {new}] \in ThreadType
    BY UpdatedType DEF TypeOK, ThreadType
  <2>3. thread' \in [Threads -> ThreadType]
    BY <2>1, <2>2 DEF TypeOK
  <2>. QED
    BY <1>2, <2>3 DEF Begins, BeginUpdate, history, TypeOK
<1>3. ASSUME NEW p \in Threads, NEW r \in ThreadType, Moves(p, r)
      PROVE  thread' \in [Threads -> ThreadType] /\ config' \in Settings /\ collided' \in BOOLEAN
  BY <1>3 DEF Moves, TypeOK
<1>4. ASSUME NEW p \in Threads, NEW r \in ThreadType, Reads(p, r)
      PROVE  TypeOK'
  BY <1>3, <1>4 DEF Reads, TypeOK
<1>5. ASSUME NEW p \in Threads, NEW r \in ThreadType, Writes(p, r)
      PROVE  TypeOK'
  <2>1. file' \in FileType
    BY <1>5 DEF Writes, EndUpdate, TypeOK, ThreadType
  <2>2. overtaken' \subseteq Threads /\ emptied' \in BOOLEAN
    BY <1>5 DEF Writes, EndUpdate, TypeOK
  <2>. QED
    BY <1>3, <1>5, <2>1, <2>2 DEF Writes, TypeOK
<1>6. CASE PassTime
  <2>1. thread' \in [Threads -> ThreadType]
    <3>1. DOMAIN thread' = Threads /\ thread' = [p \in Threads |-> thread'[p]]
      BY <1>6 DEF PassTime
    <3>. QED
      BY <1>6, <3>1, TimeShape
  <2>. QED
    BY <1>6, <2>1, CloserFileType DEF PassTime, history, TypeOK
<1>7. CASE Restart
  <2>1. StartingThreads \in [Threads -> ThreadType]
    BY IdleType DEF StartingThreads, ThreadType, Points, RefreshPoints
  <2>. QED
    BY <1>7, <2>1 DEF Restart, TypeOK
<1>. QED
  BY <1>1, <1>2, <1>4, <1>5, <1>6, <1>7, StepShape DEF Step

\* The type invariant.
THEOREM TypeCorrect == Spec => []TypeOK
<1>1. Init => TypeOK
  <2>1. StartingThreads \in [Threads -> ThreadType]
    BY IdleType DEF StartingThreads, ThreadType, Points, RefreshPoints
  <2>2. [tasks |-> {}, install |-> [left |-> NoTime, by |-> "tasks"], signature |-> "none"] \in FileType
    BY DEF FileType, InstallTime, NoTime
  <2>. QED
    BY <2>1, <2>2 DEF Init, TypeOK
<1>2. TypeOK /\ [Next]_vars => TypeOK'
  BY TypeStep
<1>. QED
  BY <1>1, <1>2, PTL DEF Spec

-----------------------------------------------------------------------------
(* What threads hold to be written *)

\* A list to be written has a task in it, a computed next install is a moment,
\* and only the service loop is ever about to record a failed check.
Held ==
  \A p \in Threads :
    /\ thread[p].at \in ListSaves => thread[p].tasks # {}
    /\ thread[p].at \in {"save_runs", "save_install", "record_check"} => thread[p].install.left # NoTime
    /\ thread[p].at = "record_failure" => p = Main

\* Every step keeps what threads hold so.
LEMMA HeldStep ==
  ASSUME TypeOK, Held, [Next]_vars
  PROVE  Held'
<1>1. CASE UNCHANGED vars
  BY <1>1 DEF vars, Held
<1>2. ASSUME NEW p \in Threads, Begins(p)
      PROVE  Held'
  <2>1. PICK new : thread' = [thread EXCEPT ![p].copy = {new}]
    BY <1>2 DEF Begins, BeginUpdate
  <2>2. \A q \in Threads : thread'[q].at = thread[q].at /\ thread'[q].tasks = thread[q].tasks
                          /\ thread'[q].install = thread[q].install
    BY <2>1 DEF TypeOK, ThreadType
  <2>. QED
    BY <2>2 DEF Held
<1>3. ASSUME NEW p \in Threads, NEW r \in ThreadType, Moves(p, r), r.at = "record_failure" => p = Main
      PROVE  Held'
  BY <1>3 DEF Moves, TypeOK, Held
<1>4. CASE PassTime
  BY <1>4, TimeShape DEF Held
<1>5. CASE Restart
  <2>1. \A p \in Threads : thread'[p].at \in {"idle", "refresh"}
    BY <1>5, IdleType DEF Restart, StartingThreads, Idle
  <2>. QED
    BY <2>1 DEF Held, ListSaves
<1>. QED
  BY <1>1, <1>2, <1>3, <1>4, <1>5, StepShape DEF Step, Reads, Writes

\* No thread is ever about to write an empty list of tasks.
LEMMA AlwaysHeld == Spec => []Held
<1>1. Init => Held
  <2>1. Init => \A p \in Threads : thread[p].at \in {"idle", "refresh"}
    BY IdleType DEF Init, StartingThreads, Idle
  <2>. QED
    BY <2>1 DEF Held, ListSaves
<1>2. TypeOK /\ Held /\ [Next]_vars => Held'
  BY HeldStep
<1>. QED
  BY <1>1, <1>2, TypeCorrect, PTL DEF Spec

-----------------------------------------------------------------------------
(* Tasks disappear only by an update that was overtaken *)

\* Unless another thread has written since an update read the file, its copy has
\* no tasks only if the file has none.
CopiesKeepTasks ==
  \A p \in Threads \ overtaken : \A c \in thread[p].copy : c.tasks = {} => file.tasks = {}

\* Every step keeps the copies so.
LEMMA CopiesStep ==
  ASSUME TypeOK, Held, CopiesKeepTasks, [Next]_vars
  PROVE  CopiesKeepTasks'
<1>1. CASE UNCHANGED vars
  BY <1>1 DEF vars, history, CopiesKeepTasks
<1>2. ASSUME NEW p \in Threads, Begins(p)
      PROVE  CopiesKeepTasks'
  <2>1. PICK new \in Updated(p, file) : thread' = [thread EXCEPT ![p].copy = {new}]
    BY <1>2 DEF Begins, BeginUpdate
  <2>2. new.tasks = {} => file.tasks = {}
    BY UpdatedType DEF Held
  <2>3. /\ thread'[p].copy = {new}
        /\ \A q \in Threads \ {p} : thread'[q] = thread[q]
    BY <2>1 DEF TypeOK, ThreadType
  <2>. QED
    BY <1>2, <2>2, <2>3 DEF Begins, BeginUpdate, history, CopiesKeepTasks
<1>3. ASSUME NEW p \in Threads, NEW r \in ThreadType, Reads(p, r)
      PROVE  CopiesKeepTasks'
  BY <1>3 DEF Reads, Moves, TypeOK, CopiesKeepTasks
<1>4. ASSUME NEW p \in Threads, NEW r \in ThreadType, Writes(p, r)
      PROVE  CopiesKeepTasks'
  <2>1. \A q \in Threads \ overtaken' : thread'[q].copy = {}
    BY <1>4 DEF Writes, Moves, EndUpdate, TypeOK
  <2>. QED
    BY <2>1 DEF CopiesKeepTasks
<1>5. CASE PassTime
  <2>1. file.tasks = {} => file'.tasks = {}
    BY <1>5, CloserFileType DEF PassTime, TypeOK
  <2>2. ASSUME NEW p \in Threads, NEW c \in thread'[p].copy, c.tasks = {}
        PROVE  \E f \in thread[p].copy : f.tasks = {}
    <3>1. PICK f \in thread[p].copy : c = CloserFile(f)
      BY <1>5, TimeShape
    <3>2. f \in FileType
      BY DEF TypeOK, ThreadType
    <3>. QED
      BY <2>2, <3>1, <3>2, CloserFileType
  <2>. QED
    BY <1>5, <2>1, <2>2 DEF PassTime, history, CopiesKeepTasks
<1>6. CASE Restart
  <2>1. \A p \in Threads : thread'[p].copy = {}
    BY <1>6, IdleType DEF Restart, StartingThreads, Idle
  <2>. QED
    BY <2>1 DEF CopiesKeepTasks
<1>. QED
  BY <1>1, <1>2, <1>3, <1>4, <1>5, <1>6, StepShape DEF Step

\* The last task disappears only when an update ends that another thread's write
\* has overtaken: lists that are read, changed and written in separate steps never
\* do it, however many threads there are.
THEOREM TasksNeverDisappear == Spec => TasksStay
<1>1. Init => CopiesKeepTasks
  BY IdleType DEF Init, StartingThreads, CopiesKeepTasks, Idle
<1>2. TypeOK /\ Held /\ CopiesKeepTasks /\ [Next]_vars => CopiesKeepTasks'
  BY CopiesStep
<1>3. ASSUME TypeOK, CopiesKeepTasks, Next, file.tasks # {}, file'.tasks = {}
      PROVE  \E p \in overtaken : file' \in thread[p].copy
  <2>1. ~PassTime
    BY <1>3, CloserFileType DEF PassTime, TypeOK
  <2>2. PICK p \in Threads : EndUpdate(p, thread[p].at)
    BY <1>3, <2>1, StepShape DEF Step, Begins, BeginUpdate, Reads, Writes, Restart
  <2>. QED
    BY <1>3, <2>2 DEF EndUpdate, CopiesKeepTasks
<1>4. TypeOK /\ CopiesKeepTasks /\ [Next]_vars =>
        [file.tasks # {} /\ file'.tasks = {} => \E p \in overtaken : file' \in thread[p].copy]_vars
  BY <1>3
<1>. QED
  BY <1>1, <1>2, <1>4, TypeCorrect, AlwaysHeld, PTL DEF Spec, TasksStay

-----------------------------------------------------------------------------
(* The next install of the legacy schedule *)

\* The invariant behind LegacyInstallIsSet: as soon as the start of the process has
\* written the next runs, every list without tasks, in the file or in the copy of
\* an update, goes with a next install, and a failed check puts none back only if
\* there are tasks.
InstallKnown ==
  ~emptied =>
    /\ Ready /\ file.tasks = {} => file.install.left # NoTime
    /\ thread[Main].at = "record_failure" /\ file.tasks = {} => thread[Main].install.left # NoTime
    /\ \A p \in Threads : \A c \in thread[p].copy : c.tasks = {} => c.install.left # NoTime

\* Every step keeps it.
LEMMA InstallStep ==
  ASSUME TypeOK, Held, InstallKnown, [Next]_vars
  PROVE  InstallKnown'
<1>0. Main \in Threads /\ thread \in [Threads -> ThreadType]
  BY DEF Threads, TypeOK
<1>1. CASE UNCHANGED vars
  BY <1>1 DEF vars, history, InstallKnown, Ready
<1>2. ASSUME NEW p \in Threads, Begins(p), ~emptied'
      PROVE  InstallKnown'
  <2>1. PICK new \in Updated(p, file) : thread' = [thread EXCEPT ![p].copy = {new}]
    BY <1>2 DEF Begins, BeginUpdate
  <2>2. ~emptied /\ file' = file
    BY <1>2 DEF Begins, BeginUpdate, history
  <2>3. /\ thread'[p].copy = {new}
        /\ \A q \in Threads \ {p} : thread'[q] = thread[q]
        /\ \A q \in Threads : thread'[q].at = thread[q].at /\ thread'[q].install = thread[q].install
    BY <1>0, <2>1 DEF ThreadType
  <2>4. new.tasks = {} => new.install.left # NoTime
    <3>. SUFFICES ASSUME new.tasks = {} PROVE new.install.left # NoTime
      OBVIOUS
    <3>1. thread[p].at \notin ListSaves /\ file.tasks = {}
      BY UpdatedType DEF Held
    <3>2. CASE thread[p].at \in InstallSaves
      <4>1. new.install = thread[p].install
        BY <3>2, UpdatedType
      <4>. QED
        BY <2>2, <3>1, <3>2, <4>1 DEF Held, InstallKnown, InstallSaves
    <3>3. CASE thread[p].at \notin InstallSaves
      <4>1. new.install = file.install
        BY <3>1, <3>3, UpdatedType
      <4>2. Ready
        BY <1>2, <3>1, <3>3 DEF Begins, BeginUpdate, Ready, ListSaves, InstallSaves
      <4>. QED
        BY <2>2, <3>1, <4>1, <4>2 DEF InstallKnown
    <3>. QED
      BY <3>2, <3>3
  <2>. QED
    BY <1>0, <2>2, <2>3, <2>4 DEF InstallKnown, Ready
<1>3. ASSUME NEW p \in Threads, NEW r \in ThreadType, Reads(p, r), ~emptied'
      PROVE  InstallKnown'
  <2>1. ~emptied /\ file' = file /\ r.copy = {}
        /\ thread'[p] = r /\ \A q \in Threads \ {p} : thread'[q] = thread[q]
    BY <1>0, <1>3 DEF Reads, Moves
  <2>2. Ready' => Ready
    BY <1>0, <1>3, <2>1 DEF Reads, Ready
  <2>3. thread'[Main].at = "record_failure" /\ file.tasks = {} => thread'[Main].install.left # NoTime
    <3>1. CASE p = Main
      BY <1>3, <2>1, <3>1 DEF Reads, InstallKnown
    <3>2. CASE p # Main
      BY <1>0, <2>1, <3>2 DEF InstallKnown
    <3>. QED
      BY <3>1, <3>2
  <2>. QED
    BY <2>1, <2>2, <2>3 DEF InstallKnown
<1>4. ASSUME NEW p \in Threads, NEW r \in ThreadType, Writes(p, r), ~emptied'
      PROVE  InstallKnown'
  <2>1. /\ ~emptied /\ file' \in thread[p].copy /\ (file'.tasks = {} => file.tasks = {})
        /\ r.copy = {} /\ r.at # "record_failure"
        /\ thread'[p] = r /\ \A q \in Threads \ {p} : thread'[q] = thread[q]
    BY <1>0, <1>4 DEF Writes, Moves, EndUpdate, TypeOK
  <2>. QED
    BY <1>0, <2>1 DEF InstallKnown
<1>5. CASE PassTime
  <2>0. emptied' = emptied
    BY <1>5 DEF PassTime, history
  <2>1. /\ file'.tasks = {} <=> file.tasks = {}
        /\ file'.install.left = NoTime <=> file.install.left = NoTime
    BY <1>5, CloserFileType DEF PassTime, TypeOK
  <2>2. Ready' <=> Ready
    BY <1>0, <1>5, TimeShape DEF Ready
  <2>3. ASSUME NEW p \in Threads, NEW c \in thread'[p].copy, c.tasks = {}, ~emptied
        PROVE  c.install.left # NoTime
    <3>1. PICK f \in thread[p].copy : c = CloserFile(f)
      BY <1>5, TimeShape
    <3>2. f \in FileType
      BY DEF TypeOK, ThreadType
    <3>. QED
      BY <2>3, <3>1, <3>2, CloserFileType DEF InstallKnown
  <2>4. /\ thread'[Main].at = thread[Main].at
        /\ thread'[Main].install.left = NoTime <=> thread[Main].install.left = NoTime
    BY <1>0, <1>5, TimeShape
  <2>. QED
    BY <2>0, <2>1, <2>2, <2>3, <2>4 DEF InstallKnown
<1>6. CASE Restart
  <2>1. /\ \A p \in Threads : thread'[p].copy = {}
        /\ thread'[Main].at = "refresh"
    BY <1>0, <1>6, IdleType DEF Restart, StartingThreads, Idle
  <2>. QED
    BY <2>1 DEF InstallKnown, Ready
<1>. QED
  BY <1>1, <1>2, <1>3, <1>4, <1>5, <1>6, StepShape DEF Step, InstallKnown

\* Without tasks the next install is a stored moment from the first refresh on, for
\* any number of threads, unless an update has taken the tasks away.
THEOREM LegacyInstallIsAlwaysSet == Spec => []LegacyInstallIsSet
<1>1. Init => InstallKnown
  BY IdleType DEF Init, StartingThreads, InstallKnown, Ready, Idle, Threads
<1>2. TypeOK /\ Held /\ InstallKnown /\ [Next]_vars => InstallKnown'
  BY InstallStep
<1>3. InstallKnown => LegacyInstallIsSet
  BY DEF InstallKnown, LegacyInstallIsSet, Ready, Starting, RefreshPoints
<1>. QED
  BY <1>1, <1>2, <1>3, TypeCorrect, AlwaysHeld, PTL DEF Spec

-----------------------------------------------------------------------------
(* Auto Update needs Auto Check Update *)

\* Every list that is stored, or that a thread holds to write it, is sound, unless an
\* edit has given a task the id of another one.
SoundLists ==
  ~collided =>
    /\ Sound(file.tasks)
    /\ \A p \in Threads : Sound(thread[p].tasks) /\ \A c \in thread[p].copy : Sound(c.tasks)

\* Every step keeps every list sound.
LEMMA SoundStep ==
  ASSUME TypeOK, SoundLists, [Next]_vars
  PROVE  SoundLists'
<1>1. CASE UNCHANGED vars
  BY <1>1 DEF vars, history, SoundLists
<1>2. ASSUME NEW p \in Threads, Begins(p)
      PROVE  SoundLists'
  <2>1. PICK new \in Updated(p, file) : thread' = [thread EXCEPT ![p].copy = {new}]
    BY <1>2 DEF Begins, BeginUpdate
  <2>2. new.tasks \in {file.tasks, thread[p].tasks}
    BY UpdatedType
  <2>3. /\ thread'[p].copy = {new}
        /\ \A q \in Threads \ {p} : thread'[q] = thread[q]
        /\ \A q \in Threads : thread'[q].tasks = thread[q].tasks
    BY <2>1 DEF TypeOK, ThreadType
  <2>. QED
    BY <1>2, <2>2, <2>3 DEF Begins, BeginUpdate, history, SoundLists
<1>3. ASSUME NEW p \in Threads, NEW r \in ThreadType, Moves(p, r), ~collided'
      PROVE  /\ ~collided
             /\ \A q \in Threads : Sound(thread'[q].tasks) /\ \A c \in thread'[q].copy : Sound(c.tasks)
  <2>1. /\ ~collided /\ r.copy = {}
        /\ thread'[p] = r /\ \A q \in Threads \ {p} : thread'[q] = thread[q]
        /\ Sound(file.tasks) /\ Sound(thread[p].tasks) => Sound(r.tasks)
    BY <1>3 DEF Moves, TypeOK
  <2>. QED
    BY <2>1 DEF SoundLists
<1>4. ASSUME NEW p \in Threads, NEW r \in ThreadType, Reads(p, r)
      PROVE  SoundLists'
  BY <1>3, <1>4 DEF Reads, SoundLists
<1>5. ASSUME NEW p \in Threads, NEW r \in ThreadType, Writes(p, r)
      PROVE  SoundLists'
  BY <1>3, <1>5 DEF Writes, EndUpdate, SoundLists
<1>6. CASE PassTime
  <2>1. file \in FileType /\ file' = CloserFile(file) /\ collided' = collided
    BY <1>6 DEF PassTime, history, TypeOK
  <2>2. \A f \in FileType : Sound(f.tasks) => Sound(CloserFile(f).tasks)
    BY CloserFileType, CloserIsSound DEF FileType
  <2>3. ASSUME NEW p \in Threads, ~collided
        PROVE  Sound(thread'[p].tasks) /\ \A c \in thread'[p].copy : Sound(c.tasks)
    <3>1. thread[p] \in ThreadType
      BY DEF TypeOK
    <3>2. Sound(thread'[p].tasks)
      BY <1>6, <2>3, <3>1, TimeShape, CloserIsSound DEF ThreadType, SoundLists
    <3>3. ASSUME NEW c \in thread'[p].copy
          PROVE  Sound(c.tasks)
      <4>1. PICK f \in thread[p].copy : c = CloserFile(f)
        BY <1>6, TimeShape
      <4>. QED
        BY <2>2, <2>3, <3>1, <4>1 DEF ThreadType, SoundLists
    <3>. QED
      BY <3>2, <3>3
  <2>. QED
    BY <2>1, <2>2, <2>3 DEF SoundLists
<1>7. CASE Restart
  <2>1. \A p \in Threads : thread'[p].tasks = {} /\ thread'[p].copy = {}
    BY <1>7, IdleType DEF Restart, StartingThreads, Idle
  <2>. QED
    BY <1>7, <2>1, NoTasksAreSound DEF Restart, SoundLists
<1>. QED
  BY <1>1, <1>2, <1>4, <1>5, <1>6, <1>7, StepShape DEF Step

\* An enabled Auto Update task is stored without an enabled Auto Check Update task
\* only after an edit that gave a task the id of another one, however requests,
\* ticks, updates of other keys and restarts write over each other.
THEOREM DependencyIsKept == Spec => []AutoUpdateNeedsCheck
<1>1. Init => SoundLists
  BY IdleType, NoTasksAreSound DEF Init, StartingThreads, SoundLists, Idle
<1>2. TypeOK /\ SoundLists /\ [Next]_vars => SoundLists'
  BY SoundStep
<1>3. SoundLists => AutoUpdateNeedsCheck
  BY DEF SoundLists, Sound, AutoUpdateNeedsCheck
<1>. QED
  BY <1>1, <1>2, <1>3, TypeCorrect, PTL DEF Spec
=============================================================================
