------------------------- MODULE RunLifecycleProofs -------------------------
(***************************************************************************)
(* What the runs of RunLifecycle check on small instances, proved for any  *)
(* set of items, any durations and any configurations.                     *)
(***************************************************************************)
EXTENDS RunLifecycle, TLAPS

USE DurationsAssumption, InputsAssumption DEF DurationsAssumption, InputsAssumption

\* The default values have the types of what they stand for.
LEMMA NoRunType == NoRun \in RunType
  BY DEF NoRun, RunType, Triggers

\* So have those for no job, no summary and no snapshot.
LEMMA EmptyValuesType ==
  NoJob \in JobType /\ NoSummary \in SummaryType /\ NoSnapshot \in SnapshotType
  BY DEF NoJob, JobType, NoSummary, SummaryType, Statuses, NoSnapshot, SnapshotType

\* An action is run in one of the modes of a run ...
LEMMA ModeOfType == \A a \in Actions : ModeOf(a) \in {"none", "install", "retry"}
  BY DEF Actions, ModeOf

\* ... and begins where its operation does.
LEMMA EntryOfType == \A a \in Actions : EntryOf(a) \in {"check", "gate", "retry", "backup", "clear"}
  BY DEF Actions, EntryOf

\* start_job records a job and the plan of the run.
LEMMA StartJobType ==
  ASSUME TypeOK, NEW plan \in SUBSET Items, StartJob(plan)
  PROVE  run' \in RunType /\ job' \in JobType
<1>1. run \in RunType
  BY DEF TypeOK
<1>2. run' \in RunType
  BY <1>1 DEF StartJob, RunType
<1>3. run.mode \in {"none", "install", "retry"}
  BY <1>1 DEF RunType
<1>4. 0 \in 0..WatchdogAfter + 1
  OBVIOUS
<1>5. job' \in JobType
  BY <1>3, <1>4 DEF StartJob, JobType
<1> QED
  BY <1>2, <1>5

\* The type invariant.
THEOREM TypeCorrect == Spec => []TypeOK
<1>1. Init => TypeOK
  <2> SUFFICES ASSUME Init PROVE TypeOK
    OBVIOUS
  <2>1. queue \in Seq(Requests)
    BY DEF Init
  <2>2. lastRun \in [status : Statuses, age : 0..MinDelay]
    BY DEF Init, Statuses
  <2>3. /\ failureCount \in 0..Threshold /\ cooldown \in 0..Cooldown
        /\ safeMode \in 0..SafeMode /\ startAge \in 0..MinDelay
    BY DEF Init
  <2> QED
    BY <2>1, <2>2, <2>3, NoRunType, EmptyValuesType DEF Init, TypeOK, FreePoints
<1>2. TypeOK /\ [Next]_vars => TypeOK'
  <2> SUFFICES ASSUME TypeOK, [Next]_vars PROVE TypeOK'
    OBVIOUS
  <2> USE DEF memory, accounts, disk, history
  <2>1. CASE PassTime
    <3>1. lockAge' \in 0..Stale + 1 \cup {NoLock}
      <4>1. lockAge \in 0..Stale + 1 \cup {NoLock}
        BY DEF TypeOK
      <4>2. lockAge' = IF lockAge = NoLock THEN NoLock ELSE Older(lockAge, Stale + 1)
        BY <2>1 DEF PassTime
      <4> QED
        BY <4>1, <4>2 DEF Older, NoLock
    <3>2. job' \in JobType
      <4>1. job \in JobType
        BY DEF TypeOK
      <4>2. job' = IF job = NoJob THEN NoJob ELSE [job EXCEPT !.age = Older(@, WatchdogAfter + 1)]
        BY <2>1 DEF PassTime
      <4> QED
        BY <4>1, <4>2 DEF Older, NoJob, JobType
    <3>3. cooldown' \in 0..Cooldown /\ safeMode' \in 0..SafeMode /\ startAge' \in 0..MinDelay
      BY <2>1, SMTT(30) DEF PassTime, TypeOK, Older, Closer
    <3>4. lastRun' \in [status : Statuses, age : 0..MinDelay]
      BY <2>1, SMTT(30) DEF PassTime, TypeOK, Older
    <3>5. summary' \in SummaryType
      <4>1. summary \in SummaryType
        BY DEF TypeOK
      <4>2. summary' = IF summary = NoSummary THEN NoSummary
                       ELSE [summary EXCEPT !.age = Older(@, MinDelay)]
        BY <2>1 DEF PassTime
      <4> QED
        BY <4>1, <4>2 DEF Older, NoSummary, SummaryType
    <3> QED
      BY <2>1, <3>1, <3>2, <3>3, <3>4, <3>5 DEF PassTime, TypeOK
  <2>2. ASSUME NEW a \in Requests, EnqueueAction(a) PROVE TypeOK'
    BY <2>2 DEF EnqueueAction, TypeOK
  <2>3. ASSUME NEW c \in Configs, ReloadConfig(c) PROVE TypeOK'
    BY <2>3 DEF ReloadConfig, TypeOK
  <2>4. CASE Crash
    <3>1. << >> \in Seq(Requests)
      OBVIOUS
    <3> QED
      BY <2>4, <3>1, NoRunType, EmptyValuesType DEF Crash, TypeOK, FreePoints
  <2>5. CASE Restart
    <3>1. lastRun' \in [status : Statuses, age : 0..MinDelay]
      BY <2>5 DEF Restart, MarkInterruptedIfRunning, TypeOK, Statuses
    <3>2. retryQueue' \in SUBSET Items
      BY <2>5 DEF Restart, MarkInterruptedIfRunning, TypeOK, JobType
    <3> QED
      BY <2>5, <3>1, <3>2, EmptyValuesType DEF Restart, MarkInterruptedIfRunning, TypeOK, FreePoints
  <2>6. CASE BeginTick
    BY <2>6, EmptyValuesType DEF BeginTick, TypeOK, FreePoints
  <2>7. CASE WatchdogSetsFailureMode
    BY <2>7 DEF WatchdogSetsFailureMode, TypeOK, Older, FreePoints
  <2>8. CASE DispatchQueued
    <3>1. Head(queue) \in Requests /\ Tail(queue) \in Seq(Requests)
      BY <2>8 DEF DispatchQueued, TypeOK
    <3>2. run' \in RunType /\ pc' \in FreePoints
      BY <2>8, <3>1, NoRunType, ModeOfType, EntryOfType
         DEF DispatchQueued, Dispatch, RunType, Triggers, FreePoints
    <3> QED
      BY <2>8, <3>1, <3>2 DEF DispatchQueued, Dispatch, TypeOK
  <2>9. CASE DispatchScheduled
    <3>1. PICK s \in Scheduled : Dispatch(s[1], s[2])
      BY <2>9 DEF DispatchScheduled
    <3>2. s[1] \in Actions /\ s[2] \in Triggers
      OBVIOUS
    <3>3. run' \in RunType /\ pc' \in FreePoints
      BY <3>1, <3>2, NoRunType, ModeOfType, EntryOfType DEF Dispatch, RunType, FreePoints
    <3> QED
      BY <2>9, <3>1, <3>3 DEF DispatchScheduled, Dispatch, TypeOK
  <2>10. CASE NothingDue
    BY <2>10 DEF NothingDue, TypeOK, FreePoints
  <2>0. Return => /\ pc' \in FreePoints /\ run' \in RunType
                  /\ snap' \in SnapshotType /\ summary' \in SummaryType
    BY NoRunType, EmptyValuesType DEF Return, FreePoints
  <2>11. CASE RunCheck
    BY <2>11, <2>0 DEF RunCheck, TypeOK, FreePoints
  <2>12. CASE BackupNow
    BY <2>12, <2>0 DEF BackupNow, TypeOK
  <2>13. CASE ClearStuckState
    BY <2>13, <2>0, EmptyValuesType DEF ClearStuckState, TypeOK
  <2>14. ASSUME NEW s \in Snapshots, GateInstall(s) PROVE TypeOK'
    BY <2>14, <2>0 DEF GateInstall, TypeOK, FreePoints
  <2>15. CASE BeginRetry
    BY <2>15, <2>0 DEF BeginRetry, TypeOK, FreePoints, RunType
  <2>16. CASE AcquireRunLock
    <3>1. lockAge' \in 0..Stale + 1 \cup {NoLock}
      BY <2>16 DEF AcquireRunLock, TypeOK
    <3> QED
      BY <2>16, <2>0, <3>1 DEF AcquireRunLock, TypeOK, LockedPoints
  <2>17. ASSUME NEW plan \in SUBSET Items, PlanInstall(plan) PROVE TypeOK'
    BY <2>17, StartJobType DEF PlanInstall, StartJob, TypeOK, LockedPoints
  <2>18. CASE DiscoverRaises
    BY <2>18 DEF DiscoverRaises, TypeOK, LockedPoints
  <2>19. ASSUME NEW s \in Snapshots, NEW plan \in SUBSET Items, PlanRetry(s, plan) PROVE TypeOK'
    BY <2>19, StartJobType DEF PlanRetry, StartJob, TypeOK, LockedPoints
  <2>20. CASE PreUpdateBackup
    BY <2>20 DEF PreUpdateBackup, TypeOK, LockedPoints, RunType, JobType
  <2>21. CASE RunPreActions
    <3>1. run' \in RunType
      BY <2>21 DEF RunPreActions, TypeOK, RunType
    <3>2. summary' \in SummaryType
      BY <2>21, EmptyValuesType DEF RunPreActions, TypeOK, SummaryType, Statuses
    <3> QED
      BY <2>21, <3>1, <3>2 DEF RunPreActions, TypeOK, LockedPoints
  <2>22. CASE ExecutorBackup
    BY <2>22 DEF ExecutorBackup, TypeOK, LockedPoints, RunType
  <2>23. ASSUME NEW i \in Items, SimulateUpdate(i) PROVE TypeOK'
    BY <2>23 DEF SimulateUpdate, TypeOK, RunType
  <2>24. ASSUME NEW i \in Items, RequestUpdate(i) PROVE TypeOK'
    BY <2>24 DEF RequestUpdate, TypeOK, LockedPoints, RunType
  <2>25. CASE UpdateEnds
    BY <2>25, ZenonT(30) DEF UpdateEnds, TypeOK, LockedPoints, RunType
  <2>26. CASE ExecutionEnds
    BY <2>26 DEF ExecutionEnds, Outcome, TypeOK, LockedPoints, RunType, SummaryType, Statuses
  <2>27. CASE AttemptRollback
    BY <2>27, EmptyValuesType DEF AttemptRollback, TypeOK, LockedPoints
  <2>28. CASE HandleException
    BY <2>28, SMTT(30) DEF HandleException, TypeOK, LockedPoints, NoSummary, SummaryType, Statuses
  <2>29. CASE FinishJob
    BY <2>29, EmptyValuesType DEF FinishJob, TypeOK, LockedPoints, SummaryType
  <2>30. CASE AccountForRun
    BY <2>30 DEF AccountForRun, TypeOK, LockedPoints, Older
  <2>31. CASE QueueRetry
    BY <2>31 DEF QueueRetry, TypeOK, LockedPoints, SummaryType
  <2>34. CASE NotifyOfRun
    BY <2>34 DEF NotifyOfRun, TypeOK, LockedPoints, SummaryType
  <2>35. CASE NotifyRaises
    BY <2>35, EmptyValuesType DEF NotifyRaises, TypeOK, LockedPoints
  <2>36. CASE StartNotificationRaises
    BY <2>36 DEF StartNotificationRaises, TypeOK, LockedPoints, SummaryType
  <2>32. CASE ReleaseRunLock
    BY <2>32, <2>0 DEF ReleaseRunLock, TypeOK
  <2>33. CASE UNCHANGED vars
    BY <2>33 DEF vars, TypeOK
  <2> QED
    BY <2>1, <2>2, <2>3, <2>4, <2>5, <2>6, <2>7, <2>8, <2>9, <2>10, <2>11, <2>12, <2>13, <2>14,
       <2>15, <2>16, <2>17, <2>18, <2>19, <2>20, <2>21, <2>22, <2>23, <2>24, <2>25, <2>26,
       <2>27, <2>28, <2>29, <2>30, <2>31, <2>32, <2>33, <2>34, <2>35, <2>36
       DEF Next, MainThread, WebThreads, Tick, RunInstall, RetryFailed, Execute, HandleSummary
<1> QED
  BY <1>1, <1>2, PTL DEF Spec

-----------------------------------------------------------------------------
\* Where a tick that dispatches an action leaves the thread.
LEMMA DispatchEntry ==
  ASSUME NEW a \in Actions, NEW trigger \in Triggers, Dispatch(a, trigger)
  PROVE  /\ pc' \in {"check", "gate", "retry", "backup", "clear"}
         /\ pc' = "gate" => run'.mode = "install"
         /\ pc' = "retry" => run'.mode # "install"
         /\ run'.todo = {} /\ run'.current = {} /\ run'.updated = {} /\ run'.failed = {}
         /\ UNCHANGED <<config, holding, snap, summary, disk, history>>
<1>1. NoRun \in RunType /\ NoRun.todo = {} /\ NoRun.current = {}
      /\ NoRun.updated = {} /\ NoRun.failed = {}
  BY NoRunType DEF NoRun
<1> QED
  BY <1>1 DEF Dispatch, RunType, ModeOf, EntryOf, Actions

\* The same of the two dispatching steps of a tick.
LEMMA DispatchesTo ==
  ASSUME TypeOK, DispatchQueued \/ DispatchScheduled
  PROVE  /\ pc = "dequeue"
         /\ pc' \in {"check", "gate", "retry", "backup", "clear"}
         /\ pc' = "gate" => run'.mode = "install"
         /\ pc' = "retry" => run'.mode # "install"
         /\ run'.todo = {} /\ run'.current = {} /\ run'.updated = {} /\ run'.failed = {}
         /\ UNCHANGED <<config, holding, snap, summary, disk, history>>
<1>1. CASE DispatchQueued
  <2>1. Head(queue) \in Actions /\ "manual" \in Triggers
    BY <1>1 DEF DispatchQueued, TypeOK, Triggers
  <2> QED
    BY <1>1, <2>1, DispatchEntry DEF DispatchQueued
<1>2. CASE DispatchScheduled
  <2>1. PICK s \in Scheduled : Dispatch(s[1], s[2])
    BY <1>2 DEF DispatchScheduled
  <2>2. s[1] \in Actions /\ s[2] \in Triggers
    OBVIOUS
  <2> QED
    BY <1>2, <2>1, <2>2, DispatchEntry DEF DispatchScheduled
<1> QED
  BY <1>1, <1>2

-----------------------------------------------------------------------------
(* The run lock *)

\* The lock is given back on every way out of a run, and its file is there
\* while the run lasts.
THEOREM LockIsHeldByRuns == Spec => []LockMatchesRun
<1>1. Init => LockMatchesRun
  BY DEF Init, LockMatchesRun, LockedPoints
<1>2. TypeOK /\ LockMatchesRun /\ [Next]_vars => LockMatchesRun'
  <2> SUFFICES ASSUME TypeOK, LockMatchesRun, [Next]_vars PROVE LockMatchesRun'
    OBVIOUS
  <2> USE DEF memory, accounts, disk, history, LockMatchesRun, LockedPoints
  <2>1. CASE PassTime
    BY <2>1, SMTT(30) DEF PassTime, TypeOK, Older, NoLock
  <2>2. ASSUME NEW a \in Requests, EnqueueAction(a) PROVE LockMatchesRun'
    BY <2>2 DEF EnqueueAction
  <2>3. ASSUME NEW c \in Configs, ReloadConfig(c) PROVE LockMatchesRun'
    BY <2>3 DEF ReloadConfig
  <2>4. CASE Crash
    BY <2>4 DEF Crash
  <2>5. CASE Restart
    BY <2>5 DEF Restart, MarkInterruptedIfRunning
  <2>6. CASE BeginTick
    BY <2>6 DEF BeginTick
  <2>7. CASE WatchdogSetsFailureMode
    BY <2>7 DEF WatchdogSetsFailureMode
  <2>8. CASE DispatchQueued
    BY <2>8, DispatchesTo DEF DispatchQueued
  <2>9. CASE DispatchScheduled
    BY <2>9, DispatchesTo DEF DispatchScheduled
  <2>10. CASE NothingDue
    BY <2>10 DEF NothingDue
  <2>11. CASE RunCheck
    BY <2>11 DEF RunCheck, Return
  <2>12. CASE BackupNow
    BY <2>12 DEF BackupNow, Return
  <2>13. CASE ClearStuckState
    BY <2>13 DEF ClearStuckState, Return
  <2>14. ASSUME NEW s \in Snapshots, GateInstall(s) PROVE LockMatchesRun'
    BY <2>14 DEF GateInstall, Return
  <2>15. CASE BeginRetry
    BY <2>15 DEF BeginRetry, Return
  <2>16. CASE AcquireRunLock
    BY <2>16 DEF AcquireRunLock, Return, NoLock
  <2>17. ASSUME NEW plan \in SUBSET Items, PlanInstall(plan) PROVE LockMatchesRun'
    BY <2>17 DEF PlanInstall, StartJob
  <2>18. CASE DiscoverRaises
    BY <2>18 DEF DiscoverRaises
  <2>19. ASSUME NEW s \in Snapshots, NEW plan \in SUBSET Items, PlanRetry(s, plan) PROVE LockMatchesRun'
    BY <2>19 DEF PlanRetry, StartJob
  <2>20. CASE PreUpdateBackup
    BY <2>20 DEF PreUpdateBackup
  <2>21. CASE RunPreActions
    BY <2>21 DEF RunPreActions
  <2>22. CASE ExecutorBackup
    BY <2>22 DEF ExecutorBackup
  <2>23. ASSUME NEW i \in Items, SimulateUpdate(i) PROVE LockMatchesRun'
    BY <2>23 DEF SimulateUpdate
  <2>24. ASSUME NEW i \in Items, RequestUpdate(i) PROVE LockMatchesRun'
    BY <2>24 DEF RequestUpdate
  <2>25. CASE UpdateEnds
    BY <2>25 DEF UpdateEnds
  <2>26. CASE ExecutionEnds
    BY <2>26 DEF ExecutionEnds, Outcome
  <2>27. CASE AttemptRollback
    BY <2>27 DEF AttemptRollback
  <2>28. CASE HandleException
    BY <2>28 DEF HandleException
  <2>29. CASE FinishJob
    BY <2>29 DEF FinishJob
  <2>30. CASE AccountForRun
    BY <2>30 DEF AccountForRun
  <2>31. CASE QueueRetry
    BY <2>31 DEF QueueRetry
  <2>34. CASE NotifyOfRun
    BY <2>34 DEF NotifyOfRun
  <2>35. CASE NotifyRaises
    BY <2>35 DEF NotifyRaises, NoSummary, TypeOK
  <2>36. CASE StartNotificationRaises
    BY <2>36 DEF StartNotificationRaises
  <2>32. CASE ReleaseRunLock
    BY <2>32 DEF ReleaseRunLock, Return
  <2>33. CASE UNCHANGED vars
    BY <2>33 DEF vars
  <2> QED
    BY <2>1, <2>2, <2>3, <2>4, <2>5, <2>6, <2>7, <2>8, <2>9, <2>10, <2>11, <2>12, <2>13, <2>14, <2>15, <2>16, <2>17, <2>18, <2>19, <2>20, <2>21, <2>22, <2>23, <2>24, <2>25, <2>26, <2>27, <2>28, <2>29, <2>30, <2>31, <2>32, <2>33, <2>34, <2>35, <2>36
       DEF Next, MainThread, WebThreads, Tick, RunInstall, RetryFailed, Execute, HandleSummary
<1> QED
  BY <1>1, <1>2, TypeCorrect, PTL DEF Spec

-----------------------------------------------------------------------------
(* The job on disk and the run in memory *)

\* What the run in memory is before it has a job: no results yet, and of the
\* kind that the point it has reached belongs to.
RunShape ==
  /\ pc \in {"gate", "plan_install"} => run.mode = "install"
  /\ pc \in {"retry", "plan_retry"} => run.mode # "install"
  /\ pc \in {"check", "gate", "retry", "acquire", "plan_install", "plan_retry"} =>
       run.current = {} /\ run.updated = {} /\ run.failed = {}

JobInv == RunShape /\ JobMatchesRun /\ InstallJobEnds

\* The summary exists from the end of the execution on, and it is not older than
\* the last start of an install.
SummaryInv ==
  /\ pc \in {"rollback", "finish"} => summary.status # "none"
  /\ pc \notin {"rollback", "finish", "account", "queue_retry", "notify", "release"} => summary = NoSummary
  /\ summary.age <= startAge

\* Past the gate nothing the gate looked at can turn against the run, because
\* only this thread sets the cooldown, safe mode and last_run.
GateInv ==
  run.mode = "install" /\ pc \in {"acquire", "plan_install"} =>
    GateHeld /\ (lastRun.status = "none" \/ lastRun.age = MinDelay)

\* A recent install is either still on record as a job (running, or cut off by
\* a crash), or it has been entered as the last run since.
SpacingInv ==
  startAge < MinDelay =>
    \/ job.mode = "install"
    \/ lastRun.status # "none" /\ lastRun.age <= startAge

\* Which runs reach the updates without a backup.
BackupInv ==
  /\ pc \in {"update", "wait"} /\ run.cfg.createBackup =>
       run.backup \/ run.cfg.install = "dry_run"
  /\ pc = "wait" => run.cfg.install = "live"

\* The configurations under which the last theorem holds.
NoWatchdog == \A c \in Configs : ~c.watchdog

\* Without the watchdog only enough failures start safe mode, and only a run
\* that did not fail resets their number.
SafeModeInv == pc # "watchdog" /\ (safeMode > 0 => failureCount >= Threshold)

\* Both statements about the job, with the shape of the runs they rest on, are
\* inductive.
LEMMA JobIsAccurate == Spec => []JobInv
<1>1. Init => JobInv
  BY DEF Init, JobInv, RunShape, JobMatchesRun, InstallJobEnds, JobPoints, NoRun, NoJob
<1>2. TypeOK /\ JobInv /\ [Next]_vars => JobInv'
  <2> SUFFICES ASSUME TypeOK, JobInv, [Next]_vars PROVE JobInv'
    OBVIOUS
  <2> USE DEF memory, accounts, disk, history, JobInv, RunShape, JobMatchesRun, InstallJobEnds, JobPoints
  <2>1. CASE PassTime
    BY <2>1 DEF PassTime, TypeOK, JobType
  <2>2. ASSUME NEW a \in Requests, EnqueueAction(a) PROVE JobInv'
    BY <2>2 DEF EnqueueAction
  <2>3. ASSUME NEW c \in Configs, ReloadConfig(c) PROVE JobInv'
    BY <2>3 DEF ReloadConfig
  <2>4. CASE Crash
    BY <2>4 DEF Crash, NoRun
  <2>5. CASE Restart
    BY <2>5 DEF Restart, MarkInterruptedIfRunning, NoJob, TypeOK, JobType
  <2>6. CASE BeginTick
    BY <2>6 DEF BeginTick, NoJob
  <2>7. CASE WatchdogSetsFailureMode
    BY <2>7 DEF WatchdogSetsFailureMode
  <2>8. CASE DispatchQueued
    BY <2>8, DispatchesTo DEF DispatchQueued
  <2>9. CASE DispatchScheduled
    BY <2>9, DispatchesTo DEF DispatchScheduled
  <2>10. CASE NothingDue
    BY <2>10 DEF NothingDue
  <2>11. CASE RunCheck
    BY <2>11 DEF RunCheck, Return
  <2>12. CASE BackupNow
    BY <2>12 DEF BackupNow, Return
  <2>13. CASE ClearStuckState
    BY <2>13 DEF ClearStuckState, Return, NoJob
  <2>14. ASSUME NEW s \in Snapshots, GateInstall(s) PROVE JobInv'
    BY <2>14 DEF GateInstall, Return
  <2>15. CASE BeginRetry
    BY <2>15 DEF BeginRetry, Return, TypeOK, RunType
  <2>16. CASE AcquireRunLock
    BY <2>16 DEF AcquireRunLock, Return
  <2>17. ASSUME NEW plan \in SUBSET Items, PlanInstall(plan) PROVE JobInv'
    BY <2>17, SMTT(30) DEF PlanInstall, StartJob, TypeOK, RunType
  <2>18. CASE DiscoverRaises
    BY <2>18 DEF DiscoverRaises
  <2>19. ASSUME NEW s \in Snapshots, NEW plan \in SUBSET Items, PlanRetry(s, plan) PROVE JobInv'
    BY <2>19 DEF PlanRetry, StartJob, TypeOK, RunType
  <2>20. CASE PreUpdateBackup
    BY <2>20, ZenonT(30) DEF PreUpdateBackup, TypeOK, RunType, JobType
  <2>21. CASE RunPreActions
    BY <2>21 DEF RunPreActions, TypeOK, RunType
  <2>22. CASE ExecutorBackup
    BY <2>22 DEF ExecutorBackup, TypeOK, RunType
  <2>23. ASSUME NEW i \in Items, SimulateUpdate(i) PROVE JobInv'
    BY <2>23 DEF SimulateUpdate, TypeOK, RunType
  <2>24. ASSUME NEW i \in Items, RequestUpdate(i) PROVE JobInv'
    BY <2>24 DEF RequestUpdate, TypeOK, RunType
  <2>25. CASE UpdateEnds
    BY <2>25, ZenonT(30) DEF UpdateEnds, TypeOK, RunType
  <2>26. CASE ExecutionEnds
    BY <2>26 DEF ExecutionEnds, Outcome
  <2>27. CASE AttemptRollback
    BY <2>27 DEF AttemptRollback
  <2>28. CASE HandleException
    BY <2>28 DEF HandleException
  <2>29. CASE FinishJob
    BY <2>29 DEF FinishJob, NoJob
  <2>30. CASE AccountForRun
    BY <2>30 DEF AccountForRun
  <2>31. CASE QueueRetry
    BY <2>31 DEF QueueRetry
  <2>34. CASE NotifyOfRun
    BY <2>34 DEF NotifyOfRun
  <2>35. CASE NotifyRaises
    BY <2>35 DEF NotifyRaises, NoSummary, TypeOK
  <2>36. CASE StartNotificationRaises
    BY <2>36 DEF StartNotificationRaises
  <2>32. CASE ReleaseRunLock
    BY <2>32 DEF ReleaseRunLock, Return
  <2>33. CASE UNCHANGED vars
    BY <2>33 DEF vars
  <2> QED
    BY <2>1, <2>2, <2>3, <2>4, <2>5, <2>6, <2>7, <2>8, <2>9, <2>10, <2>11, <2>12, <2>13, <2>14, <2>15, <2>16, <2>17, <2>18, <2>19, <2>20, <2>21, <2>22, <2>23, <2>24, <2>25, <2>26, <2>27, <2>28, <2>29, <2>30, <2>31, <2>32, <2>33, <2>34, <2>35, <2>36
       DEF Next, MainThread, WebThreads, Tick, RunInstall, RetryFailed, Execute, HandleSummary
<1> QED
  BY <1>1, <1>2, TypeCorrect, PTL DEF Spec

\* What the running_job in state.json says is what the run in memory is doing.
THEOREM JobIsTrue == Spec => []JobMatchesRun
BY JobIsAccurate, PTL DEF JobInv

\* An install never leaves its job behind in a process that goes on running.
THEOREM InstallJobsEnd == Spec => []InstallJobEnds
BY JobIsAccurate, PTL DEF JobInv

\* The age of a summary and the points at which there is one.
LEMMA SummaryIsRecent == Spec => []SummaryInv
<1>1. Init => SummaryInv
  BY DEF Init, SummaryInv, NoSummary
<1>2. TypeOK /\ SummaryInv /\ [Next]_vars => SummaryInv'
  <2> SUFFICES ASSUME TypeOK, SummaryInv, [Next]_vars PROVE SummaryInv'
    OBVIOUS
  <2> USE DEF memory, accounts, disk, history, SummaryInv
  <2>1. CASE PassTime
    BY <2>1, SMTT(30) DEF PassTime, TypeOK, SummaryType, Older, NoSummary
  <2>2. ASSUME NEW a \in Requests, EnqueueAction(a) PROVE SummaryInv'
    BY <2>2 DEF EnqueueAction
  <2>3. ASSUME NEW c \in Configs, ReloadConfig(c) PROVE SummaryInv'
    BY <2>3 DEF ReloadConfig
  <2>4. CASE Crash
    BY <2>4 DEF Crash, NoSummary, TypeOK
  <2>5. CASE Restart
    BY <2>5 DEF Restart, MarkInterruptedIfRunning
  <2>6. CASE BeginTick
    BY <2>6 DEF BeginTick
  <2>7. CASE WatchdogSetsFailureMode
    BY <2>7 DEF WatchdogSetsFailureMode
  <2>8. CASE DispatchQueued
    BY <2>8, DispatchesTo DEF DispatchQueued
  <2>9. CASE DispatchScheduled
    BY <2>9, DispatchesTo DEF DispatchScheduled
  <2>10. CASE NothingDue
    BY <2>10 DEF NothingDue
  <2>11. CASE RunCheck
    BY <2>11 DEF RunCheck, Return
  <2>12. CASE BackupNow
    BY <2>12 DEF BackupNow, Return
  <2>13. CASE ClearStuckState
    BY <2>13 DEF ClearStuckState, Return
  <2>14. ASSUME NEW s \in Snapshots, GateInstall(s) PROVE SummaryInv'
    BY <2>14 DEF GateInstall, Return
  <2>15. CASE BeginRetry
    BY <2>15 DEF BeginRetry, Return
  <2>16. CASE AcquireRunLock
    BY <2>16 DEF AcquireRunLock, Return
  <2>17. ASSUME NEW plan \in SUBSET Items, PlanInstall(plan) PROVE SummaryInv'
    BY <2>17 DEF PlanInstall, StartJob, NoSummary, Return
  <2>18. CASE DiscoverRaises
    BY <2>18 DEF DiscoverRaises
  <2>19. ASSUME NEW s \in Snapshots, NEW plan \in SUBSET Items, PlanRetry(s, plan) PROVE SummaryInv'
    BY <2>19 DEF PlanRetry, StartJob
  <2>20. CASE PreUpdateBackup
    BY <2>20 DEF PreUpdateBackup
  <2>21. CASE RunPreActions
    <3>1. /\ [NoSummary EXCEPT !.status = "skipped"].status = "skipped"
          /\ [NoSummary EXCEPT !.status = "skipped"].age = 0
      BY DEF NoSummary
    <3>2. startAge >= 0
      BY DEF TypeOK
    <3> QED
      BY <2>21, <3>1, <3>2 DEF RunPreActions
  <2>22. CASE ExecutorBackup
    BY <2>22 DEF ExecutorBackup
  <2>23. ASSUME NEW i \in Items, SimulateUpdate(i) PROVE SummaryInv'
    BY <2>23 DEF SimulateUpdate
  <2>24. ASSUME NEW i \in Items, RequestUpdate(i) PROVE SummaryInv'
    BY <2>24 DEF RequestUpdate
  <2>25. CASE UpdateEnds
    BY <2>25 DEF UpdateEnds
  <2>26. CASE ExecutionEnds
    BY <2>26 DEF ExecutionEnds, Outcome, TypeOK
  <2>27. CASE AttemptRollback
    BY <2>27 DEF AttemptRollback, NoSummary, TypeOK
  <2>28. CASE HandleException
    BY <2>28 DEF HandleException, NoSummary, TypeOK
  <2>29. CASE FinishJob
    BY <2>29 DEF FinishJob
  <2>30. CASE AccountForRun
    BY <2>30 DEF AccountForRun
  <2>31. CASE QueueRetry
    BY <2>31 DEF QueueRetry
  <2>34. CASE NotifyOfRun
    BY <2>34 DEF NotifyOfRun
  <2>35. CASE NotifyRaises
    BY <2>35 DEF NotifyRaises, NoSummary, TypeOK
  <2>36. CASE StartNotificationRaises
    BY <2>36 DEF StartNotificationRaises
  <2>32. CASE ReleaseRunLock
    BY <2>32 DEF ReleaseRunLock, Return, NoSummary, TypeOK
  <2>33. CASE UNCHANGED vars
    BY <2>33 DEF vars
  <2> QED
    BY <2>1, <2>2, <2>3, <2>4, <2>5, <2>6, <2>7, <2>8, <2>9, <2>10, <2>11, <2>12, <2>13, <2>14, <2>15, <2>16, <2>17, <2>18, <2>19, <2>20, <2>21, <2>22, <2>23, <2>24, <2>25, <2>26, <2>27, <2>28, <2>29, <2>30, <2>31, <2>32, <2>33, <2>34, <2>35, <2>36
       DEF Next, MainThread, WebThreads, Tick, RunInstall, RetryFailed, Execute, HandleSummary
<1> QED
  BY <1>1, <1>2, TypeCorrect, PTL DEF Spec

\* What the gate established holds until the install has its job.
LEMMA GateStaysOpen == Spec => []GateInv
<1>1. Init => GateInv
  BY DEF Init, GateInv, GateHeld, Allowed
<1>2. TypeOK /\ JobInv /\ GateInv /\ [Next]_vars => GateInv'
  <2> SUFFICES ASSUME TypeOK, JobInv, GateInv, [Next]_vars PROVE GateInv'
    OBVIOUS
  <2> USE DEF memory, accounts, disk, history, GateInv, GateHeld, Allowed
  <2>1. CASE PassTime
    BY <2>1 DEF PassTime, TypeOK, Older, Closer
  <2>2. ASSUME NEW a \in Requests, EnqueueAction(a) PROVE GateInv'
    BY <2>2 DEF EnqueueAction
  <2>3. ASSUME NEW c \in Configs, ReloadConfig(c) PROVE GateInv'
    BY <2>3 DEF ReloadConfig
  <2>4. CASE Crash
    BY <2>4 DEF Crash
  <2>5. CASE Restart
    BY <2>5 DEF Restart, MarkInterruptedIfRunning, NoRun
  <2>6. CASE BeginTick
    BY <2>6 DEF BeginTick
  <2>7. CASE WatchdogSetsFailureMode
    BY <2>7 DEF WatchdogSetsFailureMode
  <2>8. CASE DispatchQueued
    BY <2>8, DispatchesTo DEF DispatchQueued
  <2>9. CASE DispatchScheduled
    BY <2>9, DispatchesTo DEF DispatchScheduled
  <2>10. CASE NothingDue
    BY <2>10 DEF NothingDue
  <2>11. CASE RunCheck
    BY <2>11 DEF RunCheck, Return
  <2>12. CASE BackupNow
    BY <2>12 DEF BackupNow, Return
  <2>13. CASE ClearStuckState
    BY <2>13 DEF ClearStuckState, Return
  <2>14. ASSUME NEW s \in Snapshots, GateInstall(s) PROVE GateInv'
    BY <2>14 DEF GateInstall, Return, BlockedByRuntimeState, Allowed, TypeOK
  <2>15. CASE BeginRetry
    BY <2>15 DEF BeginRetry, Return, TypeOK, RunType, RunShape, JobInv
  <2>16. CASE AcquireRunLock
    BY <2>16 DEF AcquireRunLock, Return
  <2>17. ASSUME NEW plan \in SUBSET Items, PlanInstall(plan) PROVE GateInv'
    BY <2>17 DEF PlanInstall, StartJob
  <2>18. CASE DiscoverRaises
    BY <2>18 DEF DiscoverRaises
  <2>19. ASSUME NEW s \in Snapshots, NEW plan \in SUBSET Items, PlanRetry(s, plan) PROVE GateInv'
    BY <2>19 DEF PlanRetry, StartJob
  <2>20. CASE PreUpdateBackup
    BY <2>20 DEF PreUpdateBackup
  <2>21. CASE RunPreActions
    BY <2>21 DEF RunPreActions
  <2>22. CASE ExecutorBackup
    BY <2>22 DEF ExecutorBackup
  <2>23. ASSUME NEW i \in Items, SimulateUpdate(i) PROVE GateInv'
    BY <2>23 DEF SimulateUpdate
  <2>24. ASSUME NEW i \in Items, RequestUpdate(i) PROVE GateInv'
    BY <2>24 DEF RequestUpdate
  <2>25. CASE UpdateEnds
    BY <2>25 DEF UpdateEnds
  <2>26. CASE ExecutionEnds
    BY <2>26 DEF ExecutionEnds, Outcome
  <2>27. CASE AttemptRollback
    BY <2>27 DEF AttemptRollback
  <2>28. CASE HandleException
    BY <2>28 DEF HandleException
  <2>29. CASE FinishJob
    BY <2>29 DEF FinishJob
  <2>30. CASE AccountForRun
    BY <2>30 DEF AccountForRun
  <2>31. CASE QueueRetry
    BY <2>31 DEF QueueRetry
  <2>34. CASE NotifyOfRun
    BY <2>34 DEF NotifyOfRun
  <2>35. CASE NotifyRaises
    BY <2>35 DEF NotifyRaises, NoSummary, TypeOK
  <2>36. CASE StartNotificationRaises
    BY <2>36 DEF StartNotificationRaises
  <2>32. CASE ReleaseRunLock
    BY <2>32 DEF ReleaseRunLock, Return
  <2>33. CASE UNCHANGED vars
    BY <2>33 DEF vars
  <2> QED
    BY <2>1, <2>2, <2>3, <2>4, <2>5, <2>6, <2>7, <2>8, <2>9, <2>10, <2>11, <2>12, <2>13, <2>14, <2>15, <2>16, <2>17, <2>18, <2>19, <2>20, <2>21, <2>22, <2>23, <2>24, <2>25, <2>26, <2>27, <2>28, <2>29, <2>30, <2>31, <2>32, <2>33, <2>34, <2>35, <2>36
       DEF Next, MainThread, WebThreads, Tick, RunInstall, RetryFailed, Execute, HandleSummary
<1> QED
  BY <1>1, <1>2, TypeCorrect, JobIsAccurate, PTL DEF Spec

\* Every recent start of an install is on record.
LEMMA StartsAreRecorded == Spec => []SpacingInv
<1>1. Init => SpacingInv
  BY DEF Init, SpacingInv
<1>2. TypeOK /\ JobInv /\ SummaryInv /\ SpacingInv /\ [Next]_vars => SpacingInv'
  <2> SUFFICES ASSUME TypeOK, JobInv, SummaryInv, SpacingInv, [Next]_vars PROVE SpacingInv'
    OBVIOUS
  <2> USE DEF memory, accounts, disk, history, SpacingInv
  <2>1. CASE PassTime
    BY <2>1 DEF PassTime, TypeOK, JobType, Older
  <2>2. ASSUME NEW a \in Requests, EnqueueAction(a) PROVE SpacingInv'
    BY <2>2 DEF EnqueueAction
  <2>3. ASSUME NEW c \in Configs, ReloadConfig(c) PROVE SpacingInv'
    BY <2>3 DEF ReloadConfig
  <2>4. CASE Crash
    BY <2>4 DEF Crash
  <2>5. CASE Restart
    BY <2>5 DEF Restart, MarkInterruptedIfRunning, TypeOK, NoJob
  <2>6. CASE BeginTick
    BY <2>6 DEF BeginTick, JobInv, InstallJobEnds, JobPoints
  <2>7. CASE WatchdogSetsFailureMode
    BY <2>7 DEF WatchdogSetsFailureMode
  <2>8. CASE DispatchQueued
    BY <2>8, DispatchesTo DEF DispatchQueued
  <2>9. CASE DispatchScheduled
    BY <2>9, DispatchesTo DEF DispatchScheduled
  <2>10. CASE NothingDue
    BY <2>10 DEF NothingDue
  <2>11. CASE RunCheck
    BY <2>11 DEF RunCheck, Return
  <2>12. CASE BackupNow
    BY <2>12 DEF BackupNow, Return
  <2>13. CASE ClearStuckState
    BY <2>13 DEF ClearStuckState, Return, JobInv, InstallJobEnds, JobPoints
  <2>14. ASSUME NEW s \in Snapshots, GateInstall(s) PROVE SpacingInv'
    BY <2>14 DEF GateInstall, Return
  <2>15. CASE BeginRetry
    BY <2>15 DEF BeginRetry, Return
  <2>16. CASE AcquireRunLock
    BY <2>16 DEF AcquireRunLock, Return
  <2>17. ASSUME NEW plan \in SUBSET Items, PlanInstall(plan) PROVE SpacingInv'
    BY <2>17 DEF PlanInstall, StartJob, JobInv, RunShape
  <2>18. CASE DiscoverRaises
    BY <2>18 DEF DiscoverRaises
  <2>19. ASSUME NEW s \in Snapshots, NEW plan \in SUBSET Items, PlanRetry(s, plan) PROVE SpacingInv'
    BY <2>19 DEF PlanRetry, StartJob, JobInv, InstallJobEnds, JobPoints
  <2>20. CASE PreUpdateBackup
    BY <2>20 DEF PreUpdateBackup, TypeOK, JobType
  <2>21. CASE RunPreActions
    BY <2>21 DEF RunPreActions
  <2>22. CASE ExecutorBackup
    BY <2>22 DEF ExecutorBackup
  <2>23. ASSUME NEW i \in Items, SimulateUpdate(i) PROVE SpacingInv'
    BY <2>23 DEF SimulateUpdate
  <2>24. ASSUME NEW i \in Items, RequestUpdate(i) PROVE SpacingInv'
    BY <2>24 DEF RequestUpdate
  <2>25. CASE UpdateEnds
    BY <2>25 DEF UpdateEnds
  <2>26. CASE ExecutionEnds
    BY <2>26 DEF ExecutionEnds, Outcome
  <2>27. CASE AttemptRollback
    BY <2>27 DEF AttemptRollback
  <2>28. CASE HandleException
    BY <2>28 DEF HandleException
  <2>29. CASE FinishJob
    BY <2>29 DEF FinishJob, SummaryInv
  <2>30. CASE AccountForRun
    BY <2>30 DEF AccountForRun
  <2>31. CASE QueueRetry
    BY <2>31 DEF QueueRetry
  <2>34. CASE NotifyOfRun
    BY <2>34 DEF NotifyOfRun
  <2>35. CASE NotifyRaises
    BY <2>35 DEF NotifyRaises, NoSummary, TypeOK
  <2>36. CASE StartNotificationRaises
    BY <2>36 DEF StartNotificationRaises
  <2>32. CASE ReleaseRunLock
    BY <2>32 DEF ReleaseRunLock, Return
  <2>33. CASE UNCHANGED vars
    BY <2>33 DEF vars
  <2> QED
    BY <2>1, <2>2, <2>3, <2>4, <2>5, <2>6, <2>7, <2>8, <2>9, <2>10, <2>11, <2>12, <2>13, <2>14, <2>15, <2>16, <2>17, <2>18, <2>19, <2>20, <2>21, <2>22, <2>23, <2>24, <2>25, <2>26, <2>27, <2>28, <2>29, <2>30, <2>31, <2>32, <2>33, <2>34, <2>35, <2>36
       DEF Next, MainThread, WebThreads, Tick, RunInstall, RetryFailed, Execute, HandleSummary
<1> QED
  BY <1>1, <1>2, TypeCorrect, JobIsAccurate, SummaryIsRecent, PTL DEF Spec

\* Two installs start at least min_minutes_between_runs apart.
THEOREM InstallsStayApart == Spec => InstallsAreSpaced
<1>1. ASSUME TypeOK, JobInv, GateInv, SpacingInv, InstallStarts, [Next]_vars
      PROVE  startAge = MinDelay
  <2>1. run.mode = "install" /\ job.mode # "install"
    BY <1>1 DEF InstallStarts, JobInv, RunShape, InstallJobEnds, JobPoints
  <2>2. lastRun.status = "none" \/ lastRun.age = MinDelay
    BY <1>1, <2>1 DEF InstallStarts, GateInv
  <2>3. ~(startAge < MinDelay)
    BY <1>1, <2>1, <2>2 DEF SpacingInv, TypeOK
  <2> QED
    BY <1>1, <2>3 DEF TypeOK
<1>2. TypeOK /\ JobInv /\ GateInv /\ SpacingInv /\ [Next]_vars
        => [InstallStarts => startAge = MinDelay]_vars
  BY <1>1
<1> QED
  BY <1>2, TypeCorrect, JobIsAccurate, GateStaysOpen, StartsAreRecorded, PTL
     DEF Spec, InstallsAreSpaced

\* No install starts in a cooldown, in safe mode, or against the rules.
THEOREM GateIsRespected == Spec => InstallIsGated
<1>1. JobInv /\ GateInv => [InstallStarts => GateHeld]_vars
  BY DEF JobInv, RunShape, GateInv, InstallStarts
<1> QED
  BY <1>1, JobIsAccurate, GateStaysOpen, PTL DEF Spec, InstallIsGated

-----------------------------------------------------------------------------
(* Backups *)

\* Which runs may reach the updates without a backup.
LEMMA BackupIsDecided == Spec => []BackupInv
<1>1. Init => BackupInv
  BY DEF Init, BackupInv
<1>2. TypeOK /\ BackupInv /\ [Next]_vars => BackupInv'
  <2> SUFFICES ASSUME TypeOK, BackupInv, [Next]_vars PROVE BackupInv'
    OBVIOUS
  <2> USE DEF memory, accounts, disk, history, BackupInv
  <2>1. CASE PassTime
    BY <2>1 DEF PassTime
  <2>2. ASSUME NEW a \in Requests, EnqueueAction(a) PROVE BackupInv'
    BY <2>2 DEF EnqueueAction
  <2>3. ASSUME NEW c \in Configs, ReloadConfig(c) PROVE BackupInv'
    BY <2>3 DEF ReloadConfig
  <2>4. CASE Crash
    BY <2>4 DEF Crash
  <2>5. CASE Restart
    BY <2>5 DEF Restart, MarkInterruptedIfRunning
  <2>6. CASE BeginTick
    BY <2>6 DEF BeginTick
  <2>7. CASE WatchdogSetsFailureMode
    BY <2>7 DEF WatchdogSetsFailureMode
  <2>8. CASE DispatchQueued
    BY <2>8, DispatchesTo DEF DispatchQueued
  <2>9. CASE DispatchScheduled
    BY <2>9, DispatchesTo DEF DispatchScheduled
  <2>10. CASE NothingDue
    BY <2>10 DEF NothingDue
  <2>11. CASE RunCheck
    BY <2>11 DEF RunCheck, Return
  <2>12. CASE BackupNow
    BY <2>12 DEF BackupNow, Return
  <2>13. CASE ClearStuckState
    BY <2>13 DEF ClearStuckState, Return
  <2>14. ASSUME NEW s \in Snapshots, GateInstall(s) PROVE BackupInv'
    BY <2>14 DEF GateInstall, Return
  <2>15. CASE BeginRetry
    BY <2>15 DEF BeginRetry, Return
  <2>16. CASE AcquireRunLock
    BY <2>16 DEF AcquireRunLock, Return
  <2>17. ASSUME NEW plan \in SUBSET Items, PlanInstall(plan) PROVE BackupInv'
    BY <2>17 DEF PlanInstall, StartJob
  <2>18. CASE DiscoverRaises
    BY <2>18 DEF DiscoverRaises
  <2>19. ASSUME NEW s \in Snapshots, NEW plan \in SUBSET Items, PlanRetry(s, plan) PROVE BackupInv'
    BY <2>19 DEF PlanRetry, StartJob
  <2>20. CASE PreUpdateBackup
    BY <2>20 DEF PreUpdateBackup, TypeOK, RunType
  <2>21. CASE RunPreActions
    BY <2>21 DEF RunPreActions, TypeOK, RunType
  <2>22. CASE ExecutorBackup
    BY <2>22 DEF ExecutorBackup, TypeOK, RunType
  <2>23. ASSUME NEW i \in Items, SimulateUpdate(i) PROVE BackupInv'
    BY <2>23 DEF SimulateUpdate, TypeOK, RunType
  <2>24. ASSUME NEW i \in Items, RequestUpdate(i) PROVE BackupInv'
    BY <2>24 DEF RequestUpdate, TypeOK, RunType
  <2>25. CASE UpdateEnds
    BY <2>25 DEF UpdateEnds, TypeOK, RunType
  <2>26. CASE ExecutionEnds
    BY <2>26 DEF ExecutionEnds, Outcome
  <2>27. CASE AttemptRollback
    BY <2>27 DEF AttemptRollback
  <2>28. CASE HandleException
    BY <2>28 DEF HandleException
  <2>29. CASE FinishJob
    BY <2>29 DEF FinishJob
  <2>30. CASE AccountForRun
    BY <2>30 DEF AccountForRun
  <2>31. CASE QueueRetry
    BY <2>31 DEF QueueRetry
  <2>34. CASE NotifyOfRun
    BY <2>34 DEF NotifyOfRun
  <2>35. CASE NotifyRaises
    BY <2>35 DEF NotifyRaises, NoSummary, TypeOK
  <2>36. CASE StartNotificationRaises
    BY <2>36 DEF StartNotificationRaises
  <2>32. CASE ReleaseRunLock
    BY <2>32 DEF ReleaseRunLock, Return
  <2>33. CASE UNCHANGED vars
    BY <2>33 DEF vars
  <2> QED
    BY <2>1, <2>2, <2>3, <2>4, <2>5, <2>6, <2>7, <2>8, <2>9, <2>10, <2>11, <2>12, <2>13, <2>14, <2>15, <2>16, <2>17, <2>18, <2>19, <2>20, <2>21, <2>22, <2>23, <2>24, <2>25, <2>26, <2>27, <2>28, <2>29, <2>30, <2>31, <2>32, <2>33, <2>34, <2>35, <2>36
       DEF Next, MainThread, WebThreads, Tick, RunInstall, RetryFailed, Execute, HandleSummary
<1> QED
  BY <1>1, <1>2, TypeCorrect, PTL DEF Spec

\* An executor configured to back up sends no update request without a backup,
\* whatever is imported meanwhile.
THEOREM BackupsComeFirst == Spec => []BackupBeforeRequest
<1>1. BackupInv => BackupBeforeRequest
  BY DEF BackupInv, BackupBeforeRequest
<1> QED
  BY <1>1, BackupIsDecided, PTL

-----------------------------------------------------------------------------
(* Failures *)

\* Every step keeps SafeModeInv when the watchdog is off.
LEMMA SafeModeFollowsFailures ==
  ASSUME NoWatchdog
  PROVE  Spec => []SafeModeInv
<1>1. Init => SafeModeInv
  BY DEF Init, SafeModeInv
<1>2. TypeOK /\ SafeModeInv /\ [Next]_vars => SafeModeInv'
  <2> SUFFICES ASSUME TypeOK, SafeModeInv, [Next]_vars PROVE SafeModeInv'
    OBVIOUS
  <2> USE DEF memory, accounts, disk, history, SafeModeInv
  <2>1. CASE PassTime
    BY <2>1 DEF PassTime, Closer, TypeOK
  <2>2. ASSUME NEW a \in Requests, EnqueueAction(a) PROVE SafeModeInv'
    BY <2>2 DEF EnqueueAction
  <2>3. ASSUME NEW c \in Configs, ReloadConfig(c) PROVE SafeModeInv'
    BY <2>3 DEF ReloadConfig
  <2>4. CASE Crash
    BY <2>4 DEF Crash
  <2>5. CASE Restart
    BY <2>5 DEF Restart, MarkInterruptedIfRunning
  <2>6. CASE BeginTick
    BY <2>6, NoWatchdog DEF BeginTick, WatchdogFires, NoWatchdog, TypeOK
  <2>7. CASE WatchdogSetsFailureMode
    BY <2>7 DEF WatchdogSetsFailureMode
  <2>8. CASE DispatchQueued
    BY <2>8, DispatchesTo DEF DispatchQueued
  <2>9. CASE DispatchScheduled
    BY <2>9, DispatchesTo DEF DispatchScheduled
  <2>10. CASE NothingDue
    BY <2>10 DEF NothingDue
  <2>11. CASE RunCheck
    BY <2>11 DEF RunCheck, Return
  <2>12. CASE BackupNow
    BY <2>12 DEF BackupNow, Return
  <2>13. CASE ClearStuckState
    BY <2>13 DEF ClearStuckState, Return
  <2>14. ASSUME NEW s \in Snapshots, GateInstall(s) PROVE SafeModeInv'
    BY <2>14 DEF GateInstall, Return
  <2>15. CASE BeginRetry
    BY <2>15 DEF BeginRetry, Return
  <2>16. CASE AcquireRunLock
    BY <2>16 DEF AcquireRunLock, Return
  <2>17. ASSUME NEW plan \in SUBSET Items, PlanInstall(plan) PROVE SafeModeInv'
    BY <2>17 DEF PlanInstall, StartJob
  <2>18. CASE DiscoverRaises
    BY <2>18 DEF DiscoverRaises
  <2>19. ASSUME NEW s \in Snapshots, NEW plan \in SUBSET Items, PlanRetry(s, plan) PROVE SafeModeInv'
    BY <2>19 DEF PlanRetry, StartJob
  <2>20. CASE PreUpdateBackup
    BY <2>20 DEF PreUpdateBackup, TypeOK, RunType
  <2>21. CASE RunPreActions
    BY <2>21 DEF RunPreActions, TypeOK, RunType
  <2>22. CASE ExecutorBackup
    BY <2>22 DEF ExecutorBackup, TypeOK, RunType
  <2>23. ASSUME NEW i \in Items, SimulateUpdate(i) PROVE SafeModeInv'
    BY <2>23 DEF SimulateUpdate, TypeOK, RunType
  <2>24. ASSUME NEW i \in Items, RequestUpdate(i) PROVE SafeModeInv'
    BY <2>24 DEF RequestUpdate, TypeOK, RunType
  <2>25. CASE UpdateEnds
    BY <2>25 DEF UpdateEnds, TypeOK, RunType
  <2>26. CASE ExecutionEnds
    BY <2>26 DEF ExecutionEnds, Outcome
  <2>27. CASE AttemptRollback
    BY <2>27 DEF AttemptRollback
  <2>28. CASE HandleException
    BY <2>28 DEF HandleException
  <2>29. CASE FinishJob
    BY <2>29 DEF FinishJob
  <2>30. CASE AccountForRun
    BY <2>30 DEF AccountForRun, TypeOK
  <2>31. CASE QueueRetry
    BY <2>31 DEF QueueRetry
  <2>34. CASE NotifyOfRun
    BY <2>34 DEF NotifyOfRun
  <2>35. CASE NotifyRaises
    BY <2>35 DEF NotifyRaises, NoSummary, TypeOK
  <2>36. CASE StartNotificationRaises
    BY <2>36 DEF StartNotificationRaises
  <2>32. CASE ReleaseRunLock
    BY <2>32 DEF ReleaseRunLock, Return
  <2>33. CASE UNCHANGED vars
    BY <2>33 DEF vars
  <2> QED
    BY <2>1, <2>2, <2>3, <2>4, <2>5, <2>6, <2>7, <2>8, <2>9, <2>10, <2>11, <2>12, <2>13, <2>14, <2>15, <2>16, <2>17, <2>18, <2>19, <2>20, <2>21, <2>22, <2>23, <2>24, <2>25, <2>26, <2>27, <2>28, <2>29, <2>30, <2>31, <2>32, <2>33, <2>34, <2>35, <2>36
       DEF Next, MainThread, WebThreads, Tick, RunInstall, RetryFailed, Execute, HandleSummary
<1> QED
  BY <1>1, <1>2, TypeCorrect, PTL DEF Spec


\* From the point where a run is accounted for, only that goes on to the retry queue.
LEMMA OnlyAccountQueuesRetries ==
  ASSUME [Next]_vars, pc = "account", pc' = "queue_retry"
  PROVE  AccountForRun
<1>1. ~RunInstall /\ ~RetryFailed /\ ~Tick
  BY DEF RunInstall, GateInstall, PlanInstall, DiscoverRaises, RetryFailed, BeginRetry, PlanRetry,
         Tick, BeginTick, WatchdogSetsFailureMode, DispatchQueued, DispatchScheduled, NothingDue
<1>2. ~RunCheck /\ ~BackupNow /\ ~ClearStuckState /\ ~AcquireRunLock /\ ~PreUpdateBackup /\ ~RunPreActions
  BY DEF RunCheck, BackupNow, ClearStuckState, AcquireRunLock, PreUpdateBackup, RunPreActions
<1>3. ~Execute /\ ~HandleException /\ ~ReleaseRunLock /\ ~FinishJob /\ ~QueueRetry /\ ~NotifyOfRun /\ ~NotifyRaises
  BY DEF Execute, ExecutorBackup, StartNotificationRaises, SimulateUpdate, RequestUpdate, UpdateEnds, ExecutionEnds,
         AttemptRollback, HandleException, ReleaseRunLock, FinishJob, QueueRetry, NotifyOfRun, NotifyRaises
<1>4. ~WebThreads /\ ~PassTime /\ ~Crash /\ ~Restart /\ ~UNCHANGED vars
  BY DEF WebThreads, EnqueueAction, ReloadConfig, PassTime, Crash, Restart, vars
<1> QED
  BY <1>1, <1>2, <1>3, <1>4 DEF Next, MainThread, HandleSummary

\* Without the watchdog, a failed run that ends while safe mode is on (a retry)
\* starts safe mode anew and never ends it.
THEOREM SafeModeIsKept ==
  ASSUME NoWatchdog
  PROVE  Spec => FailedRunKeepsSafeMode
<1>1. TypeOK /\ SafeModeInv /\ [Next]_vars
        => [pc = "account" /\ pc' = "queue_retry" /\ RunFailed /\ safeMode > 0 => safeMode' = SafeMode]_vars
  <2> SUFFICES ASSUME TypeOK, SafeModeInv, AccountForRun, RunFailed, safeMode > 0
               PROVE  safeMode' = SafeMode
    BY OnlyAccountQueuesRetries
  <2>1. failureCount' >= Threshold
    BY DurationsAssumption DEF AccountForRun, SafeModeInv, TypeOK, Older
  <2> QED
    BY <2>1 DEF AccountForRun
<1> QED
  BY <1>1, TypeCorrect, SafeModeFollowsFailures, PTL DEF Spec, FailedRunKeepsSafeMode
=============================================================================
