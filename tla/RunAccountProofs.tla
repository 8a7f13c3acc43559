-------------------------- MODULE RunAccountProofs --------------------------
(***************************************************************************)
(* RunLifecycle keeps the account of runs that RunAccount describes, for   *)
(* any items, durations and configurations: the inductive invariant about  *)
(* the run in memory and on disk, and the refinement step by step.         *)
(***************************************************************************)
EXTENDS RunLifecycleProofs

USE DurationsAssumption, InputsAssumption DEF DurationsAssumption, InputsAssumption

-----------------------------------------------------------------------------
(* The invariant *)

\* Which kind of run there is, in memory and on disk.
ModesInv ==
  /\ pc \in LockedPoints \cup {"acquire"} => run.mode # "none"
  /\ pc \in {"retry", "plan_retry"} => run.mode = "retry"
  /\ job.mode = "none" => job = NoJob
  /\ pc = "raised" /\ run.mode = "retry" => job.mode = "retry"

\* Each item of the job has one place in the run.
ItemsInv ==
  /\ pc # "wait" => run.current = {}
  /\ pc = "wait" => run.current # {}
  /\ pc \in JobPoints =>
       /\ job.pending = run.todo \cup run.current \cup run.updated \cup run.failed
       /\ run.todo \cap (run.current \cup run.updated \cup run.failed) = {}
       /\ run.current \cap (run.updated \cup run.failed) = {}
       /\ run.updated \cap run.failed = {}
  /\ pc \in {"pre_backup", "pre_actions", "exec_backup"} => run.updated = {} /\ run.failed = {}
  /\ pc \in {"exec_backup", "update", "wait"} => job.pending # {}

\* What has been asked for is being updated or has a result.
AskedInv ==
  /\ pc \in {"pre_backup", "pre_actions", "exec_backup"} => unreported = {}
  /\ pc \in {"update", "wait"} => unreported \subseteq run.current \cup run.updated \cup run.failed

\* A summary tells of all items, or of none when the run was broken off.
SummaryIsComplete ==
  /\ job.mode = run.mode /\ run.todo = {}
  /\ summary.results = job.pending /\ summary.failed \subseteq job.pending
  /\ summary.status = IF job.pending = {} THEN "skipped"
                      ELSE IF summary.failed = {} THEN "success"
                      ELSE IF summary.failed = job.pending THEN "failed" ELSE "partial"
  /\ unreported \subseteq job.pending
SummaryIsEmpty ==
  run.mode = "install" /\ summary.status = "failed" /\ summary.results = {} /\ summary.failed = {}
ResultsInv ==
  /\ pc = "rollback" => SummaryIsComplete
  /\ pc = "finish" => SummaryIsComplete \/ SummaryIsEmpty
  /\ Settling =>
       job = NoJob /\ lastRun.status = summary.status /\ (unreported = {} \/ SummaryIsEmpty)

\* The items of a retry remain in the retry queue until its end is settled.
RetryInv ==
  /\ job.mode = "retry" => job.pending \subseteq retryQueue
  /\ pc \in {"acquire", "plan_retry"} /\ run.mode = "retry" => run.todo \subseteq retryQueue

AccountInv == ModesInv /\ ItemsInv /\ AskedInv /\ ResultsInv /\ RetryInv

\* A dispatched action begins without items, as a run of its kind.
LEMMA DispatchMode ==
  ASSUME TypeOK, DispatchQueued \/ DispatchScheduled
  PROVE  pc' = "retry" => run'.mode = "retry"
<1>1. ASSUME NEW a \in Actions, NEW trigger \in Triggers, Dispatch(a, trigger), pc' = "retry"
      PROVE  run'.mode = "retry"
  <2>1. a = "retry" /\ NoRun \in RunType
    BY <1>1, NoRunType DEF Dispatch, EntryOf, Actions
  <2>. QED
    BY <1>1, <2>1 DEF Dispatch, ModeOf, RunType
<1>2. CASE DispatchQueued
  <2>1. Head(queue) \in Actions /\ "manual" \in Triggers
    BY <1>2 DEF DispatchQueued, TypeOK, Triggers
  <2>. QED
    BY <1>1, <1>2, <2>1 DEF DispatchQueued
<1>3. CASE DispatchScheduled
  <2>1. PICK s \in Scheduled : Dispatch(s[1], s[2])
    BY <1>3 DEF DispatchScheduled
  <2>2. s[1] \in Actions /\ s[2] \in Triggers
    OBVIOUS
  <2>. QED
    BY <1>1, <2>1, <2>2
<1>. QED
  BY <1>2, <1>3

LEMMA AccountInvStep ==
  ASSUME TypeOK, JobInv, AccountInv, [Next]_vars
  PROVE  AccountInv'
<1>. USE DEF memory, accounts, disk, history, JobInv, AccountInv, ModesInv, ItemsInv, AskedInv, ResultsInv,
             RetryInv, SummaryIsComplete, SummaryIsEmpty, JobPoints, LockedPoints, Settling
<1>1. CASE PassTime
  BY <1>1, ZenonT(60) DEF PassTime, TypeOK, JobType, NoJob, Older, SummaryType
<1>2. ASSUME NEW a \in Requests, EnqueueAction(a) PROVE AccountInv'
  BY <1>2 DEF EnqueueAction
<1>3. ASSUME NEW c \in Configs, ReloadConfig(c) PROVE AccountInv'
  BY <1>3 DEF ReloadConfig
<1>4. CASE Crash
  BY <1>4 DEF Crash, NoRun
<1>5. CASE Restart
  BY <1>5 DEF Restart, MarkInterruptedIfRunning, NoJob
<1>6. CASE BeginTick
  BY <1>6 DEF BeginTick, NoJob
<1>7. CASE WatchdogSetsFailureMode
  BY <1>7 DEF WatchdogSetsFailureMode
<1>8. CASE DispatchQueued \/ DispatchScheduled
  BY <1>8, DispatchesTo, DispatchMode DEF DispatchQueued, DispatchScheduled
<1>9. CASE NothingDue
  BY <1>9 DEF NothingDue
<1>10. CASE RunCheck
  BY <1>10 DEF RunCheck, Return, NoRun
<1>11. CASE BackupNow
  BY <1>11 DEF BackupNow, Return, NoRun
<1>12. CASE ClearStuckState
  BY <1>12 DEF ClearStuckState, Return, NoJob, NoRun
<1>13. ASSUME NEW s \in Snapshots, GateInstall(s) PROVE AccountInv'
  BY <1>13 DEF GateInstall, Return, NoRun, RunShape
<1>14. CASE BeginRetry
  BY <1>14 DEF BeginRetry, Return, NoRun, TypeOK, RunType
<1>15. CASE AcquireRunLock
  BY <1>15 DEF AcquireRunLock, Return, NoRun, TypeOK, RunType
<1>16. ASSUME NEW plan \in SUBSET Items, PlanInstall(plan) PROVE AccountInv'
  BY <1>16, SMTT(30) DEF PlanInstall, StartJob, TypeOK, RunType, NoJob, RunShape
<1>17. CASE DiscoverRaises
  BY <1>17 DEF DiscoverRaises, RunShape
<1>18. ASSUME NEW s \in Snapshots, NEW plan \in SUBSET Items, PlanRetry(s, plan) PROVE AccountInv'
  BY <1>18 DEF PlanRetry, StartJob, TypeOK, RunType, NoJob, RunShape
<1>19. CASE PreUpdateBackup
  BY <1>19 DEF PreUpdateBackup, TypeOK, RunType, JobType, JobMatchesRun, NoJob
<1>20. CASE RunPreActions
  <2>1. run \in RunType /\ UNCHANGED <<job, unreported, retryQueue, lastRun>> /\ pc = "pre_actions"
    BY <1>20 DEF RunPreActions, TypeOK
  <2>2. CASE pc' = "raised" /\ UNCHANGED <<run, summary>>
    BY <2>1, <2>2 DEF JobMatchesRun
  <2>3. CASE run' = [run EXCEPT !.cfg = config] /\ pc' # "raised"
    <3>1. /\ run'.mode = run.mode /\ run'.todo = run.todo /\ run'.current = run.current
          /\ run'.updated = run.updated /\ run'.failed = run.failed
      BY <2>1, <2>3 DEF RunType
    <3>2. CASE run.todo = {}
      <4>1. pc' = "finish" /\ summary' = [NoSummary EXCEPT !.status = "skipped"]
        BY <1>20, <2>3, <3>2 DEF RunPreActions
      <4>2. job.pending = {} /\ job.mode = run.mode
        BY <2>1, <3>2 DEF JobMatchesRun
      <4>. QED
        BY <2>1, <3>1, <4>1, <4>2 DEF NoSummary
    <3>3. CASE run.todo # {}
      <4>1. pc' \in {"update", "exec_backup"} /\ UNCHANGED summary
        BY <1>20, <2>3, <3>3 DEF RunPreActions
      <4>. QED
        BY <2>1, <3>1, <3>3, <4>1
    <3>. QED
      BY <3>2, <3>3
  <2>. QED
    BY <1>20, <2>2, <2>3 DEF RunPreActions
<1>21. CASE ExecutorBackup
  BY <1>21 DEF ExecutorBackup, TypeOK, RunType, JobMatchesRun
<1>22. ASSUME NEW i \in Items, SimulateUpdate(i) PROVE AccountInv'
  BY <1>22 DEF SimulateUpdate, TypeOK, RunType
<1>23. ASSUME NEW i \in Items, RequestUpdate(i) PROVE AccountInv'
  BY <1>23 DEF RequestUpdate, TypeOK, RunType
<1>24. CASE UpdateEnds
  <2>1. /\ run \in RunType /\ pc = "wait" /\ pc' = "update"
        /\ UNCHANGED <<job, summary, unreported, retryQueue, lastRun>>
    BY <1>24 DEF UpdateEnds, TypeOK
  <2>2. /\ run'.mode = run.mode /\ run'.todo = run.todo /\ run'.current = {}
        /\ \/ run'.updated = run.updated \cup run.current /\ run'.failed = run.failed
           \/ run'.updated = run.updated /\ run'.failed = run.failed \cup run.current
    BY <1>24, <2>1 DEF UpdateEnds, RunType
  <2>3. ModesInv' /\ ResultsInv' /\ RetryInv'
    BY <2>1, <2>2
  <2>4. AskedInv'
    BY <2>1, <2>2
  <2>5. ItemsInv'
    BY <2>1, <2>2
  <2>. QED
    BY <2>3, <2>4, <2>5
<1>25. CASE ExecutionEnds
  BY <1>25 DEF ExecutionEnds, Outcome, JobMatchesRun, TypeOK, RunType
<1>26. CASE AttemptRollback
  BY <1>26 DEF AttemptRollback, TypeOK, RunType
<1>27. CASE HandleException
  BY <1>27 DEF HandleException, NoSummary
<1>28. CASE FinishJob
  BY <1>28 DEF FinishJob, NoJob
<1>29. CASE AccountForRun
  BY <1>29 DEF AccountForRun
<1>30. CASE QueueRetry
  BY <1>30 DEF QueueRetry, NoJob
<1>33. CASE NotifyOfRun
  BY <1>33 DEF NotifyOfRun
<1>34. CASE NotifyRaises
  BY <1>34 DEF NotifyRaises
<1>35. CASE StartNotificationRaises
  BY <1>35 DEF StartNotificationRaises, JobMatchesRun
<1>31. CASE ReleaseRunLock
  BY <1>31 DEF ReleaseRunLock, Return, NoRun
<1>32. CASE UNCHANGED vars
  BY <1>32 DEF vars
<1>. QED
  BY <1>1, <1>2, <1>3, <1>4, <1>5, <1>6, <1>7, <1>8, <1>9, <1>10, <1>11, <1>12, <1>13, <1>14, <1>15, <1>16, <1>17, <1>18, <1>19, <1>20, <1>21, <1>22, <1>23, <1>24, <1>25, <1>26, <1>27, <1>28, <1>29, <1>30, <1>31, <1>32, <1>33, <1>34, <1>35
     DEF Next, MainThread, WebThreads, Tick, RunInstall, RetryFailed, Execute, HandleSummary

\* The invariant holds, with what the job on disk says of the run in memory.
LEMMA AccountIsKept == Spec => [](TypeOK /\ JobInv /\ AccountInv)
<1>1. Init => AccountInv
  BY DEF Init, AccountInv, ModesInv, ItemsInv, AskedInv, ResultsInv, RetryInv, JobPoints, LockedPoints,
         Settling, NoRun, NoJob
<1>2. TypeOK /\ JobInv /\ AccountInv /\ [Next]_vars => AccountInv'
  BY AccountInvStep
<1>. QED
  BY <1>1, <1>2, TypeCorrect, JobIsAccurate, PTL DEF Spec

-----------------------------------------------------------------------------
(* The refinement *)

\* The points at which there is neither a job of the run nor an end of it to settle.
AwayPoints == (LockedPoints \cup FreePoints) \ (JobPoints \cup {"raised", "finish", "account", "queue_retry"})

\* What Phase is at each point, before a step and after it.
LEMMA PhaseOf ==
  ASSUME JobInv, JobInv', AccountInv, AccountInv'
  PROVE  /\ Waiting = (IF Phase = "running" THEN run.todo ELSE {})
         /\ Waiting' = (IF Phase' = "running" THEN run'.todo ELSE {})
         /\ pc \in JobPoints => Phase = "running" /\ Unsettled = {}
         /\ pc \in {"raised", "finish"} =>
              /\ Phase = IF job.mode = run.mode THEN "running" ELSE IF job.mode # "none" THEN "abandoned" ELSE "none"
              /\ Unsettled = {}
         /\ Settling => Phase = "ended" /\ Unsettled = summary.failed
         /\ pc \in AwayPoints => Phase = (IF job.mode # "none" THEN "abandoned" ELSE "none") /\ Unsettled = {}
         /\ pc' \in JobPoints => Phase' = "running" /\ Unsettled' = {}
         /\ pc' \in {"raised", "finish"} =>
              /\ Phase' = IF job'.mode = run'.mode THEN "running" ELSE IF job'.mode # "none" THEN "abandoned" ELSE "none"
              /\ Unsettled' = {}
         /\ Settling' => Phase' = "ended" /\ Unsettled' = summary'.failed
         /\ pc' \in AwayPoints => Phase' = (IF job'.mode # "none" THEN "abandoned" ELSE "none") /\ Unsettled' = {}
<1>. USE DEF Phase, RunIsOnRecord, Settling, Unsettled, AwayPoints, JobPoints
<1>1. (job # NoJob <=> job.mode # "none") /\ (job # NoJob <=> job.mode # "none")'
  BY DEF AccountInv, ModesInv, NoJob
<1>2. (Settling => job = NoJob) /\ (Settling => job = NoJob)'
  BY DEF AccountInv, ResultsInv
<1>3. /\ pc \in JobPoints => Phase = "running" /\ Unsettled = {}
      /\ Waiting = (IF Phase = "running" THEN run.todo ELSE {})
      /\ Waiting' = (IF Phase' = "running" THEN run'.todo ELSE {})
  BY DEF Waiting
<1>4. pc \in {"raised", "finish"} =>
              /\ Phase = IF job.mode = run.mode THEN "running" ELSE IF job.mode # "none" THEN "abandoned" ELSE "none"
              /\ Unsettled = {}
  BY <1>1
<1>5. Settling => Phase = "ended" /\ Unsettled = summary.failed
  BY <1>1, <1>2
<1>6. pc \in AwayPoints => Phase = (IF job.mode # "none" THEN "abandoned" ELSE "none") /\ Unsettled = {}
  BY <1>1
<1>7. pc' \in JobPoints => Phase' = "running" /\ Unsettled' = {}
  OBVIOUS
<1>8. pc' \in {"raised", "finish"} =>
              /\ Phase' = IF job'.mode = run'.mode THEN "running" ELSE IF job'.mode # "none" THEN "abandoned" ELSE "none"
              /\ Unsettled' = {}
  BY <1>1
<1>9. Settling' => Phase' = "ended" /\ Unsettled' = summary'.failed
  BY <1>1, <1>2
<1>10. pc' \in AwayPoints => Phase' = (IF job'.mode # "none" THEN "abandoned" ELSE "none") /\ Unsettled' = {}
  BY <1>1
<1>. QED
  BY <1>3, <1>4, <1>5, <1>6, <1>7, <1>8, <1>9, <1>10

\* What a step leaves alone that the account is not about.
Recorded == <<job.mode, job.pending, run.current, unreported, retryQueue, lastRun.status>>

\* A step between points of the same kind, or on the way from the one to the other
\* with the run that is on record, leaves the account alone.
LEMMA StaysAside ==
  ASSUME JobInv, JobInv', AccountInv, AccountInv', UNCHANGED Recorded,
         \/ pc' = pc /\ pc \in LockedPoints \cup FreePoints /\ run'.mode = run.mode /\ run'.todo = run.todo
              /\ summary'.failed = summary.failed
         \/ pc \in JobPoints /\ pc' \in JobPoints /\ run'.todo = run.todo
         \/ pc \in AwayPoints \ {"down"} /\ pc' \in AwayPoints \ {"down"}
         \/ Settling /\ Settling' /\ summary'.failed = summary.failed
         \/ pc \in JobPoints /\ pc' \in {"raised", "finish"} /\ run'.mode = run.mode /\ run'.todo = run.todo
         \/ pc = "raised" /\ pc' = "finish" /\ run'.mode = run.mode /\ run'.todo = run.todo
         \/ pc \in {"plan_install", "notify"} /\ pc' = "raised" /\ run'.mode = run.mode /\ run.mode = "install"
  PROVE  UNCHANGED Account!account
<1>1. Phase' = Phase /\ Unsettled' = Unsettled /\ (Phase = "running" => run'.todo = run.todo)
  BY PhaseOf DEF Recorded, JobInv, RunShape, InstallJobEnds, JobMatchesRun, AwayPoints, JobPoints, Settling, LockedPoints, FreePoints
<1>2. (pc # "down") = (pc' # "down")
  BY DEF AwayPoints, JobPoints, Settling
<1>. QED
  BY <1>1, <1>2, PhaseOf DEF Recorded, Account!account
\* Between the points without a run on record, the local variables of the run do not count.
LEMMA AwayAside ==
  ASSUME JobInv, JobInv', AccountInv, AccountInv', UNCHANGED <<job, unreported, retryQueue, lastRun>>,
         pc \in {"idle", "watchdog", "dequeue", "check", "gate", "retry", "backup", "clear", "acquire",
                 "plan_install", "plan_retry", "notify", "release"},
         pc' \in {"idle", "watchdog", "dequeue", "check", "gate", "retry", "backup", "clear", "acquire",
                  "plan_install", "plan_retry", "notify", "release"}
  PROVE  UNCHANGED Account!account
<1>1. run.current = {} /\ run'.current = {}
  BY DEF AccountInv, ItemsInv
<1>2. pc \in AwayPoints \ {"down"}
  BY DEF AwayPoints, LockedPoints, FreePoints, JobPoints
<1>3. pc' \in AwayPoints \ {"down"}
  BY DEF AwayPoints, LockedPoints, FreePoints, JobPoints
<1>. QED
  BY <1>1, <1>2, <1>3, StaysAside DEF Recorded

\* A run without a job of its own on record finds none on record, or one that was given up
\* and all of whose items are in the retry queue.
LEMMA NoneIsLostAway ==
  ASSUME TypeOK, JobInv, JobInv', AccountInv, AccountInv',
         pc \in {"plan_install", "plan_retry", "raised", "finish"}, job.mode # run.mode
  PROVE  Account!NoneIsLost
<1>1. job.mode # "none" => job.mode = "retry"
  BY DEF TypeOK, JobType, JobInv, InstallJobEnds, JobPoints
<1>2. job.mode # "none" => job.pending \subseteq retryQueue
  BY <1>1 DEF AccountInv, RetryInv
<1>3. Phase = IF job.mode # "none" THEN "abandoned" ELSE "none"
  BY PhaseOf DEF AwayPoints, LockedPoints, FreePoints, JobPoints
<1>. QED
  BY <1>2, <1>3 DEF Account!NoneIsLost

\* Recording the job of a run begins it.
LEMMA StartJobBegins ==
  ASSUME TypeOK, JobInv, JobInv', AccountInv, AccountInv', NEW plan \in SUBSET Items, StartJob(plan),
         \/ pc = "plan_install" /\ plan # {}
         \/ pc = "plan_retry" /\ plan \subseteq run.todo,
         UNCHANGED <<retryQueue, lastRun>>
  PROVE  Account!AccountNext
<1>. DEFINE m == run.mode
<1>1. m = IF pc = "plan_install" THEN "install" ELSE "retry"
  BY DEF JobInv, RunShape, AccountInv, ModesInv
<1>2. /\ pc' = "pre_backup" /\ unreported' = {}
      /\ job' = [mode |-> m, pending |-> plan, age |-> 0, backup |-> FALSE]
  BY DEF StartJob
<1>3. job'.mode = m /\ job'.pending = plan /\ run'.todo = plan
  BY <1>2 DEF StartJob, TypeOK, RunType
<1>4. run.current = {} /\ run'.current = {}
  BY <1>2 DEF AccountInv, ItemsInv
<1>5. Phase' = "running" /\ Unsettled' = {} /\ Unsettled = {}
  BY <1>2, PhaseOf DEF AwayPoints, LockedPoints, FreePoints, JobPoints
<1>6. Account!NoneIsLost
  <2>1. CASE job.mode = m
    <3>1. job.mode = "retry"
      BY <1>1, <2>1 DEF JobInv, InstallJobEnds, JobPoints
    <3>2. job.pending \subseteq retryQueue
      BY <3>1 DEF AccountInv, RetryInv
    <3>3. Phase = "abandoned"
      BY <3>1, PhaseOf DEF AwayPoints, LockedPoints, FreePoints, JobPoints
    <3>. QED
      BY <3>2, <3>3 DEF Account!NoneIsLost
  <2>. QED
    BY <2>1, NoneIsLostAway
<1>7. m = "retry" => plan \subseteq retryQueue
  BY <1>1 DEF AccountInv, RetryInv
<1>8. Account!Begin(m, plan)
  BY <1>1, <1>2, <1>3, <1>4, <1>5, <1>6, <1>7, PhaseOf DEF Account!Begin
<1>. QED
  BY <1>1, <1>8 DEF Account!AccountNext

\* Where there is a job, the run on record is in progress or given up.
LEMMA JobOfPhase ==
  ASSUME JobInv, AccountInv
  PROVE  /\ Phase \in {"running", "abandoned"} <=> job.mode # "none"
         /\ Phase \in {"running", "abandoned", "ended", "none"}
<1>1. job # NoJob <=> job.mode # "none"
  BY DEF AccountInv, ModesInv, NoJob
<1>2. RunIsOnRecord => job.mode # "none"
  BY DEF RunIsOnRecord, JobPoints, LockedPoints, AccountInv, ModesInv, JobInv, JobMatchesRun
<1>. QED
  BY <1>1, <1>2 DEF Phase

\* The user and the watchdog clear what no run is working on.
LEMMA ClearClears ==
  ASSUME JobInv, JobInv', AccountInv, AccountInv', UNCHANGED lastRun, job' = NoJob, retryQueue' = {},
         \/ pc = "clear" /\ pc' = "idle" /\ unreported' = {}
         \/ pc = "idle" /\ pc' = "watchdog" /\ UNCHANGED unreported /\ job.mode # "none"
  PROVE  Account!AccountNext
<1>1. run.current = {} /\ run'.current = {}
  BY DEF AccountInv, ItemsInv
<1>2. job'.mode = "none" /\ job'.pending = {}
  BY DEF NoJob
<1>3. Phase = (IF job.mode # "none" THEN "abandoned" ELSE "none") /\ Unsettled = {}
  BY PhaseOf DEF AwayPoints, FreePoints, JobPoints
<1>4. Phase' = "none" /\ Unsettled' = {}
  BY <1>2, PhaseOf DEF AwayPoints, FreePoints, JobPoints
<1>5. Account!Clear
  BY <1>1, <1>2, <1>3, <1>4, PhaseOf DEF Account!Clear
<1>. QED
  BY <1>5 DEF Account!AccountNext

\* Every step of the code is one of the account or leaves it alone.
LEMMA AccountStep ==
  ASSUME TypeOK, TypeOK', JobInv, JobInv', AccountInv, AccountInv', Next
  PROVE  Account!AccountNext \/ UNCHANGED Account!account
<1>. USE DEF memory, accounts, disk, history
<1>. DEFINE Stutter == UNCHANGED Account!account
<1>1. CASE PassTime
  BY <1>1, StaysAside, SMTT(30) DEF PassTime, AwayPoints, JobPoints, LockedPoints, FreePoints, Settling, Recorded, TypeOK, JobType, RunType, Return, NoRun
<1>2. ASSUME NEW a \in Requests, EnqueueAction(a) PROVE Stutter
  BY <1>2, StaysAside DEF EnqueueAction, AwayPoints, JobPoints, LockedPoints, FreePoints, Settling, Recorded, TypeOK, JobType, RunType, Return, NoRun
<1>3. ASSUME NEW c \in Configs, ReloadConfig(c) PROVE Stutter
  BY <1>3, StaysAside DEF ReloadConfig, AwayPoints, JobPoints, LockedPoints, FreePoints, Settling, Recorded, TypeOK, JobType, RunType, Return, NoRun
<1>4. CASE WatchdogSetsFailureMode
  BY <1>4, AwayAside DEF WatchdogSetsFailureMode, Return
<1>5. CASE DispatchQueued \/ DispatchScheduled
  BY <1>5, AwayAside, DispatchesTo
<1>6. CASE NothingDue
  BY <1>6, AwayAside DEF NothingDue, Return
<1>7. CASE RunCheck
  BY <1>7, AwayAside DEF RunCheck, Return
<1>8. CASE BackupNow
  BY <1>8, AwayAside DEF BackupNow, Return
<1>9. ASSUME NEW s \in Snapshots, GateInstall(s) PROVE Stutter
  BY <1>9, AwayAside DEF GateInstall, Return
<1>10. CASE BeginRetry
  BY <1>10, AwayAside DEF BeginRetry, Return
<1>11. CASE AcquireRunLock
  BY <1>11, AwayAside DEF AcquireRunLock, Return
<1>12. CASE DiscoverRaises
  BY <1>12, StaysAside DEF DiscoverRaises, JobInv, RunShape, AwayPoints, JobPoints, LockedPoints, FreePoints, Settling, Recorded, TypeOK, JobType, RunType, Return, NoRun
<1>13. CASE PreUpdateBackup
  BY <1>13, StaysAside DEF PreUpdateBackup, AwayPoints, JobPoints, LockedPoints, FreePoints, Settling, Recorded, TypeOK, JobType, RunType, Return, NoRun
<1>14. CASE RunPreActions
  BY <1>14, StaysAside DEF RunPreActions, AwayPoints, JobPoints, LockedPoints, FreePoints, Settling, Recorded, TypeOK, JobType, RunType, Return, NoRun
<1>15. CASE ExecutorBackup
  BY <1>15, StaysAside DEF ExecutorBackup, AwayPoints, JobPoints, LockedPoints, FreePoints, Settling, Recorded, TypeOK, JobType, RunType, Return, NoRun
<1>16. ASSUME NEW i \in Items, SimulateUpdate(i) PROVE Account!AccountNext
  <2>1. /\ pc = "update" /\ pc' = "update" /\ i \in run.todo /\ run'.todo = run.todo \ {i}
        /\ run'.current = run.current /\ UNCHANGED <<job, unreported, retryQueue, lastRun>>
    BY <1>16 DEF SimulateUpdate, TypeOK, RunType
  <2>2. run.current = {}
    BY <2>1 DEF AccountInv, ItemsInv
  <2>3. Account!Simulate(i)
    BY <2>1, <2>2, PhaseOf DEF Account!Simulate, JobPoints
  <2>. QED
    BY <2>3 DEF Account!AccountNext
<1>17. CASE ExecutionEnds
  BY <1>17, StaysAside DEF ExecutionEnds, AwayPoints, JobPoints, LockedPoints, FreePoints, Settling, Recorded, TypeOK, JobType, RunType, Return, NoRun
<1>18. CASE AttemptRollback
  BY <1>18, StaysAside DEF AttemptRollback, AwayPoints, JobPoints, LockedPoints, FreePoints, Settling, Recorded, TypeOK, JobType, RunType, Return, NoRun
<1>19. CASE AccountForRun
  BY <1>19, StaysAside DEF AccountForRun, AwayPoints, JobPoints, LockedPoints, FreePoints, Settling, Recorded, TypeOK, JobType, RunType, Return, NoRun
<1>20. CASE ReleaseRunLock
  BY <1>20, AwayAside DEF ReleaseRunLock, Return
<1>21. CASE Crash
  <2>1. pc # "down" /\ pc' = "down" /\ run' = NoRun /\ UNCHANGED <<job, unreported, retryQueue, lastRun>>
    BY <1>21 DEF Crash
  <2>2. run'.current = {}
    BY <2>1 DEF AccountInv, ItemsInv
  <2>3. Phase' = (IF job.mode # "none" THEN "abandoned" ELSE "none") /\ Unsettled' = {}
    BY <2>1, PhaseOf DEF AwayPoints, FreePoints, JobPoints
  <2>4. Phase' = IF Phase = "running" THEN "abandoned" ELSE IF Phase = "ended" THEN "none" ELSE Phase
    BY <2>3, JobOfPhase
  <2>5. Account!Crash
    BY <2>1, <2>2, <2>3, <2>4, PhaseOf DEF Account!Crash
  <2>. QED
    BY <2>5 DEF Account!AccountNext
<1>22. CASE Restart
  <2>1. pc = "down" /\ pc' = "idle" /\ UNCHANGED <<run, unreported>>
    BY <1>22 DEF Restart
  <2>2. job' = NoJob /\ job'.mode = "none" /\ job'.pending = {}
    BY <1>22 DEF Restart, MarkInterruptedIfRunning, NoJob
  <2>3. Phase = (IF job.mode # "none" THEN "abandoned" ELSE "none") /\ Unsettled = {}
    BY <2>1, PhaseOf DEF AwayPoints, FreePoints, JobPoints
  <2>4. Phase' = "none" /\ Unsettled' = {}
    BY <2>1, <2>2, PhaseOf DEF AwayPoints, FreePoints, JobPoints
  <2>5. IF Phase = "abandoned" THEN retryQueue' = job.pending /\ lastRun'.status = "interrupted"
        ELSE UNCHANGED <<retryQueue, lastRun>>
    BY <1>22, <2>3 DEF Restart, MarkInterruptedIfRunning, NoJob, AccountInv, ModesInv
  <2>6. Account!Start
    BY <2>1, <2>2, <2>3, <2>4, <2>5, PhaseOf DEF Account!Start
  <2>. QED
    BY <2>6 DEF Account!AccountNext
<1>23. CASE BeginTick
  <2>1. CASE WatchdogFires
    <3>1. /\ pc = "idle" /\ pc' = "watchdog" /\ job' = NoJob /\ retryQueue' = {}
          /\ UNCHANGED <<run, unreported, lastRun>>
      BY <1>23, <2>1 DEF BeginTick
    <3>2. job.mode # "none"
      BY <2>1 DEF WatchdogFires, AccountInv, ModesInv
    <3>. QED
      BY <3>1, <3>2, ClearClears
  <2>2. CASE ~WatchdogFires
    BY <1>23, <2>2, AwayAside DEF BeginTick
  <2>. QED
    BY <2>1, <2>2
<1>24. CASE ClearStuckState
  BY <1>24, ClearClears DEF ClearStuckState, Return
<1>25. ASSUME NEW plan \in SUBSET Items, PlanInstall(plan) PROVE Account!AccountNext \/ Stutter
  <2>1. CASE plan = {}
    BY <1>25, <2>1, AwayAside DEF PlanInstall
  <2>2. CASE plan # {}
    BY <1>25, <2>2, StartJobBegins DEF PlanInstall
  <2>. QED
    BY <2>1, <2>2
<1>26. ASSUME NEW s \in Snapshots, NEW plan \in SUBSET Items, PlanRetry(s, plan)
       PROVE  Account!AccountNext
  BY <1>26, StartJobBegins DEF PlanRetry
<1>27. ASSUME NEW i \in Items, RequestUpdate(i) PROVE Account!AccountNext
  <2>1. /\ pc = "update" /\ pc' = "wait" /\ i \in run.todo /\ run'.todo = run.todo \ {i}
        /\ run'.current = {i} /\ unreported' = unreported \cup {i}
        /\ UNCHANGED <<job, retryQueue, lastRun>>
    BY <1>27 DEF RequestUpdate, TypeOK, RunType
  <2>2. run.current = {} /\ i \in job.pending \ unreported
    BY <2>1 DEF AccountInv, ItemsInv, AskedInv, JobPoints
  <2>3. /\ Phase = "running" /\ Unsettled = {}
        /\ Phase' = "running" /\ Unsettled' = {}
    BY <2>1, PhaseOf DEF JobPoints
  <2>4. Account!Ask(i)
    BY <2>1, <2>2, <2>3, PhaseOf DEF Account!Ask
  <2>. QED
    BY <2>4 DEF Account!AccountNext
<1>28. CASE UpdateEnds
  <2>1. /\ pc = "wait" /\ pc' = "update" /\ run'.current = {} /\ run'.todo = run.todo
        /\ UNCHANGED <<job, unreported, retryQueue, lastRun>>
    BY <1>28 DEF UpdateEnds, TypeOK, RunType
  <2>2. run.current # {}
    BY <2>1 DEF AccountInv, ItemsInv
  <2>3. /\ Phase = "running" /\ Unsettled = {}
        /\ Phase' = "running" /\ Unsettled' = {}
    BY <2>1, PhaseOf DEF JobPoints
  <2>4. Account!Answered
    BY <2>1, <2>2, <2>3, PhaseOf DEF Account!Answered
  <2>. QED
    BY <2>4 DEF Account!AccountNext
<1>29. CASE HandleException
  <2>1. pc = "raised" /\ UNCHANGED <<run, job, unreported, retryQueue, lastRun>>
    BY <1>29 DEF HandleException
  <2>2. CASE run.mode = "install"
    BY <1>29, <2>1, <2>2, StaysAside DEF HandleException, Recorded
  <2>3. CASE run.mode # "install"
    <3>1. run.mode = "retry" /\ job.mode = "retry"
      BY <2>1, <2>3 DEF AccountInv, ModesInv, LockedPoints, TypeOK, RunType
    <3>2. pc' = "release"
      BY <1>29, <2>3 DEF HandleException
    <3>3. Phase = "running" /\ Unsettled = {} /\ Phase' = "abandoned" /\ Unsettled' = {}
      BY <2>1, <3>1, <3>2, PhaseOf DEF AwayPoints, LockedPoints, JobPoints
    <3>4. run.current = {}
      BY <2>1 DEF AccountInv, ItemsInv
    <3>5. Account!GiveUp
      BY <2>1, <3>1, <3>2, <3>3, <3>4, PhaseOf DEF Account!GiveUp
    <3>. QED
      BY <3>5 DEF Account!AccountNext
  <2>. QED
    BY <2>2, <2>3
<1>30. CASE FinishJob
  <2>1. /\ pc = "finish" /\ pc' = "account" /\ job' = NoJob /\ lastRun'.status = summary.status
        /\ unreported' = unreported \ summary.results /\ UNCHANGED <<run, summary, retryQueue>>
    BY <1>30 DEF FinishJob
  <2>2. run.current = {} /\ job'.mode = "none" /\ job'.pending = {}
    BY <2>1 DEF AccountInv, ItemsInv, NoJob
  <2>3. Unsettled = {} /\ Phase' = "ended" /\ Unsettled' = summary.failed
    BY <2>1, PhaseOf DEF Settling
  <2>4. CASE SummaryIsComplete
    <3>1. Phase = "running"
      BY <2>1, <2>4, PhaseOf DEF SummaryIsComplete
    <3>2. /\ unreported' = {} /\ summary.failed \in SUBSET job.pending /\ run.todo = {}
          /\ summary.status = IF job.pending = {} THEN "skipped"
                              ELSE IF summary.failed = {} THEN "success"
                              ELSE IF summary.failed = job.pending THEN "failed" ELSE "partial"
      BY <2>1, <2>4 DEF SummaryIsComplete
    <3>3. Account!RunEnds(IF job.pending = {} THEN "skipped" ELSE IF summary.failed = {} THEN "success"
               ELSE IF summary.failed = job.pending THEN "failed" ELSE "partial", summary.failed)
      BY <2>1, <2>2, <2>3, <3>2, PhaseOf DEF Account!RunEnds
    <3>4. Account!Complete
      BY <2>1, <2>2, <3>1, <3>2, <3>3, PhaseOf DEF Account!Complete
    <3>. QED
      BY <3>4 DEF Account!AccountNext
  <2>5. CASE SummaryIsEmpty
    <3>1. Account!NoneIsLost \/ (Phase = "running" /\ job.mode = "install")
      BY <2>1, <2>5, NoneIsLostAway, PhaseOf DEF SummaryIsEmpty
    <3>2. unreported' = unreported /\ summary.status = "failed" /\ summary.failed = {}
      BY <2>1, <2>5 DEF SummaryIsEmpty
    <3>3. Account!RunEnds("failed", {})
      BY <2>1, <2>2, <2>3, <3>2, PhaseOf DEF Account!RunEnds
    <3>4. Account!BreakOff
      BY <2>1, <2>2, <3>1, <3>2, <3>3, PhaseOf DEF Account!BreakOff
    <3>. QED
      BY <3>4 DEF Account!AccountNext
  <2>. QED
    BY <2>1, <2>4, <2>5 DEF AccountInv, ResultsInv
<1>31. CASE QueueRetry
  <2>1. /\ pc = "queue_retry" /\ pc' = "notify" /\ UNCHANGED <<run, job, unreported, lastRun>>
        /\ retryQueue' = IF RunFailed /\ summary.failed = {} THEN retryQueue ELSE summary.failed
    BY <1>31 DEF QueueRetry
  <2>2. job = NoJob /\ job.mode = "none" /\ lastRun.status = summary.status
    BY <2>1 DEF AccountInv, ResultsInv, Settling, NoJob
  <2>3. Phase = "ended" /\ Unsettled = summary.failed /\ Phase' = "none" /\ Unsettled' = {}
    BY <2>1, <2>2, PhaseOf DEF Settling, AwayPoints, LockedPoints, JobPoints
  <2>4. retryQueue' = IF lastRun.status = "failed" /\ Unsettled = {} THEN retryQueue ELSE Unsettled
    BY <2>1, <2>2, <2>3 DEF RunFailed
  <2>5. Account!Settle
    BY <2>1, <2>2, <2>3, <2>4, PhaseOf DEF Account!Settle
  <2>. QED
    BY <2>5 DEF Account!AccountNext
<1>32. CASE NotifyOfRun
  BY <1>32, AwayAside DEF NotifyOfRun
<1>33. CASE NotifyRaises
  <2>1. CASE pc' = "raised"
    BY <1>33, <2>1, StaysAside DEF NotifyRaises, Recorded
  <2>2. CASE pc' = "release"
    BY <1>33, <2>2, AwayAside DEF NotifyRaises
  <2>. QED
    BY <1>33, <2>1, <2>2 DEF NotifyRaises
<1>34. CASE StartNotificationRaises
  BY <1>34, StaysAside DEF StartNotificationRaises, Recorded, JobPoints
<1>. QED
  BY <1>1, <1>2, <1>3, <1>4, <1>5, <1>6, <1>7, <1>8, <1>9, <1>10, <1>11, <1>12, <1>13, <1>14, <1>15, <1>16,
     <1>17, <1>18, <1>19, <1>20, <1>21, <1>22, <1>23, <1>24, <1>25, <1>26, <1>27, <1>28, <1>29, <1>30, <1>31,
     <1>32, <1>33, <1>34
     DEF Next, MainThread, WebThreads, Tick, RunInstall, RetryFailed, Execute, HandleSummary

-----------------------------------------------------------------------------
(* Theorem *)

\* Whatever the main thread, the web threads, crashes and imports do in between, the
\* steps of the code keep the account of runs in state.json.
THEOREM RunsActAsAccount == Spec => ActsAsAccount
<1>1. Init => Account!AccountInit
  BY DEF Init, Account!AccountInit, Phase, Waiting, Unsettled, RunIsOnRecord, Settling, JobPoints, NoRun, NoJob
<1>2. (TypeOK /\ JobInv /\ AccountInv) /\ (TypeOK /\ JobInv /\ AccountInv)' /\ [Next]_vars
        => [Account!AccountNext]_Account!account
  <2>1. UNCHANGED vars => UNCHANGED Account!account
    BY DEF vars, memory, disk, history, Account!account, Phase, Waiting, Unsettled, RunIsOnRecord, Settling, JobPoints, NoJob
  <2>. QED
    BY <2>1, AccountStep
<1>. QED
  BY <1>1, <1>2, AccountIsKept, PTL DEF Spec, ActsAsAccount, Account!AccountSpec

\* What steps do to the account of the items asked for without a result: most only move it.
LEMMA ForgettingStep ==
  ASSUME TypeOK, JobInv, AccountInv, Next, Forgotten' \ Forgotten # {}
  PROVE  \/ pc = "idle" /\ pc' = "watchdog"
         \/ pc = "finish" /\ job.mode = "install" /\ FromExcept
<1>. USE DEF memory, accounts, disk, history, Forgotten
<1>1. ~UNCHANGED <<unreported, job, retryQueue>>
  OBVIOUS
<1>2. unreported' # {}
  OBVIOUS
<1>3. ~PassTime
  <2>1. ASSUME PassTime PROVE (job' = NoJob <=> job = NoJob) /\ job'.pending = job.pending
    BY <2>1, DurationsAssumption, SMTT(30) DEF PassTime, NoJob, Older, TypeOK, JobType
  <2>. QED
    BY <2>1 DEF PassTime
<1>4. ~WebThreads /\ ~Crash
  BY <1>1 DEF WebThreads, EnqueueAction, ReloadConfig, Crash
<1>5. ~Restart
  BY DEF Restart, MarkInterruptedIfRunning, AccountInv, ModesInv
<1>6. CASE Tick
  BY <1>1, <1>6 DEF Tick, BeginTick, WatchdogSetsFailureMode, DispatchQueued, DispatchScheduled, Dispatch,
                    NothingDue
<1>7. ~RunCheck /\ ~BackupNow /\ ~ClearStuckState /\ ~AcquireRunLock /\ ~RunPreActions /\ ~ReleaseRunLock
  BY <1>1, <1>2 DEF RunCheck, BackupNow, ClearStuckState, AcquireRunLock, RunPreActions, ReleaseRunLock
<1>8. ~RunInstall /\ ~RetryFailed
  BY <1>1, <1>2 DEF RunInstall, GateInstall, PlanInstall, DiscoverRaises, RetryFailed, BeginRetry, PlanRetry, StartJob
<1>9. ~PreUpdateBackup
  <2>1. ASSUME PreUpdateBackup, ~UNCHANGED job PROVE FALSE
    <3>1. pc = "pre_backup" /\ job' = [job EXCEPT !.backup = TRUE] /\ UNCHANGED <<unreported, retryQueue>>
      BY <2>1 DEF PreUpdateBackup
    <3>2. unreported = {}
      BY <3>1 DEF AccountInv, AskedInv
    <3>. QED
      BY <3>1, <3>2
  <2>. QED
    BY <1>1, <2>1 DEF PreUpdateBackup
<1>10. ~Execute
  <2>1. ASSUME NEW i \in Items, RequestUpdate(i) PROVE FALSE
    <3>1. pc = "update" /\ i \in run.todo /\ unreported' = unreported \cup {i} /\ UNCHANGED <<job, retryQueue>>
      BY <2>1 DEF RequestUpdate
    <3>2. i \in job.pending /\ job # NoJob
      BY <3>1 DEF AccountInv, ItemsInv, JobPoints, NoJob
    <3>. QED
      BY <3>1, <3>2
  <2>. QED
    BY <1>1, <2>1 DEF Execute, ExecutorBackup, StartNotificationRaises, SimulateUpdate, UpdateEnds, ExecutionEnds,
                      AttemptRollback
<1>11. ~HandleException /\ ~NotifyOfRun /\ ~NotifyRaises /\ ~AccountForRun
  BY <1>1 DEF HandleException, NotifyOfRun, NotifyRaises, AccountForRun
<1>12. ~QueueRetry
  <2>1. ASSUME QueueRetry PROVE FALSE
    <3>1. job = NoJob /\ SummaryIsEmpty
      BY <1>2, <2>1 DEF QueueRetry, AccountInv, ResultsInv, Settling
    <3>. QED
      BY <1>1, <2>1, <3>1 DEF QueueRetry, SummaryIsEmpty, RunFailed
  <2>. QED
    BY <2>1
<1>13. CASE FinishJob
  <2>1. pc = "finish" /\ job' = NoJob /\ unreported' = unreported \ summary.results /\ UNCHANGED retryQueue
    BY <1>13 DEF FinishJob
  <2>2. SummaryIsEmpty
    BY <1>2, <2>1 DEF AccountInv, ResultsInv, SummaryIsComplete
  <2>3. job.mode \notin {"none", "retry"}
    BY <2>1 DEF AccountInv, ModesInv, RetryInv
  <2>. QED
    BY <2>1, <2>2, <2>3 DEF SummaryIsEmpty, FromExcept, TypeOK, JobType
<1>. QED
  BY <1>3, <1>4, <1>5, <1>6, <1>7, <1>8, <1>9, <1>10, <1>11, <1>12, <1>13 DEF Next, MainThread, HandleSummary

\* Only the watchdog and an install broken off by an exception lose track of an item whose
\* update was asked for, whatever crashes, retries, clears and imports happen in between.
THEOREM NothingElseForgets == Spec => OnlyTheseForget
<1>1. TypeOK /\ JobInv /\ AccountInv /\ [Next]_vars
        => [Forgotten' \ Forgotten # {} =>
              \/ pc = "idle" /\ pc' = "watchdog"
              \/ pc = "finish" /\ job.mode = "install" /\ FromExcept]_vars
  BY ForgettingStep
<1>. QED
  BY <1>1, AccountIsKept, PTL DEF Spec, OnlyTheseForget
=============================================================================
