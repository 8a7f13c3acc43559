--------------------------- MODULE UpdateRequests ---------------------------
(***************************************************************************)
(* What a run asks of the Supervisor, request by request: the refresh, the *)
(* discovery and the plan, the backup and the trimming of old ones, and    *)
(* the updates with their jobs and health checks.  RunLifecycle takes all  *)
(* attempts of a request for one step; here a request may be refused, be   *)
(* carried out without an answer, and be repeated.                         *)
(*                                                                         *)
(* The service loop makes one run.  The Supervisor (external) ends jobs in *)
(* its own time, and new versions are released at any moment.              *)
(***************************************************************************)
EXTENDS Integers, FiniteSets

CONSTANTS
  Items,         \* what can be updated
  TypeOf,        \* the component type of each
  NameRank,      \* the place of its name in the alphabet, then of its discovery
  Versions,      \* versions, as <<major, minor, patch, rest>>
  Bucket,        \* rollout_bucket of each item and version
  Policies,      \* the policies a run can be under
  Old,           \* the number of backups before the run; backups are numbered by their dates
  OwnBackups     \* those of them that the add-on has made

Types == {"core", "supervisor", "os", "addon"}
ASSUME ItemsAssumption ==
  /\ IsFiniteSet(Items)
  /\ TypeOf \in [Items -> Types] /\ NameRank \in [Items -> Nat]
  /\ \A i, j \in Items : NameRank[i] = NameRank[j] => i = j
  /\ Versions \subseteq Nat \X Nat \X Nat \X Nat
  /\ Bucket \in [Items \X Versions -> 0..99]
ASSUME BackupsAssumption == Old \in Nat /\ OwnBackups \subseteq 1..Old

\* The options of the policy, the planner, the backup manager and the client.  Of pins
\* and minimums only the items in their domains are concerned; limit 0 is none.
\* attempts: api_retry_max_attempts; validate accepts 0.
PolicyType ==
  [types : SUBSET Types, excluded : SUBSET Items, pins : UNION {[S -> Versions] : S \in SUBSET Items},
   minimums : UNION {[S -> Versions] : S \in SUBSET Items}, securityOnly : BOOLEAN,
   rollout : 0..100, strategy : {"addons_first", "core_first", "addons_last"}, limit : Nat,
   backup : BOOLEAN, retention : Nat, attempts : Nat]

ASSUME PoliciesAssumption == Policies \subseteq PolicyType

Candidate == [item : Items, current : Versions, target : Versions, security : BOOLEAN]
NoCandidate == [item |-> "none"]
NoBackup == -1
OldBackups == 1..Old

VARIABLES
  installed, latest,  \* the versions the Supervisor knows
  jobs,               \* updates the Supervisor is working on
  backups, making,    \* its backups, and those it is making
  newest,             \* the number of the backup begun last
  policy,             \* the configuration of the run
  pc,                 \* where the service loop is
  plan,               \* the candidates still to be updated
  current,            \* the candidate being updated
  attempt,            \* the attempt of the request being made
  backup,             \* the backup of the run
  surplus,            \* the old backups still to be deleted
  updated, failed,    \* the results of the run
  ended, made         \* history: the update jobs that have ended, the backups completed

server == <<installed, latest, jobs, backups, making, newest>>
results == <<updated, failed>>
vars == <<server, policy, pc, plan, current, attempt, backup, surplus, results, ended, made>>

-----------------------------------------------------------------------------
(* Versions and candidates *)

\* compare_versions: numbers first, the text when they are equal.
Above(v, w) ==
  \E n \in 1..4 : v[n] > w[n] /\ \A m \in 1..(n - 1) : v[m] = w[m]

IsPatchUpgrade(v, w) == v[1] = w[1] /\ v[2] = w[2] /\ w[3] > v[3]

\* evaluate_candidate
Allowed(p, c) ==
  /\ TypeOf[c.item] \in p.types
  /\ TypeOf[c.item] = "addon" => c.item \notin p.excluded
  /\ c.item \in DOMAIN p.pins => ~Above(c.target, p.pins[c.item])
  /\ c.item \in DOMAIN p.minimums => ~Above(p.minimums[c.item], c.target)
  /\ p.securityOnly => c.security \/ IsPatchUpgrade(c.current, c.target)
  /\ TypeOf[c.item] = "addon" => Bucket[c.item, c.target] < p.rollout

\* Mutant: core first puts all the rest after it in no order.
RankCoreOnly(strategy, type) == IF type = "core" THEN 0 ELSE 1
\* _sort_key
Rank(strategy, type) ==
  CASE strategy = "addons_first" -> [addon |-> 0, supervisor |-> 1, core |-> 2, os |-> 3][type]
    [] strategy = "core_first" -> [core |-> 0, supervisor |-> 1, addon |-> 2, os |-> 3][type]
    [] OTHER -> [supervisor |-> 0, core |-> 1, addon |-> 2, os |-> 3][type]
Precedes(p, c, d) ==
  LET first == Rank(p.strategy, TypeOf[c.item])
      second == Rank(p.strategy, TypeOf[d.item])
  IN first < second \/ (first = second /\ NameRank[c.item] < NameRank[d.item])

\* build_plan: the allowed candidates, at most limit of them, in order.
Planned(p, candidates) ==
  LET allowed == {c \in candidates : Allowed(p, c)}
  IN {c \in allowed : p.limit > 0 => Cardinality({d \in allowed : Precedes(p, d, c)}) < p.limit}

-----------------------------------------------------------------------------
(* Requests *)

At(point) == pc = point
MaxAttempts == policy.attempts
\* Mutant: attempts are not counted.
AttemptRepeats(otherwise) ==
  \/ attempt < MaxAttempts /\ UNCHANGED <<attempt, pc>>
  \/ attempt >= MaxAttempts /\ attempt' = 1 /\ pc' = otherwise
\* _request sends the same request again, MaxAttempts times in all, and raises.
AttemptFails(otherwise) ==
  \/ attempt < MaxAttempts /\ attempt' = attempt + 1 /\ pc' = pc
  \/ attempt >= MaxAttempts /\ attempt' = 1 /\ pc' = otherwise
\* With no attempts at all a request raises at once.
CanSend == attempt <= MaxAttempts
Proceed(point) == attempt' = 1 /\ pc' = point

\* refresh_updates: an endpoint that is closed to the add-on is passed over,
\* except the last.
RefreshUpdates ==
  /\ At("refresh")
  /\ \E all, reload, store \in {"ok", "restricted", "failed"} :
       LET refreshed == \/ all = "ok"
                        \/ all = "restricted" /\ reload # "failed" /\ store = "ok"
       IN Proceed(IF refreshed /\ CanSend THEN "discover" ELSE "raised")
  /\ UNCHANGED <<server, policy, plan, current, backup, surplus, results, ended, made>>

\* discover and build_plan; a read may fail.
Discover ==
  /\ At("discover")
  /\ \/ \E secure \in SUBSET Items :
          LET outdated == {i \in Items : latest[i] # installed[i]}
              candidates == {[item |-> i, current |-> installed[i], target |-> latest[i],
                              security |-> i \in secure] : i \in outdated}
          IN /\ plan' = Planned(policy, candidates)
             /\ Proceed(IF plan' = {} THEN "done" ELSE IF policy.backup THEN "backup" ELSE "update")
     \/ Proceed("raised") /\ UNCHANGED plan
  /\ UNCHANGED <<server, policy, current, backup, surplus, results, ended, made>>

-----------------------------------------------------------------------------
(* The backup *)

\* create_pre_update_backup: each time the request arrives a backup is begun.
RequestBackup ==
  /\ At("backup")
  /\ \/ /\ CanSend
        /\ newest' = newest + 1
        /\ making' = making \cup {newest'}
        /\ \/ backup' = newest' /\ Proceed("backup_job")
           \/ UNCHANGED backup /\ AttemptFails("raised")
     \/ AttemptFails("raised") /\ UNCHANGED <<making, newest, backup>>
  /\ UNCHANGED <<installed, latest, jobs, backups, policy, plan, current, surplus, results, ended, made>>

\* The Supervisor ends a backup, which may fail.
BackupEnds(b) ==
  /\ b \in making
  /\ making' = making \ {b}
  /\ \/ backups' = backups \cup {b} /\ made' = made \cup {b}
     \/ UNCHANGED <<backups, made>>
  /\ UNCHANGED <<installed, latest, jobs, newest, policy, pc, plan, current, attempt, backup, surplus,
                 results, ended>>

\* wait_for_job: the job is done, well or not, or polling fails or times out.  A
\* job that has failed may name its backup all the same.
AwaitBackup ==
  /\ At("backup_job")
  /\ \/ backup \notin making /\ Proceed("list")
     \/ Proceed("raised")
  /\ UNCHANGED <<server, policy, plan, current, backup, surplus, results, ended, made>>

\* The backups that bear the add-on's prefix.
OwnNow == {b \in backups : b \notin OldBackups \/ b \in OwnBackups}
\* Mutant: the oldest are kept.
SurplusOfNew(retention) == {b \in OwnNow : Cardinality({d \in OwnNow : d < b}) >= retention}
\* cleanup_retention: what comes after the newest of the add-on's own backups.
Surplus(retention) == {b \in OwnNow : Cardinality({d \in OwnNow : d > b}) >= retention}
ListBackups ==
  /\ At("list")
  /\ \/ policy.retention = 0 /\ Proceed("update") /\ UNCHANGED surplus
     \/ policy.retention > 0 /\ Proceed("trim") /\ surplus' = Surplus(policy.retention)
     \/ policy.retention > 0 /\ Proceed("raised") /\ UNCHANGED surplus
  /\ UNCHANGED <<server, policy, plan, current, backup, results, ended, made>>

\* delete_backup, newest first.  A deletion whose answer was lost is asked for
\* again, and the Supervisor does not know the backup any more.
DeleteBackup ==
  /\ At("trim")
  /\ \E b \in surplus :
       /\ \A d \in surplus : d <= b
       /\ \/ /\ CanSend /\ b \in backups
             /\ backups' = backups \ {b}
             /\ \/ surplus' = surplus \ {b} /\ Proceed("trim")
                \/ UNCHANGED surplus /\ AttemptFails("raised")
          \/ AttemptFails("raised") /\ UNCHANGED <<backups, surplus>>
  /\ UNCHANGED <<installed, latest, jobs, making, newest, policy, plan, current, backup, results,
                 ended, made>>

TrimIsDone ==
  /\ At("trim") /\ surplus = {}
  /\ Proceed("update")
  /\ UNCHANGED <<server, policy, plan, current, backup, surplus, results, ended, made>>

-----------------------------------------------------------------------------
(* The updates *)

BeginUpdate ==
  /\ At("update")
  /\ \E c \in plan :
       /\ \A d \in plan : ~Precedes(policy, d, c)
       /\ plan' = plan \ {c}
       /\ current' = c
  /\ Proceed("post")
  /\ UNCHANGED <<server, policy, backup, surplus, results, ended, made>>

\* Mutant: the run stops at the first item that fails.
EndRunAtFailure ==
  /\ At("update") /\ (plan = {} \/ failed # {})
  /\ Proceed("done")
  /\ UNCHANGED <<server, policy, plan, current, backup, surplus, results, ended, made>>
EndRun ==
  /\ At("update") /\ plan = {}
  /\ Proceed("done")
  /\ UNCHANGED <<server, policy, plan, current, backup, surplus, results, ended, made>>

\* The notification sent before an item's update goes to a webhook and raises.
NotificationRaises ==
  /\ At("update") /\ plan # {}
  /\ Proceed("raised")
  /\ UNCHANGED <<server, policy, plan, current, backup, surplus, results, ended, made>>

\* Mutant: no version is named.
LatestAsked(c) == latest[c.item]
\* update_core, update_supervisor and update_os name the version; update_addon
\* leaves it to the Supervisor.
VersionAsked(c) == IF TypeOf[c.item] = "addon" THEN latest[c.item] ELSE c.target
Job(c, n) == [item |-> c.item, version |-> VersionAsked(c), n |-> n]

\* Each time the request arrives an update is begun.  Its job may be over by the
\* time of the answer, which then names none.
RequestUpdate ==
  /\ At("post")
  /\ \/ /\ CanSend
        /\ jobs' = jobs \cup {Job(current, attempt)}
        /\ \/ pc' = "job" /\ UNCHANGED attempt
           \/ AttemptFails("item_failed")
     \/ AttemptFails("item_failed") /\ UNCHANGED jobs
  /\ UNCHANGED <<installed, latest, backups, making, newest, policy, plan, current, backup, surplus,
                 results, ended, made>>

\* The Supervisor ends an update, well or not.
UpdateEnds(j) ==
  /\ j \in jobs
  /\ jobs' = jobs \ {j}
  /\ ended' = ended \cup {j}
  /\ installed' \in {installed, [installed EXCEPT ![j.item] = j.version]}
  /\ UNCHANGED <<latest, backups, making, newest, policy, pc, plan, current, attempt, backup, surplus,
                 results, made>>

Answered == {j \in jobs \cup ended : j.item = current.item /\ j.n = attempt}
\* Mutant: a wait that times out is a success.
AwaitUpdateOrTimeout ==
  /\ At("job")
  /\ Proceed("health") \/ Proceed("item_failed")
  /\ UNCHANGED <<server, policy, plan, current, backup, surplus, results, ended, made>>
\* wait_for_job again: the errors of a job are not looked at.
AwaitUpdate ==
  /\ At("job")
  /\ \/ Answered \cap jobs = {} /\ Proceed("health")
     \/ Proceed("item_failed")
  /\ UNCHANGED <<server, policy, plan, current, backup, surplus, results, ended, made>>

\* _verify_health: the Supervisor answers and Home Assistant is running.
VerifyHealth ==
  /\ At("health")
  /\ \/ updated' = updated \cup {current.item} /\ Proceed("update") /\ UNCHANGED failed
     \/ Proceed("item_failed") /\ UNCHANGED results
  /\ UNCHANGED <<server, policy, plan, current, backup, surplus, ended, made>>

UpdateFailed ==
  /\ At("item_failed")
  /\ failed' = failed \cup {current.item}
  /\ Proceed("update")
  /\ UNCHANGED <<server, policy, plan, current, backup, surplus, updated, ended, made>>

-----------------------------------------------------------------------------
\* A new version of an item is released.
Release(i, v) ==
  /\ Above(v, latest[i])
  /\ latest' = [latest EXCEPT ![i] = v]
  /\ UNCHANGED <<installed, jobs, backups, making, newest, policy, pc, plan, current, attempt, backup,
                 surplus, results, ended, made>>

Init ==
  /\ installed \in [Items -> Versions] /\ latest = installed
  /\ jobs = {} /\ backups = OldBackups /\ making = {} /\ newest = Old
  /\ policy \in Policies
  /\ pc = "refresh" /\ plan = {} /\ current = NoCandidate /\ attempt = 1
  /\ backup = NoBackup /\ surplus = {}
  /\ updated = {} /\ failed = {} /\ ended = {} /\ made = {}

Loop ==
  \/ RefreshUpdates \/ Discover
  \/ RequestBackup \/ AwaitBackup \/ ListBackups \/ DeleteBackup \/ TrimIsDone
  \/ BeginUpdate \/ RequestUpdate \/ AwaitUpdate \/ VerifyHealth \/ UpdateFailed \/ EndRun
  \/ NotificationRaises

Next ==
  \/ Loop
  \/ \E b \in making : BackupEnds(b)
  \/ \E j \in jobs : UpdateEnds(j)
  \/ \E i \in Items, v \in Versions : Release(i, v)

Spec == Init /\ [][Next]_vars
\* Every request and every wait has a timeout.
FairSpec == Spec /\ WF_vars(Loop)

-----------------------------------------------------------------------------
(* Properties *)

\* What the Supervisor has been asked to update, done or not.
Asked == jobs \cup ended

\* No update but an add-on's leads past a pin or below a minimum, whatever has been
\* released since the discovery and however often the request is repeated.
NoVersionBeyondPolicy ==
  \A j \in Asked :
    TypeOf[j.item] # "addon" =>
      /\ j.item \in DOMAIN policy.pins => ~Above(j.version, policy.pins[j.item])
      /\ j.item \in DOMAIN policy.minimums => ~Above(policy.minimums[j.item], j.version)

\* Under a policy with backups no update is asked for before the run's backup has
\* come to its end, and if that was a good one it outlives the trimming, however
\* many backups the repeated requests have made.  Backups that are not the
\* add-on's are never deleted.
BackupIsKept ==
  /\ policy.backup /\ (Asked # {} \/ updated # {}) =>
       backup # NoBackup /\ backup \notin making /\ (backup \in made => backup \in backups)
  /\ OldBackups \ OwnBackups \subseteq backups

\* The operating system comes last: once its update has been asked for, no other
\* item is asked for, under every strategy.
OsIsLast ==
  [][\A j \in jobs' \ jobs : \A k \in Asked : TypeOf[k.item] = "os" => TypeOf[j.item] = "os"]_vars

\* An item counts as updated only if the Supervisor has ended a job for it.
UpdatedWasDone == \A i \in updated : \E j \in ended : j.item = i

\* What is left of a run: of its way, the candidates, the backups to be deleted, of
\* the way of an item, and the attempts of the request.
WayLeft == [refresh |-> 7, discover |-> 6, backup |-> 5, backup_job |-> 4, list |-> 3, trim |-> 2,
            update |-> 1, post |-> 1, job |-> 1, health |-> 1, item_failed |-> 1, done |-> 0, raised |-> 0]
ItemWayLeft == CASE pc = "post" -> 4 [] pc = "job" -> 3 [] pc = "health" -> 2 [] pc = "item_failed" -> 1
                 [] OTHER -> 0
Remaining ==
  <<WayLeft[pc], Cardinality(plan), Cardinality(surplus), ItemWayLeft,
    IF attempt < MaxAttempts THEN MaxAttempts - attempt ELSE 0>>
\* The first part in which they differ decides.
Less(r, s) == \E n \in 1..5 : r[n] < s[n] /\ \A m \in 1..(n - 1) : r[m] = s[m]

\* Each step of the service loop leaves less of the run, lost answers, repeated
\* requests and failed items included.
RunAdvances == [][Loop => Less(Remaining', Remaining)]_vars

\* Every run comes to its end, whatever the Supervisor leaves unanswered.
RunEnds == <>(pc \in {"done", "raised"})

\* The run as RunAccount sees it, which RunLifecycle implements too: it has a job from
\* the plan to its results, unless the plan is empty.
Updating == pc \in {"post", "job", "health", "item_failed"}
Phase == IF pc \in {"refresh", "discover"} \/ (pc = "done" /\ updated \cup failed = {}) THEN "none"
         ELSE IF pc \in {"done", "raised"} THEN "ended" ELSE "running"
Active == IF Updating THEN {current.item} ELSE {}
Waiting == {c.item : c \in plan}
InRun(S) == IF Phase = "running" THEN S ELSE {}

Account == INSTANCE RunAccount WITH
  up <- TRUE, phase <- Phase, mode <- IF Phase = "running" THEN "install" ELSE "none",
  items <- InRun(Waiting \cup Active \cup updated \cup failed),
  rest <- InRun(Waiting), active <- Active,
  asked <- IF pc = "done" THEN {} ELSE Active \cup updated \cup failed,
  unsettled <- IF pc = "done" THEN failed ELSE {}, owed <- {},
  last <- IF Phase # "ended" THEN "none" ELSE IF pc = "raised" THEN "failed"
          ELSE IF failed = {} THEN "success" ELSE IF updated = {} THEN "failed" ELSE "partial"

\* Request by request, with lost answers and jobs that end when they like, a run keeps
\* the account that a run in few steps keeps: each item of the plan is updated once, by
\* itself, and has one result when the run ends, unless an exception breaks it off.
ActsAsAccount == Account!AccountSpec
=============================================================================
