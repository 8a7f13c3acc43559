------------------------ MODULE UpdateRequestsProofs ------------------------
(***************************************************************************)
(* Proofs about UpdateRequests for any items, versions, policies, backups  *)
(* and number of attempts: what a run asks for stays within its policy,    *)
(* comes after its backup and in order, and counts only when it was done.  *)
(***************************************************************************)
EXTENDS UpdateRequests, FiniteSetTheorems, TLAPS

-----------------------------------------------------------------------------
(* The inductive invariant *)

Early == {"refresh", "discover", "backup", "backup_job", "list", "trim"}
ItemPoints == {"post", "job", "health", "item_failed"}
Points == Early \cup ItemPoints \cup {"update", "done", "raised"}
\* The candidates that may still be asked for.
Ahead == plan \cup (IF pc \in ItemPoints THEN {current} ELSE {})

TypeInv ==
  /\ latest \in [Items -> Versions] /\ installed \in [Items -> Versions]
  /\ policy \in PolicyType
  /\ pc \in Points
  /\ Ahead \subseteq Candidate
  /\ \A j \in Asked : j.item \in Items /\ j.version \in Versions

Respects(item, version) ==
  TypeOf[item] # "addon" =>
    /\ item \in DOMAIN policy.pins => ~Above(version, policy.pins[item])
    /\ item \in DOMAIN policy.minimums => ~Above(policy.minimums[item], version)
VersionInv ==
  /\ \A c \in Ahead : Respects(c.item, c.target)
  /\ \A j \in Asked : Respects(j.item, j.version)

\* Once the operating system is at hand nothing else is left.
OrderInv ==
  /\ pc \in ItemPoints /\ TypeOf[current.item] = "os" => \A c \in plan : TypeOf[c.item] = "os"
  /\ \A k \in Asked : TypeOf[k.item] = "os" => \A c \in Ahead : TypeOf[c.item] = "os"

DoneInv ==
  /\ pc = "job" => \E j \in Asked : j.item = current.item /\ j.n = attempt
  /\ pc = "health" => \E j \in ended : j.item = current.item
  /\ UpdatedWasDone

\* The run's backup is the newest of all, and nothing has become of it but good.
BackupIsNewest ==
  backup = newest /\ backup > Old /\ (backup \in made => backup \in backups)
BackupInv ==
  /\ newest \in Nat /\ newest >= Old
  /\ \A b \in making \cup backups \cup made : b \in Nat /\ b <= newest
  /\ OldBackups \ OwnBackups \subseteq backups
  /\ pc \in Early => Asked = {} /\ updated = {}
  /\ pc = "backup_job" => BackupIsNewest
  /\ pc \in {"list", "trim"} => BackupIsNewest /\ backup \notin making
  /\ policy.backup /\ (pc \in ItemPoints \cup {"update"} \/ Asked # {} \/ updated # {}) =>
       BackupIsNewest /\ backup \notin making
  /\ surplus \cap (OldBackups \ OwnBackups) = {}
  /\ pc = "trim" => backup \notin surplus

-----------------------------------------------------------------------------
(* Order *)

\* Nothing ranks after the operating system, and only itself with it.
LEMMA OsRanksLast ==
  ASSUME NEW strategy \in {"addons_first", "core_first", "addons_last"}, NEW type \in Types
  PROVE  /\ Rank(strategy, type) \in 0..3
         /\ Rank(strategy, type) = 3 <=> type = "os"
<1>1. CASE strategy = "addons_first"
  BY <1>1 DEF Rank, Types
<1>2. CASE strategy = "core_first"
  BY <1>2 DEF Rank, Types
<1>3. CASE strategy = "addons_last"
  BY <1>3 DEF Rank, Types
<1>. QED
  BY <1>1, <1>2, <1>3

\* So every other candidate precedes it.
LEMMA OthersPrecedeOs ==
  ASSUME NEW p \in PolicyType, NEW c \in Candidate, NEW d \in Candidate,
         TypeOf[c.item] # "os", TypeOf[d.item] = "os"
  PROVE  Precedes(p, c, d)
<1>1. TypeOf[c.item] \in Types /\ TypeOf[d.item] \in Types
  BY ItemsAssumption DEF Candidate
<1>2. p.strategy \in {"addons_first", "core_first", "addons_last"}
  BY DEF PolicyType
<1>3. /\ Rank(p.strategy, TypeOf[c.item]) \in 0..3 /\ Rank(p.strategy, TypeOf[c.item]) # 3
      /\ Rank(p.strategy, TypeOf[d.item]) = 3
  BY <1>1, <1>2, OsRanksLast
<1>. QED
  BY <1>3 DEF Precedes

-----------------------------------------------------------------------------
(* Steps *)

\* What every step leaves alone, and where it can lead.
LEMMA PolicyStays ==
  ASSUME Next
  PROVE  policy' = policy
BY DEF Next, Loop, RefreshUpdates, Discover, RequestBackup, AwaitBackup, ListBackups, DeleteBackup,
       TrimIsDone, BeginUpdate, RequestUpdate, AwaitUpdate, VerifyHealth, UpdateFailed, EndRun, NotificationRaises,
       BackupEnds, UpdateEnds, Release, server, results

\* Only three actions change what has been asked for or what is ahead.
Others ==
  \/ RefreshUpdates \/ RequestBackup \/ AwaitBackup \/ ListBackups \/ DeleteBackup \/ TrimIsDone
  \/ AwaitUpdate \/ VerifyHealth \/ UpdateFailed \/ EndRun \/ NotificationRaises
  \/ \E b \in making : BackupEnds(b)
  \/ \E i \in Items, v \in Versions : Release(i, v)
LEMMA OthersKeep ==
  ASSUME Others, pc \in Points
  PROVE  /\ UNCHANGED <<plan, current, jobs, ended, installed>>
         /\ pc' \in Points
         /\ pc' \in ItemPoints => pc \in ItemPoints
<1>1. CASE RefreshUpdates
  BY <1>1 DEF RefreshUpdates, Proceed, server, Points, Early, ItemPoints
<1>2. CASE RequestBackup
  BY <1>2 DEF RequestBackup, Proceed, AttemptFails, At, server, Points, Early, ItemPoints
<1>3. CASE AwaitBackup
  BY <1>3 DEF AwaitBackup, Proceed, server, Points, Early, ItemPoints
<1>4. CASE ListBackups
  BY <1>4 DEF ListBackups, Proceed, server, Points, Early, ItemPoints
<1>5. CASE DeleteBackup
  BY <1>5 DEF DeleteBackup, Proceed, AttemptFails, At, server, Points, Early, ItemPoints
<1>6. CASE TrimIsDone
  BY <1>6 DEF TrimIsDone, Proceed, server, Points, Early, ItemPoints
<1>7. CASE AwaitUpdate
  BY <1>7 DEF AwaitUpdate, Proceed, At, server, Points, Early, ItemPoints
<1>8. CASE VerifyHealth
  BY <1>8 DEF VerifyHealth, Proceed, At, server, Points, Early, ItemPoints
<1>9. CASE UpdateFailed
  BY <1>9 DEF UpdateFailed, Proceed, server, Points, Early, ItemPoints
<1>10. CASE EndRun \/ NotificationRaises
  BY <1>10 DEF EndRun, NotificationRaises, Proceed, server, Points, Early, ItemPoints
<1>11. ASSUME NEW b \in making, BackupEnds(b)
       PROVE  /\ UNCHANGED <<plan, current, jobs, ended, installed>>
              /\ pc' = pc
  BY <1>11 DEF BackupEnds
<1>12. ASSUME NEW i \in Items, NEW v \in Versions, Release(i, v)
       PROVE  /\ UNCHANGED <<plan, current, jobs, ended, installed>>
              /\ pc' = pc
  BY <1>12 DEF Release
<1>. QED
  BY <1>1, <1>2, <1>3, <1>4, <1>5, <1>6, <1>7, <1>8, <1>9, <1>10, <1>11, <1>12 DEF Others

LEMMA NextCases ==
  ASSUME Next
  PROVE  \/ Others \/ Discover \/ BeginUpdate \/ RequestUpdate \/ \E j \in jobs : UpdateEnds(j)
BY DEF Next, Loop, Others

\* What is ahead after each of the steps.
LEMMA OthersAhead ==
  ASSUME Others, pc \in Points
  PROVE  Ahead' \subseteq Ahead
BY OthersKeep DEF Ahead

\* The candidates there are at a discovery.
Candidates(secure) ==
  {[item |-> i, current |-> installed[i], target |-> latest[i], security |-> i \in secure] :
     i \in {j \in Items : latest[j] # installed[j]}}

LEMMA DiscoverAhead ==
  ASSUME TypeInv, Discover
  PROVE  /\ pc' \in Points /\ Ahead' = plan'
         /\ \A c \in plan' : (c \in Candidate /\ Allowed(policy, c)) \/ c \in plan
         /\ pc' # "raised" => \A c \in plan' : c \in Candidate /\ Allowed(policy, c)
         /\ UNCHANGED <<latest, installed, jobs, ended>>
<1>1. PICK secure \in SUBSET Items :
        \/ plan' = Planned(policy, Candidates(secure)) /\ pc' \in {"done", "backup", "update"}
        \/ plan' = plan /\ pc' = "raised"
  BY DEF Discover, Candidates, Proceed
<1>2. Candidates(secure) \subseteq Candidate
  <2>1. ASSUME NEW i \in Items
        PROVE  [item |-> i, current |-> installed[i], target |-> latest[i],
                security |-> i \in secure] \in Candidate
    <3>1. installed[i] \in Versions /\ latest[i] \in Versions
      BY DEF TypeInv
    <3>2. (i \in secure) \in BOOLEAN
      OBVIOUS
    <3>. QED
      BY <3>1, <3>2, Zenon DEF Candidate
  <2>. QED
    BY <2>1, Zenon DEF Candidates
<1>3. Planned(policy, Candidates(secure)) \subseteq {c \in Candidates(secure) : Allowed(policy, c)}
  BY DEF Planned
<1>4. pc' \in Points \ ItemPoints
  BY <1>1 DEF Points, Early, ItemPoints
<1>5. UNCHANGED <<latest, installed, jobs, ended>>
  BY DEF Discover, server
<1>. QED
  BY <1>1, <1>2, <1>3, <1>4, <1>5 DEF Ahead

LEMMA BeginUpdateAhead ==
  ASSUME BeginUpdate
  PROVE  /\ pc = "update" /\ pc' = "post"
         /\ current' \in plan /\ plan' = plan \ {current'}
         /\ Ahead' = plan /\ Ahead = plan
         /\ \A d \in plan : ~Precedes(policy, d, current')
         /\ UNCHANGED <<latest, installed, jobs, ended>>
<1>1. /\ pc = "update" /\ pc' = "post" /\ current' \in plan /\ plan' = plan \ {current'}
      /\ \A d \in plan : ~Precedes(policy, d, current')
  BY DEF BeginUpdate, Proceed, At
<1>2. Ahead' = plan /\ Ahead = plan
  BY <1>1 DEF Ahead, ItemPoints
<1>. QED
  BY <1>1, <1>2 DEF BeginUpdate, server

LEMMA RequestUpdateAhead ==
  ASSUME RequestUpdate
  PROVE  /\ pc = "post" /\ pc' \in ItemPoints
         /\ plan' = plan /\ current' = current /\ Ahead' = Ahead
         /\ jobs' \in {jobs, jobs \cup {Job(current, attempt)}}
         /\ UNCHANGED <<latest, installed, ended>>
<1>1. pc = "post" /\ pc' \in {"post", "job", "item_failed"}
  BY DEF RequestUpdate, AttemptFails, At
<1>2. plan' = plan /\ current' = current
  BY DEF RequestUpdate
<1>3. pc \in ItemPoints /\ pc' \in ItemPoints
  BY <1>1 DEF ItemPoints
<1>4. Ahead' = Ahead
  BY <1>2, <1>3 DEF Ahead
<1>5. jobs' \in {jobs, jobs \cup {Job(current, attempt)}}
  BY DEF RequestUpdate
<1>. QED
  BY <1>1, <1>2, <1>3, <1>4, <1>5 DEF RequestUpdate

LEMMA UpdateEndsAhead ==
  ASSUME NEW j \in jobs, UpdateEnds(j)
  PROVE  /\ jobs' = jobs \ {j} /\ ended' = ended \cup {j} /\ Asked' = Asked
         /\ Ahead' = Ahead
         /\ UNCHANGED <<latest, plan, current, pc, attempt, updated>>
<1>1. /\ jobs' = jobs \ {j} /\ ended' = ended \cup {j}
      /\ UNCHANGED <<latest, plan, current, pc, attempt, updated>>
  BY DEF UpdateEnds, results
<1>. QED
  BY <1>1 DEF Asked, Ahead

\* What has been asked for: the job of a request is the only one to join.
LEMMA AskedGrows ==
  ASSUME TypeInv, Next
  PROVE  \/ Asked' = Asked
         \/ RequestUpdate /\ Asked' = Asked \cup {Job(current, attempt)}
<1>0. pc \in Points
  BY DEF TypeInv
<1>1. CASE Others
  BY <1>0, <1>1, OthersKeep DEF Asked
<1>2. CASE Discover
  BY <1>2, DiscoverAhead DEF Asked
<1>3. CASE BeginUpdate
  BY <1>3, BeginUpdateAhead DEF Asked
<1>4. CASE RequestUpdate
  BY <1>4, RequestUpdateAhead DEF Asked
<1>5. ASSUME NEW j \in jobs, UpdateEnds(j)
      PROVE  Asked' = Asked
  BY <1>5, UpdateEndsAhead
<1>. QED
  BY <1>1, <1>2, <1>3, <1>4, <1>5, NextCases

LEMMA CurrentIsCandidate ==
  ASSUME TypeInv, RequestUpdate
  PROVE  /\ current \in Ahead /\ current \in Candidate
         /\ current.item \in Items /\ current.target \in Versions
         /\ TypeOf[current.item] \in Types
         /\ Job(current, attempt) =
              [item |-> current.item, version |-> VersionAsked(current), n |-> attempt]
         /\ VersionAsked(current) \in Versions
<1>1. current \in Ahead
  BY RequestUpdateAhead DEF Ahead, ItemPoints
<1>2. current \in Candidate
  BY <1>1 DEF TypeInv
<1>3. current.item \in Items /\ current.target \in Versions
  BY <1>2 DEF Candidate
<1>4. TypeOf[current.item] \in Types
  BY <1>3, ItemsAssumption
<1>5. VersionAsked(current) \in Versions
  BY <1>3 DEF VersionAsked, TypeInv
<1>. QED
  BY <1>1, <1>2, <1>3, <1>4, <1>5 DEF Job

LEMMA TypeStep ==
  ASSUME TypeInv, Next
  PROVE  TypeInv'
<1>0. /\ pc \in Points /\ policy' = policy /\ policy \in PolicyType
      /\ latest \in [Items -> Versions] /\ installed \in [Items -> Versions]
      /\ Ahead \subseteq Candidate
  BY PolicyStays DEF TypeInv
<1>1. \A j \in Asked' : j.item \in Items /\ j.version \in Versions
  <2>1. CASE Asked' = Asked
    BY <2>1 DEF TypeInv
  <2>2. CASE RequestUpdate /\ Asked' = Asked \cup {Job(current, attempt)}
    <3>1. Job(current, attempt).item \in Items /\ Job(current, attempt).version \in Versions
      BY <2>2, CurrentIsCandidate
    <3>. QED
      BY <2>2, <3>1 DEF TypeInv
  <2>. QED
    BY <2>1, <2>2, AskedGrows
<1>2. SUFFICES /\ latest' \in [Items -> Versions] /\ installed' \in [Items -> Versions]
               /\ pc' \in Points
               /\ Ahead' \subseteq Candidate
  BY <1>0, <1>1 DEF TypeInv
<1>3. CASE Others
  <2>1. latest' \in [Items -> Versions]
    BY <1>0, <1>3 DEF Others, RefreshUpdates, RequestBackup, AwaitBackup, ListBackups,
                      DeleteBackup, TrimIsDone, AwaitUpdate, VerifyHealth, UpdateFailed, EndRun, NotificationRaises,
                      BackupEnds, Release, server
  <2>. QED
    BY <1>0, <1>3, <2>1, OthersKeep, OthersAhead
<1>4. CASE Discover
  <2>1. \A c \in Ahead' : c \in Candidate
    BY <1>0, <1>4, DiscoverAhead DEF Ahead
  <2>. QED
    BY <1>0, <1>4, <2>1, DiscoverAhead
<1>5. CASE BeginUpdate
  BY <1>0, <1>5, BeginUpdateAhead DEF Points, ItemPoints
<1>6. CASE RequestUpdate
  BY <1>0, <1>6, RequestUpdateAhead DEF Points
<1>7. ASSUME NEW j \in jobs, UpdateEnds(j)
      PROVE  /\ latest' \in [Items -> Versions] /\ installed' \in [Items -> Versions]
             /\ pc' \in Points
             /\ Ahead' \subseteq Candidate
  <2>1. j.item \in Items /\ j.version \in Versions
    BY DEF TypeInv, Asked
  <2>2. installed' \in [Items -> Versions]
    BY <1>0, <1>7, <2>1 DEF UpdateEnds
  <2>. QED
    BY <1>0, <1>7, <2>2, UpdateEndsAhead
<1>. QED
  BY <1>3, <1>4, <1>5, <1>6, <1>7, NextCases

LEMMA AllowedRespects ==
  ASSUME NEW c \in Candidate, Allowed(policy, c)
  PROVE  Respects(c.item, c.target)
BY DEF Allowed, Respects

LEMMA VersionStep ==
  ASSUME TypeInv, VersionInv, Next
  PROVE  VersionInv'
<1>0. pc \in Points /\ policy' = policy
  BY PolicyStays DEF TypeInv
<1>1. ASSUME NEW item, NEW version
      PROVE  Respects(item, version)' <=> Respects(item, version)
  BY <1>0 DEF Respects, Above
<1>2. ASSUME NEW j \in Asked'
      PROVE  Respects(j.item, j.version)
  <2>1. CASE j \in Asked
    BY <2>1 DEF VersionInv
  <2>2. CASE j \notin Asked
    <3>1. RequestUpdate /\ j = Job(current, attempt)
      BY <1>2, <2>2, AskedGrows
    <3>2. j.item = current.item /\ j.version = VersionAsked(current) /\ current \in Ahead
      BY <3>1, CurrentIsCandidate
    <3>3. Respects(current.item, current.target)
      BY <3>2 DEF VersionInv
    <3>. QED
      BY <3>2, <3>3 DEF VersionAsked, Respects
  <2>. QED
    BY <2>1, <2>2
<1>3. ASSUME NEW c \in Ahead'
      PROVE  Respects(c.item, c.target)
  <2>1. CASE c \in Ahead
    BY <2>1 DEF VersionInv
  <2>2. CASE c \notin Ahead
    <3>1. Discover
      BY <1>0, <1>3, <2>2, NextCases, OthersAhead, BeginUpdateAhead, RequestUpdateAhead, UpdateEndsAhead
    <3>2. c \in Candidate /\ Allowed(policy, c)
      BY <1>3, <2>2, <3>1, DiscoverAhead DEF Ahead
    <3>. QED
      BY <3>2, AllowedRespects
  <2>. QED
    BY <2>1, <2>2
<1>. QED
  BY <1>1, <1>2, <1>3 DEF VersionInv

LEMMA OrderStep ==
  ASSUME TypeInv, OrderInv, Next,
         pc \in Early => Asked = {}
  PROVE  OrderInv'
<1>0. pc \in Points /\ policy \in PolicyType /\ Ahead \subseteq Candidate
  BY DEF TypeInv
<1>1. CASE Others
  <2>1. /\ plan' = plan /\ current' = current /\ Ahead' \subseteq Ahead
        /\ pc' \in ItemPoints => pc \in ItemPoints
        /\ Asked' = Asked
    BY <1>0, <1>1, OthersKeep, OthersAhead DEF Asked
  <2>. QED
    BY <2>1 DEF OrderInv
<1>2. CASE Discover
  <2>1. pc = "discover" /\ pc' \notin ItemPoints /\ Asked' = Asked
    <3>1. pc = "discover" /\ pc' \in {"done", "backup", "update", "raised"}
      BY <1>2 DEF Discover, Proceed, At
    <3>. QED
      BY <1>2, <3>1, DiscoverAhead DEF Asked, ItemPoints
  <2>2. Asked' = {}
    BY <2>1 DEF Early
  <2>. QED
    BY <2>1, <2>2 DEF OrderInv
<1>3. CASE BeginUpdate
  <2>1. /\ current' \in plan /\ plan' = plan \ {current'} /\ Ahead' = plan /\ Ahead = plan
        /\ \A d \in plan : ~Precedes(policy, d, current')
        /\ Asked' = Asked
    BY <1>3, BeginUpdateAhead DEF Asked
  <2>2. TypeOf[current'.item] = "os" => \A c \in plan : TypeOf[c.item] = "os"
    BY <1>0, <2>1, OthersPrecedeOs
  <2>3. \A k \in Asked' : TypeOf[k.item] = "os" => \A c \in Ahead' : TypeOf[c.item] = "os"
    BY <2>1 DEF OrderInv
  <2>. QED
    BY <2>1, <2>2, <2>3 DEF OrderInv
<1>4. CASE RequestUpdate
  <2>1. /\ pc = "post" /\ plan' = plan /\ current' = current /\ Ahead' = Ahead
        /\ pc \in ItemPoints
    BY <1>4, RequestUpdateAhead DEF ItemPoints
  <2>2. Asked' = Asked \/ Asked' = Asked \cup {Job(current, attempt)}
    BY AskedGrows
  <2>3. Ahead = plan \cup {current}
    BY <2>1 DEF Ahead
  <2>4. Job(current, attempt).item = current.item
    BY <1>4, CurrentIsCandidate
  <2>5. TypeOf[current.item] = "os" => \A c \in Ahead : TypeOf[c.item] = "os"
    BY <2>1, <2>3 DEF OrderInv
  <2>. QED
    BY <2>1, <2>2, <2>4, <2>5 DEF OrderInv
<1>5. ASSUME NEW j \in jobs, UpdateEnds(j)
      PROVE  OrderInv'
  BY <1>5, UpdateEndsAhead DEF OrderInv
<1>. QED
  BY <1>1, <1>2, <1>3, <1>4, <1>5, NextCases

\* A step that asks for another item than the operating system finds its job
\* not yet among those asked for.
LEMMA OsLastStep ==
  ASSUME TypeInv, OrderInv, Next, NEW j \in jobs' \ jobs, NEW k \in Asked, TypeOf[k.item] = "os"
  PROVE  TypeOf[j.item] = "os"
<1>0. pc \in Points
  BY DEF TypeInv
<1>1. RequestUpdate
  BY <1>0, NextCases, OthersKeep, DiscoverAhead, BeginUpdateAhead, UpdateEndsAhead
<1>2. j = Job(current, attempt)
  BY <1>1, RequestUpdateAhead
<1>3. j.item = current.item /\ current \in Ahead
  BY <1>1, <1>2, CurrentIsCandidate
<1>. QED
  BY <1>3 DEF OrderInv

LEMMA DoneStep ==
  ASSUME TypeInv, DoneInv, Next
  PROVE  DoneInv'
<1>0. pc \in Points
  BY DEF TypeInv
<1>1. CASE Others
  <2>1. current' = current /\ jobs' = jobs /\ ended' = ended /\ Asked' = Asked
    BY <1>0, <1>1, OthersKeep DEF Asked
  <2>2. CASE AwaitUpdate
    <3>1. /\ pc = "job" /\ updated' = updated
          /\ pc' = "item_failed" \/ (pc' = "health" /\ Answered \cap jobs = {})
      BY <2>2 DEF AwaitUpdate, Proceed, At, results
    <3>2. PICK j \in Asked : j.item = current.item /\ j.n = attempt
      BY <3>1 DEF DoneInv
    <3>3. pc' = "health" => j \in ended
      BY <3>1, <3>2 DEF Answered, Asked
    <3>. QED
      BY <2>1, <3>1, <3>2, <3>3 DEF DoneInv, UpdatedWasDone
  <2>3. CASE VerifyHealth
    BY <2>1, <2>3 DEF VerifyHealth, Proceed, At, results, DoneInv, UpdatedWasDone
  <2>4. CASE Others /\ ~AwaitUpdate /\ ~VerifyHealth
    <3>2. updated' = updated /\ (pc' \in {"job", "health"} => pc' = pc /\ attempt' = attempt)
      BY <1>0, <2>4 DEF Others, RefreshUpdates, RequestBackup, AwaitBackup, ListBackups, DeleteBackup,
                  TrimIsDone, UpdateFailed, EndRun, NotificationRaises, BackupEnds, Release, Proceed, AttemptFails, At, results
    <3>. QED
      BY <2>1, <3>2 DEF DoneInv, UpdatedWasDone
  <2>. QED
    BY <1>1, <2>2, <2>3, <2>4
<1>2. CASE Discover
  <2>1. updated' = updated /\ ended' = ended /\ pc' \in {"done", "backup", "update", "raised"}
    BY <1>2 DEF Discover, Proceed, results
  <2>. QED
    BY <2>1 DEF DoneInv, UpdatedWasDone
<1>3. CASE BeginUpdate
  BY <1>3 DEF BeginUpdate, Proceed, results, DoneInv, UpdatedWasDone
<1>4. CASE RequestUpdate
  <2>1. /\ updated' = updated /\ ended' = ended /\ current' = current
        /\ pc' \in {"post", "item_failed"}
           \/ (pc' = "job" /\ attempt' = attempt /\ jobs' = jobs \cup {Job(current, attempt)})
    BY <1>4 DEF RequestUpdate, AttemptFails, At, results
  <2>2. Job(current, attempt).item = current.item /\ Job(current, attempt).n = attempt
    BY <1>4, CurrentIsCandidate
  <2>. QED
    BY <2>1, <2>2 DEF DoneInv, UpdatedWasDone, Asked
<1>5. ASSUME NEW j \in jobs, UpdateEnds(j)
      PROVE  DoneInv'
  <2>1. UNCHANGED <<pc, current, attempt, updated>> /\ Asked' = Asked /\ ended' = ended \cup {j}
    BY <1>5, UpdateEndsAhead
  <2>. QED
    BY <2>1 DEF DoneInv, UpdatedWasDone
<1>. QED
  BY <1>1, <1>2, <1>3, <1>4, <1>5, NextCases

-----------------------------------------------------------------------------
(* The backup *)

\* What a step leaves alone when it is about anything but backups.
LEMMA BackupsAside ==
  ASSUME Next, ~RequestBackup, ~AwaitBackup, ~ListBackups, ~DeleteBackup,
         \A b \in making : ~BackupEnds(b)
  PROVE  UNCHANGED <<newest, making, backups, made, backup, surplus>>
BY DEF Next, Loop, RefreshUpdates, Discover, TrimIsDone, BeginUpdate, RequestUpdate, AwaitUpdate,
       VerifyHealth, UpdateFailed, EndRun, NotificationRaises, UpdateEnds, Release, server

\* The newest of the backups is not among those that are too many.
LEMMA NewestIsNoSurplus ==
  ASSUME BackupInv, BackupIsNewest, NEW retention \in Nat, retention > 0
  PROVE  /\ backup \notin Surplus(retention)
         /\ Surplus(retention) \cap (OldBackups \ OwnBackups) = {}
<1>1. {d \in OwnNow : d > backup} = {}
  BY DEF BackupInv, BackupIsNewest, OwnNow
<1>2. Cardinality({d \in OwnNow : d > backup}) = 0
  BY <1>1, FS_EmptySet
<1>3. backup \notin Surplus(retention)
  <2>1. SUFFICES ASSUME backup \in Surplus(retention) PROVE FALSE
    OBVIOUS
  <2>2. Cardinality({d \in OwnNow : d > backup}) >= retention
    BY <2>1 DEF Surplus
  <2>. QED
    BY <1>2, <2>2
<1>4. Surplus(retention) \cap (OldBackups \ OwnBackups) = {}
  BY Zenon DEF Surplus, OwnNow
<1>. QED
  BY <1>3, <1>4

LEMMA BackupStep ==
  ASSUME TypeInv, BackupInv, Next
  PROVE  BackupInv'
<1>0. pc \in Points /\ policy' = policy /\ policy.retention \in Nat
  BY PolicyStays DEF TypeInv, PolicyType
<1>1. CASE RequestBackup
  <2>1. PICK n \in Nat : n = newest + 1
    BY DEF BackupInv
  <2>2. /\ pc = "backup" /\ UNCHANGED <<backups, made, surplus, updated>> /\ Asked' = Asked
        /\ \/ /\ newest' = n /\ making' = making \cup {n}
              /\ \/ backup' = n /\ pc' = "backup_job"
                 \/ backup' = backup /\ pc' \in {"backup", "raised"}
           \/ UNCHANGED <<newest, making, backup>> /\ pc' \in {"backup", "raised"}
    BY <1>1, <2>1 DEF RequestBackup, Proceed, AttemptFails, At, Asked, results
  <2>3. n \notin made /\ n > Old /\ Old \in Nat
    BY <2>1, BackupsAssumption DEF BackupInv
  <2>4. Asked = {} /\ updated = {}
    BY <2>2 DEF BackupInv, Early
  <2>5. newest' \in Nat /\ newest' >= Old /\ \A b \in making' \cup backups' \cup made' : b \in Nat /\ b <= newest'
    BY <2>1, <2>2, <2>3 DEF BackupInv
  <2>6. pc' \in {"backup", "backup_job", "raised"} /\ (pc' = "backup_job" => BackupIsNewest')
    BY <2>2, <2>3 DEF BackupIsNewest
  <2>. QED
    BY <2>2, <2>4, <2>5, <2>6 DEF BackupInv, ItemPoints, OldBackups
<1>2. ASSUME NEW b \in making, BackupEnds(b)
      PROVE  BackupInv'
  <2>1. /\ making' = making \ {b} /\ UNCHANGED <<newest, pc, backup, surplus, updated>> /\ Asked' = Asked
        /\ \/ backups' = backups \cup {b} /\ made' = made \cup {b}
           \/ UNCHANGED <<backups, made>>
    BY <1>2 DEF BackupEnds, Asked, results
  <2>2. BackupIsNewest => BackupIsNewest'
    BY <2>1 DEF BackupIsNewest
  <2>3. newest' \in Nat /\ newest' >= Old /\ \A d \in making' \cup backups' \cup made' : d \in Nat /\ d <= newest'
    BY <2>1 DEF BackupInv
  <2>. QED
    BY <1>0, <2>1, <2>2, <2>3 DEF BackupInv, OldBackups
<1>3. CASE AwaitBackup
  <2>1. /\ pc = "backup_job" /\ UNCHANGED <<newest, making, backups, made, backup, surplus, updated>>
        /\ Asked' = Asked
        /\ pc' = "raised" \/ (pc' = "list" /\ backup \notin making)
    BY <1>3 DEF AwaitBackup, Proceed, At, Asked, server, results
  <2>2. Asked = {} /\ updated = {} /\ BackupIsNewest
    BY <2>1 DEF BackupInv, Early
  <2>3. BackupIsNewest'
    BY <2>1, <2>2 DEF BackupIsNewest
  <2>. QED
    BY <2>1, <2>2, <2>3 DEF BackupInv, ItemPoints, OldBackups
<1>4. CASE ListBackups
  <2>1. /\ pc = "list" /\ UNCHANGED <<newest, making, backups, made, backup, updated>>
        /\ Asked' = Asked
        /\ \/ pc' \in {"update", "raised"} /\ surplus' = surplus
           \/ pc' = "trim" /\ policy.retention > 0 /\ surplus' = Surplus(policy.retention)
    BY <1>4 DEF ListBackups, Proceed, At, Asked, server, results
  <2>2. Asked = {} /\ updated = {} /\ BackupIsNewest /\ backup \notin making
    BY <2>1 DEF BackupInv, Early
  <2>3. BackupIsNewest'
    BY <2>1, <2>2 DEF BackupIsNewest
  <2>4. /\ surplus' \cap (OldBackups \ OwnBackups) = {}
        /\ pc' = "trim" => backup \notin surplus'
    <3>1. CASE surplus' = surplus /\ pc' \in {"update", "raised"}
      BY <3>1 DEF BackupInv
    <3>2. CASE pc' = "trim" /\ policy.retention > 0 /\ surplus' = Surplus(policy.retention)
      BY <1>0, <2>2, <3>2, NewestIsNoSurplus
    <3>. QED
      BY <2>1, <3>1, <3>2
  <2>. QED
    BY <1>0, <2>1, <2>2, <2>3, <2>4 DEF BackupInv, OldBackups
<1>5. CASE DeleteBackup
  <2>1. PICK b \in surplus :
          /\ pc = "trim" /\ UNCHANGED <<newest, making, made, backup, updated>>
          /\ Asked' = Asked /\ pc' \in {"trim", "raised"}
          /\ backups' \in {backups, backups \ {b}} /\ surplus' \in {surplus, surplus \ {b}}
    BY <1>5 DEF DeleteBackup, Proceed, AttemptFails, At, Asked, results
  <2>2. Asked = {} /\ updated = {} /\ BackupIsNewest /\ backup \notin making
    BY <2>1 DEF BackupInv, Early
  <2>3. b # backup /\ b \notin OldBackups \ OwnBackups
    BY <2>1 DEF BackupInv
  <2>4. BackupIsNewest'
    BY <2>1, <2>2, <2>3 DEF BackupIsNewest
  <2>. QED
    BY <1>0, <2>1, <2>2, <2>3, <2>4 DEF BackupInv, ItemPoints, OldBackups
<1>6. ASSUME ~RequestBackup, ~AwaitBackup, ~ListBackups, ~DeleteBackup, \A b \in making : ~BackupEnds(b)
      PROVE  BackupInv'
  <2>1. UNCHANGED <<newest, making, backups, made, backup, surplus>>
    BY <1>6, BackupsAside
  <2>2. BackupIsNewest' <=> BackupIsNewest
    BY <2>1 DEF BackupIsNewest
  <2>3. /\ pc' \in Early => pc \in Early /\ Asked' = Asked /\ updated' = updated
        /\ pc' \notin {"backup_job", "list", "trim"} \/ pc' = pc
        /\ policy.backup /\ (pc' \in ItemPoints \cup {"update"} \/ Asked' # {} \/ updated' # {}) =>
             pc \in ItemPoints \cup {"update", "trim"} \/ Asked # {} \/ updated # {}
    <3>1. CASE RefreshUpdates
      BY <3>1 DEF RefreshUpdates, Proceed, At, Asked, server, results, Early, ItemPoints
    <3>2. CASE Discover
      BY <3>2 DEF Discover, Proceed, At, Asked, server, results, Early, ItemPoints
    <3>3. CASE TrimIsDone
      BY <3>3 DEF TrimIsDone, Proceed, At, Asked, server, results, Early, ItemPoints
    <3>4. CASE BeginUpdate
      BY <3>4 DEF BeginUpdate, Proceed, At, Asked, server, results, Early, ItemPoints
    <3>5. CASE RequestUpdate
      BY <3>5 DEF RequestUpdate, AttemptFails, At, Asked, server, results, Early, ItemPoints
    <3>6. CASE AwaitUpdate
      BY <3>6 DEF AwaitUpdate, Proceed, At, Asked, server, results, Early, ItemPoints
    <3>7. CASE VerifyHealth
      BY <3>7 DEF VerifyHealth, Proceed, At, Asked, server, results, Early, ItemPoints
    <3>8. CASE UpdateFailed
      BY <3>8 DEF UpdateFailed, Proceed, At, Asked, server, results, Early, ItemPoints
    <3>9. CASE EndRun \/ NotificationRaises
      BY <3>9 DEF EndRun, NotificationRaises, Proceed, At, Asked, server, results, Early, ItemPoints
    <3>10. ASSUME NEW j \in jobs, UpdateEnds(j)
           PROVE  pc' = pc /\ Asked' = Asked /\ updated' = updated
      BY <3>10, UpdateEndsAhead
    <3>11. ASSUME NEW i \in Items, NEW v \in Versions, Release(i, v)
           PROVE  pc' = pc /\ Asked' = Asked /\ updated' = updated
      BY <3>11 DEF Release, Asked, results
    <3>. QED
      BY <1>6, <3>1, <3>2, <3>3, <3>4, <3>5, <3>6, <3>7, <3>8, <3>9, <3>10, <3>11 DEF Next, Loop
  <2>. QED
    BY <1>0, <2>1, <2>2, <2>3 DEF BackupInv, OldBackups
<1>. QED
  BY <1>1, <1>2, <1>3, <1>4, <1>5, <1>6

-----------------------------------------------------------------------------
(* Theorems *)

Inv == TypeInv /\ VersionInv /\ OrderInv /\ DoneInv /\ BackupInv

LEMMA InitHasInv == Init => Inv
<1>. SUFFICES ASSUME Init PROVE Inv
  OBVIOUS
<1>1. /\ installed \in [Items -> Versions] /\ latest = installed
      /\ policy \in PolicyType
      /\ pc = "refresh" /\ plan = {} /\ Asked = {} /\ updated = {} /\ ended = {} /\ made = {}
      /\ backups = 1..Old /\ making = {} /\ newest = Old /\ surplus = {}
  BY PoliciesAssumption DEF Init, Asked, OldBackups
<1>2. Ahead = {}
  BY <1>1 DEF Ahead, ItemPoints
<1>3. TypeInv
  BY <1>1, <1>2 DEF TypeInv, Points, Early
<1>4. VersionInv /\ DoneInv
  BY <1>1, <1>2 DEF VersionInv, DoneInv, UpdatedWasDone
<1>5. OrderInv
  BY <1>1, <1>2 DEF OrderInv, ItemPoints
<1>6. BackupInv
  BY <1>1, BackupsAssumption DEF BackupInv, ItemPoints, Early, OldBackups
<1>. QED
  BY <1>3, <1>4, <1>5, <1>6 DEF Inv

LEMMA NextKeepsInv ==
  ASSUME Inv, [Next]_vars
  PROVE  Inv'
<1>1. CASE Next
  <2>1. pc \in Early => Asked = {}
    BY DEF Inv, BackupInv
  <2>. QED
    BY <1>1, <2>1, TypeStep, VersionStep, OrderStep, DoneStep, BackupStep DEF Inv
<1>2. CASE UNCHANGED vars
  BY <1>2 DEF vars, server, results, Inv, TypeInv, VersionInv, OrderInv, DoneInv, BackupInv, Ahead,
              Asked, Respects, UpdatedWasDone, BackupIsNewest
<1>. QED
  BY <1>1, <1>2

\* The invariants hold in every run.
THEOREM UpdateRequestsInvariant == Spec => []Inv
BY InitHasInv, NextKeepsInv, PTL DEF Spec

\* Pins and minimums hold for what the Supervisor is asked for, core, supervisor
\* and operating system, whatever is released meanwhile and however often requests
\* are repeated.
THEOREM PolicyLimitsVersions == Spec => []NoVersionBeyondPolicy
<1>1. Inv => NoVersionBeyondPolicy
  BY DEF Inv, VersionInv, Respects, NoVersionBeyondPolicy
<1>. QED
  BY <1>1, UpdateRequestsInvariant, PTL

\* The run's backup comes before every update and outlives the trimming, for any
\* retention and any number of backups that lost answers have left behind.
THEOREM BackupOutlivesTrimming == Spec => []BackupIsKept
<1>1. Inv => BackupIsKept
  BY BackupsAssumption DEF Inv, BackupInv, BackupIsNewest, BackupIsKept, NoBackup
<1>. QED
  BY <1>1, UpdateRequestsInvariant, PTL

\* An item that counts as updated has been, under every answer and every timeout.
THEOREM UpdatedItemsAreDone == Spec => []UpdatedWasDone
<1>1. Inv => UpdatedWasDone
  BY DEF Inv, DoneInv
<1>. QED
  BY <1>1, UpdateRequestsInvariant, PTL

\* The operating system is asked for last, whatever the strategy and the plan.
THEOREM OsComesLast == Spec => OsIsLast
<1>1. Inv /\ [Next]_vars =>
        [\A j \in jobs' \ jobs : \A k \in Asked : TypeOf[k.item] = "os" => TypeOf[j.item] = "os"]_vars
  BY OsLastStep DEF Inv
<1>. QED
  BY <1>1, UpdateRequestsInvariant, PTL DEF Spec, OsIsLast

-----------------------------------------------------------------------------
(* The run advances *)

\* What is left of a run is finite.
LeftInv == IsFiniteSet(plan) /\ IsFiniteSet(surplus) /\ attempt \in Nat /\ MaxAttempts \in Nat

Measures == [1..5 -> Nat]

\* There is a candidate for each item that has an update, so there are as many as items.
LEMMA CandidatesAreFinite ==
  ASSUME NEW secure
  PROVE  IsFiniteSet(Candidates(secure))
<1>. DEFINE outdated == {i \in Items : latest[i] # installed[i]}
            f == [i \in outdated |-> [item |-> i, current |-> installed[i], target |-> latest[i],
                                      security |-> i \in secure]]
<1>1. IsFiniteSet(outdated)
  BY ItemsAssumption, FS_Subset
<1>2. f \in Surjection(outdated, Candidates(secure))
  BY DEF Candidates, Surjection
<1>. HIDE DEF outdated, f
<1>. QED
  BY <1>1, <1>2, FS_Surjection

LEMMA OwnIsFinite ==
  ASSUME BackupInv
  PROVE  IsFiniteSet(OwnNow)
<1>1. backups \in SUBSET Nat /\ newest \in Nat /\ \A b \in backups : b <= newest
  BY DEF BackupInv
<1>2. IsFiniteSet(backups)
  BY <1>1, FS_BoundedSetOfNaturals
<1>. QED
  BY <1>2, FS_Subset DEF OwnNow

LEMMA LeftStep ==
  ASSUME TypeInv, BackupInv, LeftInv, [Next]_vars
  PROVE  LeftInv'
<1>1. attempt' \in Nat
  <2>1. ASSUME NEW point, AttemptFails(point) PROVE attempt' \in Nat
    BY <2>1 DEF AttemptFails, LeftInv
  <2>2. ASSUME NEW point, Proceed(point) PROVE attempt' \in Nat
    BY <2>2 DEF Proceed
  <2>3. CASE RequestBackup
    BY <2>1, <2>2, <2>3 DEF RequestBackup
  <2>4. CASE DeleteBackup
    BY <2>1, <2>2, <2>4 DEF DeleteBackup
  <2>5. CASE RequestUpdate
    BY <2>1, <2>2, <2>5 DEF RequestUpdate, LeftInv
  <2>6. CASE RefreshUpdates \/ Discover \/ AwaitBackup \/ ListBackups \/ TrimIsDone
    BY <2>2, <2>6 DEF RefreshUpdates, Discover, AwaitBackup, ListBackups, TrimIsDone
  <2>7. CASE BeginUpdate \/ AwaitUpdate \/ VerifyHealth \/ UpdateFailed \/ EndRun \/ NotificationRaises
    BY <2>2, <2>7 DEF BeginUpdate, AwaitUpdate, VerifyHealth, UpdateFailed, EndRun, NotificationRaises
  <2>8. CASE ~Loop
    BY <2>8 DEF Next, BackupEnds, UpdateEnds, Release, vars, LeftInv
  <2>. QED
    BY <2>3, <2>4, <2>5, <2>6, <2>7, <2>8 DEF Loop
<1>2. IsFiniteSet(plan')
  <2>1. CASE Discover
    <3>1. plan' = plan \/ \E secure \in SUBSET Items : plan' \subseteq Candidates(secure)
      BY <2>1 DEF Discover, Candidates, Planned
    <3>. QED
      BY <3>1, CandidatesAreFinite, FS_Subset DEF LeftInv
  <2>2. CASE ~Discover
    <3>1. plan' \subseteq plan
      BY <2>2 DEF Next, Loop, RefreshUpdates, RequestBackup, AwaitBackup, ListBackups,
         DeleteBackup, TrimIsDone, BeginUpdate, RequestUpdate, AwaitUpdate, VerifyHealth, UpdateFailed, EndRun, NotificationRaises,
         BackupEnds, UpdateEnds, Release, vars
    <3>. QED
      BY <3>1, FS_Subset DEF LeftInv
  <2>. QED
    BY <2>1, <2>2
<1>3. IsFiniteSet(surplus')
  <2>1. surplus' \subseteq surplus \/ surplus' \subseteq OwnNow
    BY DEF Next, Loop, RefreshUpdates, Discover, RequestBackup, AwaitBackup, ListBackups, Surplus,
         DeleteBackup, TrimIsDone, BeginUpdate, RequestUpdate, AwaitUpdate, VerifyHealth, UpdateFailed, EndRun, NotificationRaises,
         BackupEnds, UpdateEnds, Release, vars
  <2>. QED
    BY <2>1, OwnIsFinite, FS_Subset DEF LeftInv
<1>4. MaxAttempts' = MaxAttempts
  BY PolicyStays DEF MaxAttempts, vars
<1>. QED
  BY <1>1, <1>2, <1>3, <1>4 DEF LeftInv

\* What is left can be measured.
LEMMA RemainingType ==
  ASSUME pc \in Points, LeftInv
  PROVE  /\ Remaining \in Measures
         /\ Cardinality(plan) \in Nat /\ Cardinality(surplus) \in Nat
<1>1. Cardinality(plan) \in Nat /\ Cardinality(surplus) \in Nat
  BY FS_CardinalityType DEF LeftInv
<1>2. WayLeft[pc] \in Nat
  BY DEF WayLeft, Points, Early, ItemPoints
<1>3. ItemWayLeft \in Nat
  BY DEF ItemWayLeft
<1>4. (IF attempt < MaxAttempts THEN MaxAttempts - attempt ELSE 0) \in Nat
  BY DEF LeftInv
<1>. QED
  BY <1>1, <1>2, <1>3, <1>4 DEF Remaining, Measures

\* The first part in which two measures differ decides.
LEMMA LessOf ==
  ASSUME NEW r1, NEW r2, NEW r3, NEW r4, NEW r5, NEW s1, NEW s2, NEW s3, NEW s4, NEW s5,
         \/ r1 < s1
         \/ r1 = s1 /\ r2 < s2
         \/ r1 = s1 /\ r2 = s2 /\ r3 < s3
         \/ r1 = s1 /\ r2 = s2 /\ r3 = s3 /\ r4 < s4
         \/ r1 = s1 /\ r2 = s2 /\ r3 = s3 /\ r4 = s4 /\ r5 < s5
  PROVE  Less(<<r1, r2, r3, r4, r5>>, <<s1, s2, s3, s4, s5>>)
<1>. DEFINE r == <<r1, r2, r3, r4, r5>>
            s == <<s1, s2, s3, s4, s5>>
<1>1. \A n \in 1..5 : n \in {1, 2, 3, 4, 5} /\ \A m \in 1..(n - 1) : m \in {1, 2, 3, 4, 5} /\ m < n
  OBVIOUS
<1>2. CASE r1 < s1
  BY <1>1, <1>2 DEF Less
<1>3. CASE r1 = s1 /\ r2 < s2
  BY <1>1, <1>3 DEF Less
<1>4. CASE r1 = s1 /\ r2 = s2 /\ r3 < s3
  BY <1>1, <1>4 DEF Less
<1>5. CASE r1 = s1 /\ r2 = s2 /\ r3 = s3 /\ r4 < s4
  BY <1>1, <1>5 DEF Less
<1>6. CASE r1 = s1 /\ r2 = s2 /\ r3 = s3 /\ r4 = s4 /\ r5 < s5
  BY <1>1, <1>6 DEF Less
<1>. QED
  BY <1>2, <1>3, <1>4, <1>5, <1>6

\* An attempt that fails leaves fewer of them, or takes the loop on.
LEMMA FailureAdvances ==
  ASSUME LeftInv, NEW point, AttemptFails(point)
  PROVE  \/ pc' = point
         \/ /\ pc' = pc /\ attempt < MaxAttempts
            /\ (IF attempt' < MaxAttempts THEN MaxAttempts - attempt' ELSE 0) < MaxAttempts - attempt
BY DEF LeftInv, AttemptFails

LEMMA LoopAdvances ==
  ASSUME TypeInv, BackupInv, LeftInv, LeftInv', Loop
  PROVE  Less(Remaining', Remaining)
<1>0. pc \in Points /\ Cardinality(plan) \in Nat /\ Cardinality(surplus) \in Nat
  BY RemainingType DEF TypeInv
<1>. DEFINE Way == WayLeft[pc]
            Left == IF attempt < MaxAttempts THEN MaxAttempts - attempt ELSE 0
<1>. MaxAttempts' = MaxAttempts
  BY PolicyStays DEF Next, MaxAttempts
<1>1. SUFFICES \/ Way' < Way
               \/ Way' = Way /\ Cardinality(plan') < Cardinality(plan)
               \/ Way' = Way /\ plan' = plan /\ Cardinality(surplus') < Cardinality(surplus)
               \/ Way' = Way /\ plan' = plan /\ surplus' = surplus /\ ItemWayLeft' < ItemWayLeft
               \/ Way' = Way /\ plan' = plan /\ surplus' = surplus /\ ItemWayLeft' = ItemWayLeft /\ Left' < Left
  BY LessOf DEF Remaining
<1>2. CASE RefreshUpdates
  BY <1>2 DEF RefreshUpdates, At, Proceed, WayLeft
<1>3. CASE Discover
  <2>1. pc = "discover" /\ pc' \in {"done", "backup", "update", "raised"}
    BY <1>3 DEF Discover, At, Proceed
  <2>. QED
    BY <2>1 DEF WayLeft
<1>4. CASE RequestBackup
  BY <1>4, FailureAdvances DEF RequestBackup, At, Proceed, WayLeft, ItemWayLeft
<1>5. CASE AwaitBackup
  BY <1>5 DEF AwaitBackup, At, Proceed, WayLeft
<1>6. CASE ListBackups
  BY <1>6 DEF ListBackups, At, Proceed, WayLeft
<1>7. CASE DeleteBackup
  <2>1. PICK b \in surplus :
          \/ surplus' = surplus \ {b} /\ pc' = "trim" /\ UNCHANGED plan
          \/ UNCHANGED <<surplus, plan>> /\ AttemptFails("raised")
    BY <1>7 DEF DeleteBackup, Proceed
  <2>2. CASE surplus' = surplus \ {b} /\ pc' = "trim" /\ UNCHANGED plan
    <3>1. Cardinality(surplus') = Cardinality(surplus) - 1
      BY <2>2, FS_RemoveElement DEF LeftInv
    <3>2. pc = "trim"
      BY <1>7 DEF DeleteBackup, At
    <3>. QED
      BY <1>0, <2>2, <3>1, <3>2
  <2>3. CASE UNCHANGED <<surplus, plan>> /\ AttemptFails("raised")
    BY <1>7, <2>3, FailureAdvances DEF DeleteBackup, At, WayLeft, ItemWayLeft
  <2>. QED
    BY <2>1, <2>2, <2>3
<1>8. CASE TrimIsDone
  BY <1>8 DEF TrimIsDone, At, Proceed, WayLeft
<1>9. CASE BeginUpdate
  <2>1. PICK c \in plan : plan' = plan \ {c} /\ pc = "update" /\ pc' = "post"
    BY <1>9 DEF BeginUpdate, At, Proceed
  <2>2. Cardinality(plan') = Cardinality(plan) - 1
    BY <2>1, FS_RemoveElement DEF LeftInv
  <2>. QED
    BY <1>0, <2>1, <2>2 DEF WayLeft
<1>10. CASE RequestUpdate
  <2>1. pc = "post" /\ UNCHANGED <<plan, surplus>>
    BY <1>10 DEF RequestUpdate, At
  <2>2. pc' = "job" \/ AttemptFails("item_failed")
    BY <1>10 DEF RequestUpdate
  <2>. QED
    BY <2>1, <2>2, FailureAdvances DEF WayLeft, ItemWayLeft
<1>11. CASE AwaitUpdate
  BY <1>11 DEF AwaitUpdate, At, Proceed, WayLeft, ItemWayLeft
<1>12. CASE VerifyHealth
  BY <1>12 DEF VerifyHealth, At, Proceed, WayLeft, ItemWayLeft
<1>13. CASE UpdateFailed
  BY <1>13 DEF UpdateFailed, At, Proceed, WayLeft, ItemWayLeft
<1>14. CASE EndRun \/ NotificationRaises
  BY <1>14 DEF EndRun, NotificationRaises, At, Proceed, WayLeft
<1>. QED
  BY <1>2, <1>3, <1>4, <1>5, <1>6, <1>7, <1>8, <1>9, <1>10, <1>11, <1>12, <1>13, <1>14 DEF Loop

\* Each step of the service loop leaves less of the run, for any number of items,
\* backups and attempts.
THEOREM EachStepAdvances == Spec => RunAdvances
<1>1. Init => LeftInv
  BY FS_EmptySet, PoliciesAssumption DEF Init, LeftInv, MaxAttempts, PolicyType
<1>2. Inv /\ LeftInv /\ [Next]_vars => LeftInv'
  BY LeftStep DEF Inv
<1>3. Inv /\ LeftInv /\ LeftInv' /\ [Next]_vars => [Loop => Less(Remaining', Remaining)]_vars
  BY LoopAdvances DEF Inv
<1>. QED
  BY <1>1, <1>2, <1>3, UpdateRequestsInvariant, PTL DEF Spec, RunAdvances

\* What is left cannot become less for ever, so no run takes infinitely many steps.
THEOREM RunsAreFinite ==
  ASSUME NEW left \in [Nat -> Measures]
  PROVE  \E n \in Nat : ~Less(left[n + 1], left[n])
<1>. DEFINE N == {p \in Nat \X Nat : p[1] < p[2]}
            Order == LexProductOrdering(N, Nat, 5)
<1>1. IsWellFoundedOn(N, Nat)
  BY NatLessThanWellFounded DEF OpToRel
<1>2. IsWellFoundedOn(Order, Measures)
  BY <1>1, WFLexProductOrdering DEF Measures
<1>3. ASSUME NEW r \in Measures, NEW s \in Measures, Less(r, s)
      PROVE  <<r, s>> \in Order
  <2>1. PICK n \in 1..5 : r[n] < s[n] /\ \A m \in 1..(n - 1) : r[m] = s[m]
    BY <1>3 DEF Less
  <2>2. <<r[n], s[n]>> \in N
    BY <2>1 DEF Measures
  <2>. QED
    BY <2>1, <2>2 DEF LexProductOrdering, Measures
<1>4. PICK n \in Nat : <<left[n + 1], left[n]>> \notin Order
  BY <1>2 DEF IsWellFoundedOn
<1>5. left[n] \in Measures /\ left[n + 1] \in Measures
  OBVIOUS
<1>. QED
  BY <1>3, <1>4, <1>5

-----------------------------------------------------------------------------
(* The account of the run *)

Reported == updated \cup failed
\* Each item of the plan has its turn once and one result, no result comes before
\* the plan, and a plan on record is not an empty one.
TurnInv ==
  /\ \A c, d \in Ahead : c.item = d.item => c = d
  /\ pc \in ItemPoints => current \notin plan
  /\ \A c \in Ahead : c.item \notin Reported
  /\ updated \cap failed = {}
  /\ pc \in Early => Reported = {}
  /\ pc \in {"backup", "backup_job", "list", "trim"} => plan # {}
  /\ pc = "update" => plan # {} \/ Reported # {}

\* There is one candidate of an item at a discovery.
LEMMA DiscoverTakesTurns ==
  ASSUME TurnInv, Discover
  PROVE  \A c, d \in plan' : c.item = d.item => c = d
<1>1. PICK secure \in SUBSET Items : plan' = Planned(policy, Candidates(secure)) \/ plan' = plan
  BY DEF Discover, Candidates
<1>2. Planned(policy, Candidates(secure)) \subseteq Candidates(secure)
  BY DEF Planned
<1>3. \A c, d \in Candidates(secure) : c.item = d.item => c = d
  BY DEF Candidates
<1>4. \A c, d \in plan : c.item = d.item => c = d
  BY DEF TurnInv, Ahead
<1>. QED
  BY <1>1, <1>2, <1>3, <1>4

LEMMA TurnStep ==
  ASSUME TypeInv, TurnInv, Next
  PROVE  TurnInv'
<1>0. pc \in Points
  BY DEF TypeInv
<1>1. CASE VerifyHealth \/ UpdateFailed
  <2>1. /\ pc \in ItemPoints /\ pc' \in {"update", "item_failed"} /\ plan' = plan /\ current' = current
        /\ \/ Reported' = Reported /\ UNCHANGED results /\ pc' = "item_failed"
           \/ /\ Reported' = Reported \cup {current.item} /\ pc' = "update"
              /\ \/ updated' = updated \cup {current.item} /\ failed' = failed
                 \/ failed' = failed \cup {current.item} /\ updated' = updated
    BY <1>1 DEF VerifyHealth, UpdateFailed, At, Proceed, ItemPoints, Reported, results
  <2>2. current \in Ahead /\ plan \subseteq Ahead /\ Ahead' \subseteq Ahead
        /\ (pc' = "update" => Ahead' = plan)
    BY <2>1 DEF Ahead, ItemPoints
  <2>3. current.item \notin Reported /\ \A c \in plan : c.item # current.item
    BY <2>1, <2>2 DEF TurnInv
  <2>. QED
    BY <2>1, <2>2, <2>3 DEF TurnInv, Early, ItemPoints, Reported, results
<1>2. CASE Others /\ ~VerifyHealth /\ ~UpdateFailed
  <2>1. /\ plan' = plan /\ current' = current /\ Ahead' \subseteq Ahead
        /\ pc' \in ItemPoints => pc \in ItemPoints
    BY <1>0, <1>2, OthersKeep, OthersAhead
  <2>2. UNCHANGED results
    BY <1>2 DEF Others, RefreshUpdates, RequestBackup, AwaitBackup, ListBackups, DeleteBackup,
                TrimIsDone, AwaitUpdate, EndRun, NotificationRaises, BackupEnds, Release, results
  <2>3. /\ pc' \in Early => pc \in Early
        /\ pc' \in {"backup", "backup_job", "list", "trim", "update"} =>
             pc = pc' \/ pc \in {"backup", "backup_job", "list", "trim"}
    BY <1>2 DEF Others, RefreshUpdates, RequestBackup, AwaitBackup, ListBackups, DeleteBackup,
                TrimIsDone, AwaitUpdate, EndRun, NotificationRaises, BackupEnds, Release, At, Proceed, AttemptFails, Early
  <2>. QED
    BY <2>1, <2>2, <2>3 DEF TurnInv, Reported, results
<1>3. CASE Discover
  <2>1. /\ pc = "discover" /\ Reported = {} /\ UNCHANGED results /\ Ahead' = plan'
        /\ pc' \in {"done", "backup", "update", "raised"}
        /\ pc' \in {"backup", "update"} => plan' # {}
    BY <1>3, DiscoverAhead DEF Discover, At, Proceed, TurnInv, Early, results
  <2>2. updated' = {} /\ failed' = {}
    BY <2>1 DEF Reported, results
  <2>. QED
    BY <1>3, <2>1, <2>2, DiscoverTakesTurns DEF TurnInv, Reported, ItemPoints
<1>4. CASE BeginUpdate
  <2>1. UNCHANGED results
    BY <1>4 DEF BeginUpdate
  <2>. QED
    BY <1>4, <2>1, BeginUpdateAhead DEF TurnInv, Reported, results, ItemPoints, Early
<1>5. CASE RequestUpdate
  <2>1. UNCHANGED results
    BY <1>5 DEF RequestUpdate
  <2>. QED
    BY <1>5, <2>1, RequestUpdateAhead DEF TurnInv, Reported, results, ItemPoints, Early
<1>6. ASSUME NEW j \in jobs, UpdateEnds(j)
      PROVE  TurnInv'
  <2>1. UNCHANGED results
    BY <1>6 DEF UpdateEnds
  <2>. QED
    BY <1>6, <2>1, UpdateEndsAhead DEF TurnInv, Reported, results
<1>. QED
  BY <1>1, <1>2, <1>3, <1>4, <1>5, <1>6, NextCases

LEMMA InitTakesTurns == Init => TurnInv
BY DEF Init, TurnInv, Reported, Ahead, ItemPoints

LEMMA NextTakesTurns ==
  ASSUME TypeInv, TurnInv, [Next]_vars
  PROVE  TurnInv'
<1>1. ASSUME UNCHANGED vars
      PROVE  TurnInv'
  BY <1>1 DEF vars, results, TurnInv, Ahead, Reported
<1>. QED
  BY <1>1, TurnStep

\* What the account does not see: requests and waits of one phase of the run.
Underway == {"backup", "backup_job", "list", "trim", "update"}
LEMMA WaitsAside ==
  ASSUME UNCHANGED <<plan, current, updated, failed>>,
         \/ pc' = pc
         \/ pc \in {"refresh", "discover"} /\ pc' \in {"refresh", "discover"}
         \/ pc \in Underway /\ pc' \in Underway
         \/ pc \in ItemPoints /\ pc' \in ItemPoints
  PROVE  UNCHANGED Account!account
BY DEF Account!account, Phase, InRun, Waiting, Active, Updating, Underway, ItemPoints

\* An exception before the updates or between two of them ends the run without results.
LEMMA RaisingBreaksOff ==
  ASSUME TurnInv, pc \in Early \cup {"update"}, pc' = "raised", UNCHANGED <<current, updated, failed>>
  PROVE  Account!AccountNext
<1>1. Active = {} /\ Active' = {} /\ Phase \in {"none", "running"} /\ Phase' = "ended"
  BY DEF Active, Updating, Phase, Early
<1>2. pc # "done" /\ pc' # "done"
  BY DEF Early
<1>3. Account!BreakOff
  BY <1>1, <1>2 DEF Account!BreakOff, Account!RunEnds, Account!NoneIsLost, InRun
<1>. QED
  BY <1>3 DEF Account!AccountNext

\* Every request, wait and answer is a step of the account or leaves it alone.
LEMMA RequestStep ==
  ASSUME TypeInv, TurnInv, TurnInv', Next
  PROVE  Account!AccountNext \/ UNCHANGED Account!account
<1>1. CASE RefreshUpdates
  <2>1. /\ pc = "refresh" /\ pc' \in {"discover", "raised"}
        /\ UNCHANGED <<plan, current, updated, failed>>
    BY <1>1 DEF RefreshUpdates, At, Proceed, results
  <2>. QED
    BY <2>1, WaitsAside, RaisingBreaksOff DEF Early
<1>2. CASE Discover
  <2>1. /\ pc = "discover" /\ UNCHANGED <<current, updated, failed>>
        /\ \/ pc' = "raised"
           \/ plan' = {} /\ pc' = "done"
           \/ plan' # {} /\ pc' \in {"backup", "update"}
    BY <1>2 DEF Discover, At, Proceed, results
  <2>2. updated = {} /\ failed = {}
    BY <2>1 DEF TurnInv, Reported, Early
  <2>3. CASE pc' = "done"
    BY <2>1, <2>2, <2>3 DEF Account!account, Phase, InRun, Active, Updating
  <2>4. CASE plan' # {} /\ pc' \in {"backup", "update"}
    <3>1. Phase = "none" /\ Phase' = "running" /\ Active = {} /\ Active' = {}
      BY <2>1, <2>2, <2>4 DEF Phase, Active, Updating
    <3>2. Waiting' # {} /\ Waiting' \in SUBSET Items
      <4>1. TypeInv'
        BY TypeStep
      <4>2. plan' \subseteq Candidate
        BY <4>1 DEF TypeInv, Ahead
      <4>. QED
        BY <2>4, <4>2 DEF Waiting, Candidate
    <3>3. Account!Begin("install", Waiting')
      BY <2>1, <2>2, <2>4, <3>1, <3>2 DEF Account!Begin, Account!NoneIsLost, InRun
    <3>. QED
      BY <3>2, <3>3 DEF Account!AccountNext
  <2>. QED
    BY <2>1, <2>3, <2>4, RaisingBreaksOff DEF Early
<1>3. CASE RequestBackup \/ AwaitBackup \/ ListBackups \/ DeleteBackup \/ TrimIsDone
  <2>1. /\ pc \in {"backup", "backup_job", "list", "trim"} /\ pc' \in Underway \cup {"raised"}
        /\ UNCHANGED <<plan, current, updated, failed>>
    BY <1>3 DEF RequestBackup, AwaitBackup, ListBackups, DeleteBackup, TrimIsDone, At, Proceed,
                AttemptFails, results, Underway
  <2>. QED
    BY <2>1, WaitsAside, RaisingBreaksOff DEF Early, Underway
<1>4. CASE BeginUpdate
  <2>1. /\ pc = "update" /\ pc' = "post" /\ current' \in plan /\ plan' = plan \ {current'}
        /\ UNCHANGED <<updated, failed>>
    BY <1>4, BeginUpdateAhead DEF BeginUpdate, results
  <2>2. /\ Phase = "running" /\ Phase' = "running"
        /\ Active = {} /\ Active' = {current'.item}
    BY <2>1 DEF Phase, Active, Updating
  <2>3. current'.item \in Waiting /\ current'.item \in Items /\ current'.item \notin Reported
    BY <2>1 DEF Waiting, TypeInv, TurnInv, Ahead, Candidate
  <2>4. Waiting' = Waiting \ {current'.item}
    <3>1. \A c \in plan : c.item = current'.item => c = current'
      BY <2>1 DEF TurnInv, Ahead
    <3>. QED
      BY <2>1, <3>1 DEF Waiting
  <2>5. Account!Ask(current'.item)
    BY <2>1, <2>2, <2>3, <2>4 DEF Account!Ask, InRun, Reported
  <2>. QED
    BY <2>3, <2>5 DEF Account!AccountNext
<1>5. CASE RequestUpdate \/ AwaitUpdate
  <2>1. pc \in ItemPoints /\ pc' \in ItemPoints /\ UNCHANGED <<plan, current, updated, failed>>
    BY <1>5 DEF RequestUpdate, AwaitUpdate, At, Proceed, AttemptFails, results, ItemPoints
  <2>. QED
    BY <2>1, WaitsAside
<1>6. CASE VerifyHealth \/ UpdateFailed
  <2>1. /\ pc \in {"health", "item_failed"} /\ UNCHANGED <<plan, current>>
        /\ \/ pc' = "item_failed" /\ UNCHANGED <<updated, failed>>
           \/ /\ pc' = "update"
              /\ updated' \cup failed' = {current.item} \cup updated \cup failed
    BY <1>6 DEF VerifyHealth, UpdateFailed, At, Proceed, results
  <2>2. CASE pc' = "item_failed"
    BY <2>1, <2>2, WaitsAside DEF ItemPoints
  <2>3. CASE pc' = "update" /\ updated' \cup failed' = {current.item} \cup updated \cup failed
    <3>1. /\ Phase = "running" /\ Phase' = "running"
          /\ Active = {current.item} /\ Active' = {} /\ Waiting' = Waiting
      BY <2>1, <2>3 DEF Phase, Active, Updating, Waiting
    <3>2. Account!Answered
      BY <2>1, <2>3, <3>1 DEF Account!Answered, InRun
    <3>. QED
      BY <3>2 DEF Account!AccountNext
  <2>. QED
    BY <2>1, <2>2, <2>3
<1>7. CASE EndRun
  <2>1. pc = "update" /\ pc' = "done" /\ plan = {} /\ UNCHANGED <<updated, failed>>
    BY <1>7 DEF EndRun, At, Proceed, results
  <2>2. /\ Phase = "running" /\ Phase' = "ended" /\ Active = {} /\ Active' = {} /\ Waiting = {}
        /\ Reported # {} /\ updated \cap failed = {}
    BY <2>1 DEF Phase, Active, Updating, Waiting, TurnInv, Reported
  <2>3. failed = Reported <=> updated = {}
    BY <2>2 DEF Reported
  <2>4. Account!Complete
    BY <2>1, <2>2, <2>3 DEF Account!Complete, Account!RunEnds, InRun, Reported
  <2>. QED
    BY <2>4 DEF Account!AccountNext
<1>8. ASSUME NEW b \in making, BackupEnds(b)
      PROVE  UNCHANGED Account!account
  BY <1>8, WaitsAside DEF BackupEnds, results
<1>9. ASSUME NEW j \in jobs, UpdateEnds(j)
      PROVE  UNCHANGED Account!account
  BY <1>9, WaitsAside DEF UpdateEnds, results
<1>10. ASSUME NEW i \in Items, NEW v \in Versions, Release(i, v)
       PROVE  UNCHANGED Account!account
  BY <1>10, WaitsAside DEF Release, results
<1>11. CASE NotificationRaises
  <2>1. pc = "update" /\ pc' = "raised" /\ UNCHANGED <<current, updated, failed>>
    BY <1>11 DEF NotificationRaises, At, Proceed, results
  <2>. QED
    BY <2>1, RaisingBreaksOff
<1>. QED
  BY <1>1, <1>2, <1>3, <1>4, <1>5, <1>6, <1>7, <1>8, <1>9, <1>10, <1>11 DEF Next, Loop

\* Whatever is refused, lost or repeated, and however many items and attempts there
\* are, the requests of a run keep the account that RunLifecycle keeps too.
THEOREM RequestsActAsAccount == Spec => ActsAsAccount
<1>1. Init => Account!AccountInit
  BY DEF Init, Account!AccountInit, Phase, InRun, Active, Updating
<1>2. TypeInv /\ TurnInv /\ TurnInv' /\ [Next]_vars => [Account!AccountNext]_Account!account
  <2>1. UNCHANGED vars => UNCHANGED Account!account
    BY WaitsAside DEF vars, results
  <2>. QED
    BY <2>1, RequestStep
<1>3. Inv => TypeInv
  BY DEF Inv
<1>. QED
  BY <1>1, <1>2, <1>3, InitTakesTurns, NextTakesTurns, UpdateRequestsInvariant, PTL
     DEF Spec, ActsAsAccount, Account!AccountSpec

-----------------------------------------------------------------------------
(* Versions, limits and retention *)

\* R orders S strictly and totally.
Orders(R, S) ==
  /\ \A x \in S : <<x, x>> \notin R
  /\ \A x, y, z \in S : <<x, y>> \in R /\ <<y, z>> \in R => <<x, z>> \in R
  /\ \A x, y \in S : x = y \/ <<x, y>> \in R \/ <<y, x>> \in R

Least(m, n) == IF m <= n THEN m ELSE n

\* In a finite set in order, those before which there are fewer than k are k of them, or
\* all; those that are left out come after them.
LEMMA FirstOfOrdered ==
  ASSUME NEW S, IsFiniteSet(S), NEW R, Orders(R, S), NEW k \in Nat
  PROVE  LET first == {x \in S : Cardinality({y \in S : <<y, x>> \in R}) < k}
         IN  /\ Cardinality(first) = Least(k, Cardinality(S))
             /\ \A x \in first, y \in S \ first : <<x, y>> \in R
<1>. DEFINE Before(x) == {y \in S : <<y, x>> \in R}
            n == Cardinality(S)
            f == [x \in S |-> Cardinality(Before(x))]
            first == {x \in S : Cardinality(Before(x)) < k}
<1>1. n \in Nat
  BY FS_CardinalityType
<1>2. ASSUME NEW x \in S PROVE IsFiniteSet(Before(x)) /\ Cardinality(Before(x)) \in 0..(n - 1)
  <2>1. IsFiniteSet(S \ {x}) /\ Cardinality(S \ {x}) = n - 1
    BY FS_RemoveElement
  <2>2. Before(x) \in SUBSET (S \ {x})
    BY DEF Orders
  <2>3. IsFiniteSet(Before(x)) /\ Cardinality(Before(x)) <= n - 1
    BY <2>1, <2>2, FS_Subset, ZenonT(30)
  <2>4. Cardinality(Before(x)) \in Nat
    BY <2>3, FS_CardinalityType
  <2>. QED
    BY <1>1, <2>3, <2>4
<1>3. ASSUME NEW x \in S, NEW y \in S, <<x, y>> \in R
      PROVE  Cardinality(Before(x)) < Cardinality(Before(y))
  <2>1. Before(x) \in SUBSET Before(y)
    BY <1>3 DEF Orders
  <2>2. x \in Before(y) /\ x \notin Before(x)
    BY <1>3 DEF Orders
  <2>3. Cardinality(Before(x)) \in Nat /\ Cardinality(Before(y)) \in Nat /\ IsFiniteSet(Before(y))
    BY <1>1, <1>2
  <2>. HIDE DEF Before
  <2>4. /\ Cardinality(Before(x)) <= Cardinality(Before(y))
        /\ Cardinality(Before(y)) # Cardinality(Before(x))
    BY <2>1, <2>2, <2>3, FS_Subset
  <2>. QED
    BY <2>3, <2>4
<1>4. f \in [S -> 0..(n - 1)] /\ \A x \in S : f[x] = Cardinality(Before(x))
  BY <1>2
<1>5. \A x \in S : x \in first <=> f[x] < k
  OBVIOUS
<1>6. first \in SUBSET S
  OBVIOUS
<1>. HIDE DEF Before, f, first, n
<1>7. \A x, y \in S : <<x, y>> \in R => f[x] < f[y]
  BY <1>3, <1>4
<1>8. f \in Bijection(S, 0..(n - 1))
  <2>1. \A x \in S : f[x] \in Int
    BY <1>4
  <2>2. ASSUME NEW x \in S, NEW y \in S, f[x] = f[y] PROVE x = y
    <3>1. x = y \/ <<x, y>> \in R \/ <<y, x>> \in R
      BY DEF Orders
    <3>2. ~(f[x] < f[y]) /\ ~(f[y] < f[x])
      BY <2>1, <2>2
    <3>. QED
      BY <1>7, <3>1, <3>2
  <2>3. IsInjective(f)
    BY <1>4, <2>2 DEF IsInjective
  <2>4. f \in Injection(S, 0..(n - 1))
    BY <1>4, <2>3 DEF Injection
  <2>5. IsFiniteSet(0..(n - 1)) /\ Cardinality(0..(n - 1)) = n
    BY <1>1, FS_Interval
  <2>. QED
    BY <2>4, <2>5, FS_Injection DEF Bijection, n
<1>. DEFINE m == Least(k, n)
            g == [x \in first |-> f[x]]
<1>9. m \in Nat /\ m <= n /\ m <= k /\ (m = k \/ m = n)
  BY <1>1 DEF Least
<1>. HIDE DEF m
<1>10. g \in Bijection(first, 0..(m - 1))
  <2>1. ASSUME NEW x \in first PROVE f[x] \in 0..(m - 1)
    BY <1>1, <1>4, <1>5, <1>6, <1>9
  <2>2. ASSUME NEW i \in 0..(m - 1) PROVE \E x \in first : f[x] = i
    <3>1. i \in 0..(n - 1) /\ i < k
      BY <1>1, <1>9
    <3>2. PICK x \in S : f[x] = i
      BY <1>8, <3>1 DEF Bijection, Surjection
    <3>. QED
      BY <1>5, <3>1, <3>2
  <2>3. \A x, y \in first : f[x] = f[y] => x = y
    BY <1>4, <1>6, <1>8 DEF Bijection, Injection, IsInjective
  <2>4. IsInjective(g)
    BY <2>3 DEF IsInjective
  <2>. QED
    BY <2>1, <2>2, <2>4 DEF Bijection, Injection, Surjection
<1>11. IsFiniteSet(first)
  BY <1>6, FS_Subset
<1>12. Cardinality(0..(m - 1)) = m
  BY <1>9, FS_Interval
<1>13. Cardinality(first) = m
  BY <1>10, <1>11, <1>12, FS_Surjection DEF Bijection
<1>14. ASSUME NEW x \in first, NEW y \in S \ first PROVE <<x, y>> \in R
  <2>1. f[x] < k /\ ~(f[y] < k) /\ x # y /\ x \in S /\ f[x] \in Int /\ f[y] \in Int
    BY <1>4, <1>5, <1>6
  <2>2. <<y, x>> \notin R
    BY <1>7, <2>1
  <2>. QED
    BY <2>1, <2>2 DEF Orders
<1>. QED
  BY <1>13, <1>14 DEF m, n, first, Before

\* compare_versions puts any two versions in order.
THEOREM VersionsAreOrdered ==
  /\ \A v \in Versions : ~Above(v, v)
  /\ \A u, v, w \in Versions : Above(u, v) /\ Above(v, w) => Above(u, w)
  /\ \A v, w \in Versions : v = w \/ Above(v, w) \/ Above(w, v)
<1>1. ASSUME NEW v \in Versions, NEW w \in Versions
      PROVE  Above(v, w) <=> \/ v[1] > w[1]
                             \/ v[1] = w[1] /\ v[2] > w[2]
                             \/ v[1] = w[1] /\ v[2] = w[2] /\ v[3] > w[3]
                             \/ v[1] = w[1] /\ v[2] = w[2] /\ v[3] = w[3] /\ v[4] > w[4]
  <2>1. /\ 1..4 = {1, 2, 3, 4} /\ 1..(1 - 1) = {} /\ 1..(2 - 1) = {1}
        /\ 1..(3 - 1) = {1, 2} /\ 1..(4 - 1) = {1, 2, 3}
    OBVIOUS
  <2>. QED
    BY <2>1 DEF Above
<1>2. \A v \in Versions : v[1] \in Nat /\ v[2] \in Nat /\ v[3] \in Nat /\ v[4] \in Nat /\ v = <<v[1], v[2], v[3], v[4]>>
  BY ItemsAssumption
<1>3. \A v \in Versions : ~Above(v, v)
  BY <1>1, <1>2
<1>4. ASSUME NEW u \in Versions, NEW v \in Versions, NEW w \in Versions, Above(u, v), Above(v, w)
      PROVE  Above(u, w)
  BY <1>1, <1>2, <1>4
<1>5. ASSUME NEW v \in Versions, NEW w \in Versions, ~Above(v, w), ~Above(w, v)
      PROVE  v = w
  <2>1. v[1] = w[1] /\ v[2] = w[2] /\ v[3] = w[3] /\ v[4] = w[4]
    BY <1>1, <1>2, <1>5
  <2>. QED
    BY <1>2, <2>1
<1>. QED
  BY <1>3, <1>4, <1>5

\* The plan is made of the first of the allowed candidates: as many as the limit, or
\* all of them, and what it leaves out would have come later.
THEOREM PlanTakesTheFirst ==
  ASSUME NEW p \in PolicyType, NEW candidates \in SUBSET Candidate, IsFiniteSet(candidates),
         \A c, d \in candidates : c.item = d.item => c = d
  PROVE  LET allowed == {c \in candidates : Allowed(p, c)}
         IN  /\ Planned(p, candidates) \subseteq allowed
             /\ Cardinality(Planned(p, candidates)) =
                  IF p.limit = 0 THEN Cardinality(allowed) ELSE Least(p.limit, Cardinality(allowed))
             /\ \A c \in Planned(p, candidates), d \in allowed \ Planned(p, candidates) : Precedes(p, c, d)
<1>. DEFINE allowed == {c \in candidates : Allowed(p, c)}
            R == {x \in allowed \X allowed : Precedes(p, x[1], x[2])}
<1>1. p.limit \in Nat
  BY DEF PolicyType
<1>2. IsFiniteSet(allowed)
  BY FS_Subset
<1>3. ASSUME NEW c \in allowed
      PROVE  Rank(p.strategy, TypeOf[c.item]) \in 0..3 /\ NameRank[c.item] \in Nat
  <2>1. c.item \in Items /\ TypeOf[c.item] \in Types
    BY ItemsAssumption DEF Candidate
  <2>2. p.strategy \in {"addons_first", "core_first", "addons_last"}
    BY DEF PolicyType
  <2>. QED
    BY <2>1, <2>2, OsRanksLast, ItemsAssumption
<1>4. ASSUME NEW c \in allowed, NEW d \in allowed, NameRank[c.item] = NameRank[d.item] PROVE c = d
  <2>1. c.item \in Items /\ d.item \in Items
    BY DEF Candidate
  <2>. QED
    BY <1>4, <2>1, ItemsAssumption
<1>5. \A c, d \in allowed : <<c, d>> \in R <=> Precedes(p, c, d)
  OBVIOUS
<1>6. Orders(R, allowed)
  <2>1. \A c \in allowed : ~Precedes(p, c, c)
    BY <1>3 DEF Precedes
  <2>2. \A b, c, d \in allowed : Precedes(p, b, c) /\ Precedes(p, c, d) => Precedes(p, b, d)
    BY <1>3 DEF Precedes
  <2>3. \A c, d \in allowed : c = d \/ Precedes(p, c, d) \/ Precedes(p, d, c)
    BY <1>3, <1>4 DEF Precedes
  <2>. HIDE DEF R, allowed
  <2>. QED
    BY <1>5, <2>1, <2>2, <2>3 DEF Orders
<1>7. CASE p.limit = 0
  BY <1>7 DEF Planned
<1>8. CASE p.limit > 0
  <2>1. \A c \in allowed : {d \in allowed : Precedes(p, d, c)} = {d \in allowed : <<d, c>> \in R}
    BY <1>5
  <2>2. Planned(p, candidates) = {c \in allowed : Cardinality({d \in allowed : <<d, c>> \in R}) < p.limit}
    BY <1>8, <2>1 DEF Planned
  <2>3. Planned(p, candidates) \subseteq allowed
    BY DEF Planned
  <2>. HIDE DEF R, allowed
  <2>4. /\ Cardinality(Planned(p, candidates)) = Least(p.limit, Cardinality(allowed))
        /\ \A c \in Planned(p, candidates), d \in allowed \ Planned(p, candidates) : <<c, d>> \in R
    <3>1. PICK limit \in Nat : limit = p.limit
      BY <1>1
    <3>. DEFINE first == {c \in allowed : Cardinality({d \in allowed : <<d, c>> \in R}) < limit}
    <3>2. /\ Cardinality(first) = Least(limit, Cardinality(allowed))
          /\ \A c \in first, d \in allowed \ first : <<c, d>> \in R
      BY <1>2, <1>6, FirstOfOrdered
    <3>3. Planned(p, candidates) = first
      BY <2>2, <3>1
    <3>. QED
      BY <3>1, <3>2, <3>3
  <2>5. \A c \in Planned(p, candidates), d \in allowed \ Planned(p, candidates) : Precedes(p, c, d)
    BY <1>5, <2>3, <2>4
  <2>6. Cardinality(Planned(p, candidates)) =
          IF p.limit = 0 THEN Cardinality(allowed) ELSE Least(p.limit, Cardinality(allowed))
    BY <1>8, <2>4
  <2>. QED
    BY <2>3, <2>5, <2>6 DEF allowed
<1>. QED
  BY <1>1, <1>7, <1>8

\* The retention keeps the newest of the add-on's own backups, as many as it says, or
\* all when there are no more.
THEOREM RetentionKeepsTheNewest ==
  ASSUME BackupInv, NEW retention \in Nat
  PROVE  LET kept == OwnNow \ Surplus(retention)
         IN  /\ Cardinality(kept) = Least(retention, Cardinality(OwnNow))
             /\ \A b \in kept, d \in Surplus(retention) : b > d
<1>. DEFINE R == {x \in OwnNow \X OwnNow : x[1] > x[2]}
            first == {b \in OwnNow : Cardinality({d \in OwnNow : <<d, b>> \in R}) < retention}
<1>1. \A b \in OwnNow : b \in Nat
  BY DEF OwnNow, BackupInv
<1>2. Orders(R, OwnNow)
  BY <1>1 DEF Orders
<1>3. ASSUME NEW b \in OwnNow
      PROVE  {d \in OwnNow : d > b} = {d \in OwnNow : <<d, b>> \in R} /\ Cardinality({d \in OwnNow : d > b}) \in Nat
  BY OwnIsFinite, FS_Subset, FS_CardinalityType
<1>4. OwnNow \ Surplus(retention) = first /\ Surplus(retention) = OwnNow \ first
  <2>1. \A b \in OwnNow : b \in Surplus(retention) <=> ~(b \in first)
    <3>. SUFFICES ASSUME NEW b \in OwnNow PROVE b \in Surplus(retention) <=> ~(b \in first)
      OBVIOUS
    <3>1. b \in Surplus(retention) <=> Cardinality({d \in OwnNow : d > b}) >= retention
      BY DEF Surplus
    <3>2. b \in first <=> Cardinality({d \in OwnNow : d > b}) < retention
      BY <1>3
    <3>. QED
      BY <1>3, <3>1, <3>2
  <2>2. Surplus(retention) \subseteq OwnNow /\ first \subseteq OwnNow
    BY DEF Surplus
  <2>. QED
    BY <2>1, <2>2
<1>. HIDE DEF R
<1>5. /\ Cardinality(first) = Least(retention, Cardinality(OwnNow))
      /\ \A b \in first, d \in OwnNow \ first : <<b, d>> \in R
  BY <1>2, OwnIsFinite, FirstOfOrdered
<1>. QED
  BY <1>4, <1>5 DEF R
=============================================================================
