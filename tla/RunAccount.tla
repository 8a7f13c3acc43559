------------------------------ MODULE RunAccount ------------------------------
(***************************************************************************)
(* What the run part of state.json promises to those who read it, over all *)
(* the steps, waits and crashes of a run: which run there is and on which  *)
(* items, what has been asked of the Supervisor for it, what is to be      *)
(* tried again, and how the last run ended.  RunLifecycle implements it,   *)
(* and so does UpdateRequests, which takes a run apart into its requests.  *)
(***************************************************************************)
CONSTANT Items

VARIABLES
  up,      \* is the process running
  phase,   \* of the run on record: "none", "running", "abandoned" or "ended"
  mode,    \* running_job: its mode ...
  items,   \* ... and its items
  rest,    \* those of them whose turn is still to come
  active,  \* the item being updated, if any
  asked,   \* the items whose update has been asked for without a result on record
  unsettled, \* the failed items of a run that has ended, not in the retry queue yet
  owed,    \* retry_queue
  last     \* the status of last_run

account == <<up, phase, mode, items, rest, active, asked, unsettled, owed, last>>

\* A new run may take the place of one that was given up only if the items of
\* that one are still to be retried.
NoneIsLost == phase = "none" \/ (phase = "abandoned" /\ items \subseteq owed)

\* A retry is about items that are owed, an install about at least one.
Begin(m, plan) ==
  /\ up /\ NoneIsLost
  /\ \/ m = "install" /\ plan # {}
     \/ m = "retry" /\ plan \subseteq owed
  /\ phase' = "running" /\ mode' = m /\ items' = plan /\ rest' = plan
  /\ asked' = {}
  /\ UNCHANGED <<up, active, unsettled, owed, last>>

\* Items are updated one after another, and none is asked for twice.
Ask(i) ==
  /\ up /\ phase = "running" /\ active = {}
  /\ i \in rest \ asked
  /\ rest' = rest \ {i} /\ active' = {i} /\ asked' = asked \cup {i}
  /\ UNCHANGED <<up, phase, mode, items, unsettled, owed, last>>

\* A run that only simulates asks for nothing.
Simulate(i) ==
  /\ up /\ phase = "running" /\ active = {}
  /\ i \in rest
  /\ rest' = rest \ {i}
  /\ UNCHANGED <<up, phase, mode, items, active, asked, unsettled, owed, last>>

Answered ==
  /\ up /\ phase = "running" /\ active # {}
  /\ active' = {}
  /\ UNCHANGED <<up, phase, mode, items, rest, asked, unsettled, owed, last>>

RunEnds(status, failed) ==
  /\ phase' = "ended" /\ mode' = "none" /\ items' = {} /\ rest' = {}
  /\ last' = status /\ unsettled' = failed
  /\ UNCHANGED <<up, active, owed>>

\* Every item of the run has had its turn, and the status sums them up.
Complete ==
  /\ up /\ phase = "running" /\ rest = {} /\ active = {}
  /\ \E failed \in SUBSET items :
       RunEnds(IF items = {} THEN "skipped" ELSE IF failed = {} THEN "success"
               ELSE IF failed = items THEN "failed" ELSE "partial", failed)
  /\ asked' = {}

\* An exception ends an install without results: on its way to the job, between two of
\* its items, in the rollback of a failed run, or after it has been settled already.
BreakOff ==
  /\ up /\ active = {}
  /\ NoneIsLost \/ (phase = "running" /\ mode = "install")
  /\ RunEnds("failed", {})
  /\ asked' = asked

\* The failed items replace those owed.  A run without results leaves them.
Settle ==
  /\ up /\ phase = "ended"
  /\ phase' = "none" /\ unsettled' = {}
  /\ owed' = IF last = "failed" /\ unsettled = {} THEN owed ELSE unsettled
  /\ UNCHANGED <<up, mode, items, rest, active, asked, last>>

\* An exception in a retry leaves its job behind.
GiveUp ==
  /\ up /\ phase = "running" /\ mode = "retry" /\ active = {}
  /\ phase' = "abandoned" /\ rest' = {}
  /\ UNCHANGED <<up, mode, items, active, asked, unsettled, owed, last>>

\* By the user, or by the watchdog, which forgets what has been asked for.
Clear ==
  /\ up /\ phase \in {"none", "abandoned"}
  /\ phase' = "none" /\ mode' = "none" /\ items' = {} /\ owed' = {}
  /\ asked' = {} \/ (asked' = asked /\ phase = "abandoned")
  /\ UNCHANGED <<up, rest, active, unsettled, last>>

\* What has not reached the retry queue by then never will.
Crash ==
  /\ up /\ ~up'
  /\ phase' = IF phase = "running" THEN "abandoned" ELSE IF phase = "ended" THEN "none" ELSE phase
  /\ rest' = {} /\ active' = {} /\ unsettled' = {}
  /\ UNCHANGED <<mode, items, asked, owed, last>>

\* A start turns a run that was cut off into an interrupted one, all of whose items
\* are owed.
Start ==
  /\ ~up /\ up'
  /\ phase' = "none" /\ mode' = "none" /\ items' = {}
  /\ IF phase = "abandoned"
     THEN owed' = items /\ last' = "interrupted"
     ELSE UNCHANGED <<owed, last>>
  /\ UNCHANGED <<rest, active, asked, unsettled>>

AccountInit ==
  /\ up = TRUE /\ phase = "none" /\ mode = "none" /\ items = {} /\ rest = {} /\ active = {} /\ asked = {}
  /\ unsettled = {} /\ owed = {} /\ last = "none"

AccountNext ==
  \/ \E m \in {"install", "retry"}, plan \in SUBSET Items : Begin(m, plan)
  \/ \E i \in Items : Ask(i) \/ Simulate(i)
  \/ Answered \/ Complete \/ BreakOff \/ Settle \/ GiveUp \/ Clear \/ Crash \/ Start

AccountSpec == AccountInit /\ [][AccountNext]_account
=============================================================================
