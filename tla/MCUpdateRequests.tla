------------------------- MODULE MCUpdateRequests -------------------------
(* An instance of UpdateRequests for TLC.                                  *)
EXTENDS UpdateRequests

CONSTANTS core, os, addon

MCTypeOf == [i \in Items |-> CASE i = core -> "core" [] i = os -> "os" [] OTHER -> "addon"]
\* "Home Assistant Core" < "Home Assistant OS" < the name of the add-on
MCNameRank == [i \in Items |-> CASE i = core -> 1 [] i = os -> 2 [] OTHER -> 3]
\* 1.0.0, 1.0.1, and 1.0.1 with a suffix, which only the text tells from the one before
MCVersions == {<<1, 0, n, 0>> : n \in {0, 1}} \cup {<<1, 0, 1, 1>>}
\* The version of the add-on with a suffix is for later.
MCBucket == [x \in Items \X MCVersions |-> IF x[1] = addon /\ x[2][4] = 1 THEN 60 ELSE 10]

\* A backup before the updates, of which one is kept, everything is wanted, and a
\* request is made twice.
Policy ==
  [types |-> Types, excluded |-> {}, pins |-> <<>>, minimums |-> <<>>, securityOnly |-> FALSE,
   rollout |-> 100, strategy |-> "addons_first", limit |-> 0, backup |-> TRUE, retention |-> 1,
   attempts |-> 2]
Pinned == [i \in Items |-> <<1, 0, 1, 0>>]

MCPolicies ==
  {Policy, [Policy EXCEPT !.pins = Pinned, !.strategy = "core_first", !.rollout = 50],
   [Policy EXCEPT !.backup = FALSE, !.minimums = Pinned, !.strategy = "addons_last"],
   [Policy EXCEPT !.securityOnly = TRUE, !.retention = 0],
   [Policy EXCEPT !.backup = FALSE, !.excluded = {addon}, !.limit = 1],
   [Policy EXCEPT !.attempts = 0]}
=============================================================================
