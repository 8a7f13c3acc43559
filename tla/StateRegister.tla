---------------------------- MODULE StateRegister ----------------------------
(***************************************************************************)
(* What the callers of StateStore rely on: state.json is a register on     *)
(* which updates take effect one at a time, completely, and for good.  Its *)
(* value is represented by the set of updates that it contains.            *)
(***************************************************************************)
CONSTANT Updates

VARIABLE value

TypeOK == value \in SUBSET Updates

Init == value = {}

Apply(u) == value' = value \cup {u}

Next == \E u \in Updates : Apply(u)

Spec == Init /\ [][Next]_value
=============================================================================
