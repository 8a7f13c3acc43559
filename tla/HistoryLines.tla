---------------------------- MODULE HistoryLines ----------------------------
(***************************************************************************)
(* The lines of history.jsonl: what an append and a trim make of them.     *)
(* Events are numbered from 1 and stand for their lines.                   *)
(***************************************************************************)
EXTENDS Integers, Sequences

CONSTANT Retention   \* HISTORY_RETENTION

ASSUME RetentionAssumption == Retention \in Nat \ {0}

\* A line that is no event, with its end and without.
Torn == 0
Cut == -1

\* Mutant: all but the newest.
AllButNewest(lines) ==
  IF Len(lines) <= Retention THEN lines ELSE SubSeq(lines, 1, Retention)
\* lines[-HISTORY_RETENTION:]
Newest(lines) ==
  IF Len(lines) <= Retention THEN lines
  ELSE SubSeq(lines, Len(lines) - Retention + 1, Len(lines))

\* What is written after a line without an end becomes part of that line.
Extended(lines, event) ==
  IF lines # <<>> /\ lines[Len(lines)] = Cut THEN [lines EXCEPT ![Len(lines)] = Torn]
  ELSE Append(lines, event)
=============================================================================
