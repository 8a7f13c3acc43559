----------------------------- MODULE HistoryLog -----------------------------
(***************************************************************************)
(* HistoryStore: the service loop and the web threads append events to     *)
(* history.jsonl and trim it, with nothing to exclude each other, and the  *)
(* process may crash.  One action is one system call.                      *)
(*                                                                         *)
(* The file is the sequence of its lines.  Lines differ in length, so a    *)
(* text that is written over others may end in the middle of a line.       *)
(***************************************************************************)
EXTENDS HistoryLines, FiniteSets

CONSTANTS
  Threads,     \* the threads that audit
  MaxEvents,   \* bound: the number of events
  MaxCrashes   \* bound: the number of crashes

VARIABLES
  file,     \* history.jsonl
  thread,   \* where each thread is, and the lines it is going to write
  events,   \* the number of events there have been
  crashes,  \* history: the number of crashes there have been
  overlap,  \* history: have two appends overlapped, the last of which is not over yet?
  quiet     \* history: has there been neither a crash nor an overlap so far?

vars == <<file, thread, events, crashes, overlap, quiet>>

Idle == [at |-> "idle", lines |-> <<>>]
At(p, point) == thread[p].at = point
Busy(threads) == {p \in Threads : threads[p].at # "idle"}
Become(threads) ==
  /\ thread' = threads
  /\ overlap' = (\E p \in Busy(threads) : overlap \/ Busy(threads) # {p})
Goto(p, point, lines) ==
  /\ Become([thread EXCEPT ![p] = [at |-> point, lines |-> lines]])
  /\ quiet' = (quiet /\ ~overlap')
  /\ UNCHANGED crashes

\* append: the line is written at the end of the file, wherever that is.
AppendLine(p) ==
  /\ At(p, "idle") /\ events < MaxEvents
  /\ events' = events + 1
  /\ file' = Extended(file, events')
  /\ Goto(p, "trim", <<>>)

\* Mutant: the lines are joined without the end of the last.
ReadBackUnended(p) ==
  /\ At(p, "trim")
  /\ IF Len(file) <= Retention THEN Goto(p, "idle", <<>>)
     ELSE Goto(p, "truncate", [Newest(file) EXCEPT ![Retention] = Cut])
  /\ UNCHANGED <<file, events>>
\* _trim reads the file ...
ReadBack(p) ==
  /\ At(p, "trim")
  /\ IF Len(file) <= Retention THEN Goto(p, "idle", <<>>)
     ELSE Goto(p, "truncate", Newest(file))
  /\ UNCHANGED <<file, events>>

\* ... write_text opens it anew ...
Truncate(p) ==
  /\ At(p, "truncate")
  /\ file' = <<>>
  /\ Goto(p, "write", thread[p].lines)
  /\ UNCHANGED events

\* ... and writes from the beginning, over what others have written meanwhile.
Remains(old) ==
  UNION {LET rest == SubSeq(old, n + 1, Len(old)) IN {rest, <<Torn>> \o rest} : n \in 1..Len(old)}
Overwritten(lines, old) == {lines} \cup {lines \o rest : rest \in Remains(old)}
Rewrite(p) ==
  /\ At(p, "write")
  /\ file' \in Overwritten(thread[p].lines, file)
  /\ Goto(p, "idle", <<>>)
  /\ UNCHANGED events

\* Only the beginning of the text has been written.
CutShort(lines, old) ==
  UNION {Overwritten(SubSeq(lines, 1, n), old) \cup {SubSeq(lines, 1, n) \o <<Cut>>} :
           n \in 0..(Len(lines) - 1)}
Crash ==
  /\ crashes < MaxCrashes
  /\ crashes' = crashes + 1
  /\ \/ file' = file
     \/ file' = IF file # <<>> /\ file[Len(file)] = Cut THEN file ELSE Append(file, Cut)
     \/ \E p \in Threads : At(p, "write") /\ file' \in CutShort(thread[p].lines, file)
  /\ Become([p \in Threads |-> Idle])
  /\ quiet' = FALSE
  /\ UNCHANGED events

Init ==
  /\ file = <<>> /\ events = 0 /\ crashes = 0 /\ overlap = FALSE /\ quiet = TRUE
  /\ thread = [p \in Threads |-> Idle]

Next ==
  \/ \E p \in Threads : AppendLine(p) \/ ReadBack(p) \/ Truncate(p) \/ Rewrite(p)
  \/ Crash

Spec == Init /\ [][Next]_vars

-----------------------------------------------------------------------------
(* Properties *)

\* The lines that are in the file or on their way into it.
LinesOf(threads, text) ==
  LET rewriting == {p \in Threads : threads[p].at \in {"truncate", "write"}}
  IN IF rewriting = {} THEN text ELSE threads[CHOOSE p \in rewriting : TRUE].lines

Log == INSTANCE BoundedLog WITH log <- Newest(LinesOf(thread, file))

\* The history is a log of the newest events although each append is a sequence
\* of system calls, as long as appends do not overlap: also one after another
\* from different threads, after crashes, and after an overlap is over.  Lines other
\* than the oldest are lost by a crash and by nothing else.
ActsAsLog == Log!LogSpec

\* The newest of n events.
NewestOf(n) ==
  LET kept == IF n < Retention THEN n ELSE Retention IN [m \in 1..kept |-> n - kept + m]

\* As long as nothing crashes or overlaps, the history consists of the newest
\* events, all of them, in their order and readable, whichever thread each of them
\* comes from.
HistoryIsComplete == quiet /\ Busy(thread) = {} => file = NewestOf(events)
=============================================================================
