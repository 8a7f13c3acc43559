----------------------------- MODULE BoundedLog -----------------------------
(***************************************************************************)
(* What the audit history promises: a log of the newest events, to which   *)
(* an append adds one event and from which it takes none but the oldest.   *)
(* Only a crash may cost the newest lines.  Appends that overlap void the  *)
(* promise until all of them are over.                                     *)
(***************************************************************************)
EXTENDS HistoryLines

VARIABLES
  log,      \* the lines, oldest first
  events,   \* the number of events there have been
  crashes,  \* the number of crashes there have been
  overlap   \* have two appends overlapped, the last of which is not over yet?

logVars == <<log, events, crashes, overlap>>

AppendEvent ==
  /\ ~overlap /\ ~overlap'
  /\ events' = events + 1
  /\ log' = Newest(Extended(log, events'))
  /\ UNCHANGED crashes

\* A crash leaves the oldest lines, then perhaps a part of one.
LoseNewest ==
  /\ ~overlap'
  /\ crashes' = crashes + 1
  /\ \E n \in 0..Len(log), end \in {<<>>, <<Torn>>, <<Cut>>} :
       log' = Newest(SubSeq(log, 1, n) \o end)
  /\ UNCHANGED events

Overlapped ==
  /\ overlap \/ overlap'
  /\ events' \in {events, events + 1} /\ crashes' \in {crashes, crashes + 1}

LogInit == log = <<>> /\ events = 0 /\ crashes = 0 /\ overlap = FALSE
LogNext == AppendEvent \/ LoseNewest \/ Overlapped
LogSpec == LogInit /\ [][LogNext]_logVars
=============================================================================
