------------------------------ MODULE Calendar ------------------------------
(***************************************************************************)
(* The calendar arithmetic of the scheduler: the moments the triggers find *)
(* and the calendar rules of the policy.                                   *)
(*                                                                         *)
(* A moment is a day and a slot of the day; the days are numbered from a   *)
(* Monday, and a slot stands for the resolution of the schedule (minutes   *)
(* in the code).  Months are given by their first days.                    *)
(***************************************************************************)
EXTENDS Integers, Sequences

CONSTANTS
  DayLength,   \* the slots of a day
  MonthStart   \* the first day of each month, in order; the last entry only ends one

ASSUME DayLengthAssumption == DayLength \in Nat \ {0}
ASSUME MonthsAssumption ==
  /\ MonthStart \in Seq(Nat)
  /\ \A m, n \in 1..Len(MonthStart) : m < n => MonthStart[m] < MonthStart[n]

Weekdays == 0..6
Weekday(day) == day % 7
Slots == 0..(DayLength - 1)
Moment == [day : Int, slot : Slots]
Before(m, n) == m.day < n.day \/ (m.day = n.day /\ m.slot < n.slot)

\* add_seconds, and astimezone for a zone less than a day away: k may be negative.
Shift(m, k) ==
  LET slot == m.slot + k
  IN IF slot >= DayLength THEN [day |-> m.day + 1, slot |-> slot - DayLength]
     ELSE IF slot < 0 THEN [day |-> m.day - 1, slot |-> slot + DayLength]
     ELSE [m EXCEPT !.slot = slot]

Smallest(S) == CHOOSE n \in S : \A m \in S : n <= m

-----------------------------------------------------------------------------
(* Triggers, without the jitter *)

\* Mutant: a moment that is now is still to come.
DaysAheadOrNow(days, hour, now) ==
  {d \in 0..7 : /\ Weekday(now.day + d) \in days
                /\ ~Before([day |-> now.day + d, slot |-> hour], now)}
\* The days of the coming week on which the set of weekdays comes round.
DaysAhead(days, hour, now) ==
  {d \in 0..7 : /\ Weekday(now.day + d) \in days
                /\ Before(now, [day |-> now.day + d, slot |-> hour])}

\* WeekdaySetTimeTrigger
WeekdaySetNext(days, hour, now) ==
  [day |-> now.day + Smallest(DaysAhead(days, hour, now)), slot |-> hour]

\* WeekdayTimeTrigger
WeekdayNext(weekday, hour, now) ==
  LET ahead == (weekday - Weekday(now.day)) % 7
  IN [day |-> now.day + (IF ahead = 0 /\ hour <= now.slot THEN 7 ELSE ahead), slot |-> hour]

MonthOf(day) ==
  CHOOSE m \in 1..(Len(MonthStart) - 1) : MonthStart[m] <= day /\ day < MonthStart[m + 1]

\* A day that a month does not have is its last one.
DayOfMonth(m, day) ==
  LET length == MonthStart[m + 1] - MonthStart[m]
  IN MonthStart[m] + (IF day < length THEN day ELSE length) - 1

\* The months, this one included, in which the day is still to come.
MonthsAhead(day, hour, now) ==
  {m \in MonthOf(now.day)..(MonthOf(now.day) + 12) :
     /\ m < Len(MonthStart)
     /\ Before(now, [day |-> DayOfMonth(m, day), slot |-> hour])}

\* MonthlyDayTimeTrigger
MonthlyNext(day, hour, now) ==
  [day |-> DayOfMonth(Smallest(MonthsAhead(day, hour, now)), day), slot |-> hour]

\* OneTimeTrigger: a moment that has passed comes again in a hundred years.
OneTimeNext(at, now) == IF Before(now, at) THEN at ELSE [now EXCEPT !.day = @ + 36500]

-----------------------------------------------------------------------------
(* Rules *)

\* within_time_window: both ends are in the window, which may lie across midnight.
WithinWindow(slot, window) ==
  IF window.start <= window.end
  THEN window.start <= slot /\ slot <= window.end
  ELSE window.start <= slot \/ slot <= window.end
=============================================================================
