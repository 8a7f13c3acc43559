--------------------------- MODULE CalendarProofs ---------------------------
(***************************************************************************)
(* What the triggers of Calendar find, for any day length and any months:  *)
(* the first of the moments they are to find that is still to come.        *)
(***************************************************************************)
EXTENDS Calendar, WellFoundedInduction, TLAPS

\* A set of numbers that is not empty has a smallest one.
LEMMA SmallestOfSome ==
  ASSUME NEW S \in SUBSET Nat, S # {}
  PROVE  Smallest(S) \in S /\ \A n \in S : Smallest(S) <= n
<1>1. PICK x \in S : \A y \in S : ~(<<y, x>> \in OpToRel(<, Nat))
  BY WFMin, NatLessThanWellFounded, Zenon
<1>2. \A y \in S : x <= y
  <2>1. SUFFICES ASSUME NEW y \in S PROVE ~(y < x)
    BY S \subseteq Nat
  <2>2. ~(<<y, x>> \in OpToRel(<, Nat))
    BY <1>1
  <2>. QED
    BY <2>2 DEF OpToRel
<1>. QED
  BY <1>2 DEF Smallest

-----------------------------------------------------------------------------
(* Moments *)

LEMMA BeforeIsOrder ==
  ASSUME NEW l \in Moment, NEW m \in Moment, NEW n \in Moment
  PROVE  /\ ~Before(m, m)
         /\ Before(l, m) /\ Before(m, n) => Before(l, n)
         /\ Before(l, m) /\ ~Before(n, m) => Before(l, n)
         /\ ~Before(m, l) /\ Before(m, n) => Before(l, n)
         /\ ~Before(m, l) /\ ~Before(n, m) => ~Before(n, l)
BY DayLengthAssumption DEF Moment, Slots, Before

LEMMA ShiftIsMoment ==
  ASSUME NEW m \in Moment, NEW k \in Int, -DayLength < k, k <= DayLength
  PROVE  Shift(m, k) \in Moment
<1>1. DayLength \in Nat /\ m.day \in Int /\ m.slot \in 0..(DayLength - 1)
  BY DayLengthAssumption DEF Moment, Slots
<1>2. CASE m.slot + k >= DayLength
  BY <1>1, <1>2 DEF Shift, Moment, Slots
<1>3. CASE m.slot + k < 0
  BY <1>1, <1>3 DEF Shift, Moment, Slots
<1>4. CASE m.slot + k >= 0 /\ m.slot + k < DayLength
  BY <1>1, <1>4 DEF Shift, Moment, Slots
<1>. QED
  BY <1>1, <1>2, <1>3, <1>4

\* Shifting keeps the order, and shifting forward leads forward.
LEMMA ShiftKeepsOrder ==
  ASSUME NEW m \in Moment, NEW n \in Moment, ~Before(n, m),
         NEW k \in Nat, NEW l \in Nat, k <= l, l <= DayLength
  PROVE  ~Before(Shift(n, l), Shift(m, k))
<1>1. /\ DayLength \in Nat /\ m.day \in Int /\ m.slot \in 0..(DayLength - 1)
      /\ n.day \in Int /\ n.slot \in 0..(DayLength - 1)
      /\ m.day < n.day \/ (m.day = n.day /\ m.slot <= n.slot)
  BY DayLengthAssumption DEF Moment, Slots, Before
<1>2. /\ Shift(m, k).day = IF m.slot + k >= DayLength THEN m.day + 1 ELSE m.day
      /\ Shift(m, k).slot = IF m.slot + k >= DayLength THEN m.slot + k - DayLength ELSE m.slot + k
  BY <1>1 DEF Shift, Moment
<1>3. /\ Shift(n, l).day = IF n.slot + l >= DayLength THEN n.day + 1 ELSE n.day
      /\ Shift(n, l).slot = IF n.slot + l >= DayLength THEN n.slot + l - DayLength ELSE n.slot + l
  BY <1>1 DEF Shift, Moment
<1>. QED
  BY <1>1, <1>2, <1>3 DEF Before

LEMMA ShiftedByNone ==
  ASSUME NEW m \in Moment
  PROVE  Shift(m, 0) = m
<1>1. DayLength \in Nat /\ m.day \in Int /\ m.slot \in 0..(DayLength - 1)
  BY DayLengthAssumption DEF Moment, Slots
<1>. QED
  BY <1>1 DEF Shift, Moment

-----------------------------------------------------------------------------
(* Weekdays *)

\* Every weekday comes round within a week.
LEMMA WeekdayComes ==
  ASSUME NEW day \in Int, NEW w \in Weekdays
  PROVE  \E d \in 1..7 : Weekday(day + d) = w
<1>1. PICK r \in 0..6 : r = (w - day) % 7
  BY DEF Weekdays
<1>2. CASE r = 0
  <2>1. Weekday(day + 7) = w
    BY <1>1, <1>2 DEF Weekday, Weekdays
  <2>. QED
    BY <2>1
<1>3. CASE r # 0
  <2>1. Weekday(day + r) = w
    BY <1>1, <1>3 DEF Weekday, Weekdays
  <2>. QED
    BY <1>3, <2>1
<1>. QED
  BY <1>2, <1>3

\* The trigger finds the first moment to come at the hour on one of the days.
THEOREM WeekdaySetFindsFirst ==
  ASSUME NEW days \in SUBSET Weekdays, days # {}, NEW hour \in Slots, NEW now \in Moment
  PROVE  LET next == WeekdaySetNext(days, hour, now)
         IN /\ next \in Moment /\ next.slot = hour /\ Weekday(next.day) \in days
            /\ Before(now, next)
            /\ \A m \in Moment : m.slot = hour /\ Weekday(m.day) \in days /\ Before(now, m) =>
                 ~Before(m, next)
<1>. DEFINE ahead == DaysAhead(days, hour, now)
<1>1. PICK d \in Int : d = Smallest(ahead) /\ d \in ahead /\ \A e \in ahead : d <= e
  <2>1. PICK w \in days : TRUE
    OBVIOUS
  <2>2. PICK e \in 1..7 : Weekday(now.day + e) = w
    BY WeekdayComes DEF Moment
  <2>3. e \in ahead
    BY <2>1, <2>2 DEF DaysAhead, Before, Moment
  <2>4. ahead \in SUBSET Nat /\ ahead # {} /\ \A f \in ahead : f \in Int
    BY <2>3 DEF DaysAhead
  <2>. HIDE DEF ahead
  <2>5. Smallest(ahead) \in ahead /\ \A f \in ahead : Smallest(ahead) <= f
    BY <2>4, SmallestOfSome
  <2>6. Smallest(ahead) \in Int
    BY <2>4, <2>5, Zenon
  <2>. QED
    BY <2>5, <2>6
<1>. PICK next : next = WeekdaySetNext(days, hour, now)
  OBVIOUS
<1>2. next = [day |-> now.day + d, slot |-> hour]
  BY <1>1 DEF WeekdaySetNext
<1>3. d \in 0..7 /\ Weekday(now.day + d) \in days /\ Before(now, next)
  BY <1>1, <1>2 DEF DaysAhead
<1>4. next \in Moment /\ now.day \in Int
  BY <1>2, <1>3 DEF Moment
<1>5. ASSUME NEW m \in Moment, m.slot = hour, Weekday(m.day) \in days, Before(now, m)
      PROVE  ~Before(m, next)
  <2>1. PICK e \in Int : e = m.day - now.day
    BY <1>4 DEF Moment
  <2>2. e >= 0 /\ m.day = now.day + e
    BY <1>4, <1>5, <2>1 DEF Before, Moment
  <2>3. CASE e <= 7
    <3>1. m = [day |-> now.day + e, slot |-> hour]
      BY <1>5, <2>2 DEF Moment
    <3>2. e \in ahead
      BY <1>5, <2>2, <2>3, <3>1 DEF DaysAhead
    <3>3. d <= e
      BY <1>1, <3>2
    <3>. QED
      BY <1>2, <1>4, <1>5, <2>2, <3>3 DEF Before, Moment, Slots
  <2>4. CASE e > 7
    BY <1>2, <1>3, <1>4, <2>2, <2>4 DEF Before, Moment
  <2>. QED
    BY <2>3, <2>4
<1>. QED
  BY <1>2, <1>3, <1>4, <1>5

\* For one weekday the two triggers agree.
THEOREM WeekdayTriggersAgree ==
  ASSUME NEW weekday \in Weekdays, NEW hour \in Slots, NEW now \in Moment
  PROVE  WeekdayNext(weekday, hour, now) = WeekdaySetNext({weekday}, hour, now)
<1>. PICK next : next = WeekdaySetNext({weekday}, hour, now)
  OBVIOUS
<1>1. /\ next \in Moment /\ next.slot = hour /\ Weekday(next.day) = weekday /\ Before(now, next)
      /\ \A m \in Moment : m.slot = hour /\ Weekday(m.day) = weekday /\ Before(now, m) =>
           ~Before(m, next)
  BY WeekdaySetFindsFirst
<1>2. PICK r \in 0..6 : r = (weekday - Weekday(now.day)) % 7
  BY DEF Weekdays, Weekday, Moment
<1>3. PICK e \in 0..7 : e = IF r = 0 /\ hour <= now.slot THEN 7 ELSE r
  OBVIOUS
<1>4. WeekdayNext(weekday, hour, now) = [day |-> now.day + e, slot |-> hour]
  BY <1>2, <1>3 DEF WeekdayNext
<1>5. Weekday(now.day + e) = weekday
  <2>. PICK v \in 0..6 : v = Weekday(now.day)
    BY DEF Weekday, Moment
  <2>0. r = (weekday - v) % 7 /\ weekday \in 0..6
    BY <1>2 DEF Weekdays
  <2>1. (now.day + r) % 7 = weekday /\ now.day \in Int
    <3>1. r = weekday - v \/ r = weekday - v + 7
      BY <2>0
    <3>2. PICK q \in Int : now.day = 7 * q + v
      <4>1. now.day \in Int /\ v = now.day % 7
        BY DEF Weekday, Moment
      <4>2. now.day \div 7 \in Int /\ now.day = 7 * (now.day \div 7) + v
        BY <4>1
      <4>. QED
        BY <4>2
    <3>3. now.day + r = 7 * q + weekday \/ now.day + r = 7 * (q + 1) + weekday
      BY <2>0, <3>1, <3>2
    <3>4. (7 * q + weekday) % 7 = weekday /\ (7 * (q + 1) + weekday) % 7 = weekday
      BY <2>0
    <3>. QED
      BY <3>3, <3>4 DEF Moment
  <2>2. e = r \/ (r = 0 /\ e = 7)
    BY <1>3
  <2>. QED
    BY <2>1, <2>2 DEF Weekday
<1>6. [day |-> now.day + e, slot |-> hour] \in Moment /\ Before(now, [day |-> now.day + e, slot |-> hour])
  BY <1>3 DEF Before, Moment, Slots
<1>7. ~Before([day |-> now.day + e, slot |-> hour], next)
  BY <1>1, <1>5, <1>6
<1>8. next.day <= now.day + e /\ next.day >= now.day
  BY <1>1, <1>7 DEF Before, Moment
<1>9. next.day = now.day + e
  <2>1. PICK f \in 0..7 : next.day = now.day + f /\ f <= e
    <3>1. next.day - now.day \in 0..7 /\ next.day - now.day <= e /\ next.day = now.day + (next.day - now.day)
      BY <1>1, <1>8 DEF Moment
    <3>. QED
      BY <3>1
  <2>2. (now.day + f) % 7 = (now.day + e) % 7 /\ now.day \in Int
    BY <1>1, <1>5, <2>1 DEF Weekday, Moment
  <2>3. f = e \/ (f = 0 /\ e = 7)
    BY <2>1, <2>2
  <2>4. ~(f = 0 /\ e = 7)
    BY <1>1, <1>3, <2>1 DEF Before, Moment, Slots
  <2>. QED
    BY <2>1, <2>3, <2>4
<1>10. next = [day |-> now.day + e, slot |-> hour]
  BY <1>1, <1>9 DEF Moment
<1>. QED
  BY <1>4, <1>10

-----------------------------------------------------------------------------
(* Months *)

Months == 1..(Len(MonthStart) - 1)

LEMMA MonthsInOrder ==
  ASSUME NEW m \in 1..Len(MonthStart), NEW n \in 1..Len(MonthStart)
  PROVE  /\ MonthStart[m] \in Nat
         /\ m < n <=> MonthStart[m] < MonthStart[n]
         /\ m <= n <=> MonthStart[m] <= MonthStart[n]
<1>1. MonthStart[m] \in Nat /\ MonthStart[n] \in Nat
  BY MonthsAssumption
<1>2. m < n \/ m = n \/ n < m
  OBVIOUS
<1>. QED
  BY <1>1, <1>2, MonthsAssumption

\* Every day that the calendar covers is in exactly one month.
LEMMA MonthOfDay ==
  ASSUME Len(MonthStart) > 2, MonthStart[1] = 0,
         NEW day \in Nat, day < MonthStart[Len(MonthStart)]
  PROVE  /\ MonthOf(day) \in Months
         /\ MonthStart[MonthOf(day)] <= day /\ day < MonthStart[MonthOf(day) + 1]
         /\ \A m \in Months : MonthStart[m] <= day /\ day < MonthStart[m + 1] => m = MonthOf(day)
<1>0. Len(MonthStart) \in Nat
  BY MonthsAssumption
<1>1. \E m \in Months : MonthStart[m] <= day /\ day < MonthStart[m + 1]
  <2>. DEFINE later == {n \in 1..Len(MonthStart) : day < MonthStart[n]}
  <2>1. later \in SUBSET Nat /\ later # {} /\ \A n \in later : n \in Int
    <3>1. Len(MonthStart) \in later
      BY <1>0
    <3>. QED
      BY <3>1
  <2>2. PICK n \in later : \A k \in later : n <= k
    <3>. HIDE DEF later
    <3>. QED
      BY <2>1, SmallestOfSome, Zenon
  <2>3. n \in 1..Len(MonthStart) /\ day < MonthStart[n]
    BY <2>2
  <2>4. n # 1
    BY <2>3
  <2>5. PICK m \in Months : n = m + 1
    <3>1. n - 1 \in Months /\ n = (n - 1) + 1
      BY <1>0, <2>3, <2>4 DEF Months
    <3>. QED
      BY <3>1
  <2>6. m \notin later /\ m \in 1..Len(MonthStart)
    BY <1>0, <2>2, <2>5 DEF Months
  <2>7. MonthStart[m] <= day
    BY <2>6, MonthsInOrder
  <2>. QED
    BY <2>3, <2>5, <2>7
<1>2. ASSUME NEW m \in Months, NEW n \in Months,
             MonthStart[m] <= day, day < MonthStart[m + 1],
             MonthStart[n] <= day, day < MonthStart[n + 1]
      PROVE  m = n
  <2>1. /\ m \in 1..Len(MonthStart) /\ m + 1 \in 1..Len(MonthStart)
        /\ n \in 1..Len(MonthStart) /\ n + 1 \in 1..Len(MonthStart)
    BY <1>0 DEF Months
  <2>2. MonthStart[m] < MonthStart[n + 1] /\ MonthStart[n] < MonthStart[m + 1]
    BY <1>2, <2>1, MonthsInOrder
  <2>3. m < n + 1 /\ n < m + 1
    BY <2>1, <2>2, MonthsInOrder
  <2>. QED
    BY <2>1, <2>3
<1>3. PICK m \in Months : m = MonthOf(day) /\ MonthStart[m] <= day /\ day < MonthStart[m + 1]
  BY <1>1, Zenon DEF MonthOf, Months
<1>. QED
  BY <1>2, <1>3

\* The day of a month is in that month, and those of later months are later.
LEMMA DayInMonth ==
  ASSUME NEW m \in Months, NEW day \in Nat \ {0}
  PROVE  /\ DayOfMonth(m, day) \in Nat
         /\ MonthStart[m] <= DayOfMonth(m, day) /\ DayOfMonth(m, day) < MonthStart[m + 1]
<1>0. m \in 1..Len(MonthStart) /\ m + 1 \in 1..Len(MonthStart) /\ m < m + 1
  BY MonthsAssumption DEF Months
<1>1. PICK a \in Nat, b \in Nat : a = MonthStart[m] /\ b = MonthStart[m + 1]
  BY <1>0, MonthsInOrder
<1>2. a < b
  BY <1>0, <1>1, MonthsInOrder
<1>3. DayOfMonth(m, day) = a + (IF day < b - a THEN day ELSE b - a) - 1
  BY <1>1 DEF DayOfMonth
<1>. QED
  BY <1>1, <1>2, <1>3

LEMMA DaysOfMonthsInOrder ==
  ASSUME NEW m \in Months, NEW n \in Months, m <= n, NEW day \in Nat \ {0}
  PROVE  DayOfMonth(m, day) <= DayOfMonth(n, day)
<1>0. Len(MonthStart) \in Nat
  BY MonthsAssumption
<1>1. CASE m = n
  BY <1>1, DayInMonth
<1>2. CASE m < n
  <2>1. m + 1 \in 1..Len(MonthStart) /\ n \in 1..Len(MonthStart) /\ m + 1 <= n
    BY <1>0, <1>2 DEF Months
  <2>2. MonthStart[m + 1] <= MonthStart[n] /\ MonthStart[m + 1] \in Nat /\ MonthStart[n] \in Nat
    BY <2>1, MonthsInOrder
  <2>. QED
    BY <2>2, DayInMonth
<1>. QED
  BY <1>0, <1>1, <1>2 DEF Months

\* The trigger finds the first moment to come at the hour on the day of a month, or
\* on its last day where a month is shorter, as long as the calendar goes on.
THEOREM MonthlyFindsFirst ==
  ASSUME Len(MonthStart) > 2, MonthStart[1] = 0,
         NEW day \in Nat \ {0}, NEW hour \in Slots, NEW now \in Moment,
         now.day >= 0, now.day < MonthStart[Len(MonthStart) - 1]
  PROVE  LET next == MonthlyNext(day, hour, now)
         IN /\ next \in Moment /\ Before(now, next)
            /\ next.day \in Nat /\ next.day < MonthStart[Len(MonthStart)]
            /\ next = [day |-> DayOfMonth(MonthOf(next.day), day), slot |-> hour]
            /\ \A m \in Moment :
                 /\ m.day \in Nat /\ m.day < MonthStart[Len(MonthStart)]
                 /\ m = [day |-> DayOfMonth(MonthOf(m.day), day), slot |-> hour]
                 /\ Before(now, m)
                 => ~Before(m, next)
<1>0. /\ Len(MonthStart) \in Nat /\ now.day \in Nat
      /\ MonthStart[Len(MonthStart) - 1] < MonthStart[Len(MonthStart)]
      /\ now.day < MonthStart[Len(MonthStart)]
  <2>1. Len(MonthStart) \in Nat /\ now.day \in Nat
    BY MonthsAssumption DEF Moment
  <2>2. Len(MonthStart) - 1 \in 1..Len(MonthStart) /\ Len(MonthStart) \in 1..Len(MonthStart)
    BY <2>1
  <2>3. /\ MonthStart[Len(MonthStart) - 1] < MonthStart[Len(MonthStart)]
        /\ MonthStart[Len(MonthStart) - 1] \in Nat /\ MonthStart[Len(MonthStart)] \in Nat
    BY <2>1, <2>2, MonthsInOrder
  <2>. QED
    BY <2>1, <2>3
<1>. DEFINE ahead == MonthsAhead(day, hour, now)
<1>1. PICK this \in Months : /\ this = MonthOf(now.day)
                             /\ MonthStart[this] <= now.day /\ now.day < MonthStart[this + 1]
  BY <1>0, MonthOfDay
<1>2. this + 1 \in Months
  <2>1. this \in 1..Len(MonthStart) /\ Len(MonthStart) - 1 \in 1..Len(MonthStart)
    BY <1>0 DEF Months
  <2>2. MonthStart[this] < MonthStart[Len(MonthStart) - 1]
    BY <1>0, <1>1, <2>1, MonthsInOrder
  <2>3. this < Len(MonthStart) - 1
    BY <2>1, <2>2, MonthsInOrder
  <2>. QED
    BY <1>0, <2>3 DEF Months
<1>3. \A m \in ahead : m \in Months /\ m >= this /\ Before(now, [day |-> DayOfMonth(m, day), slot |-> hour])
  BY <1>0, <1>1 DEF MonthsAhead, Months
<1>4. this + 1 \in ahead
  <2>1. MonthStart[this + 1] <= DayOfMonth(this + 1, day) /\ DayOfMonth(this + 1, day) \in Nat
    BY <1>2, DayInMonth
  <2>2. MonthStart[this + 1] \in Nat
    BY <1>0, <1>2, MonthsInOrder DEF Months
  <2>3. now.day < DayOfMonth(this + 1, day)
    BY <1>0, <1>1, <2>1, <2>2
  <2>. QED
    BY <1>1, <1>2, <2>3 DEF MonthsAhead, Before, Months
<1>5. PICK k \in Months : k = Smallest(ahead) /\ k \in ahead /\ \A m \in ahead : k <= m
  <2>. HIDE DEF ahead
  <2>1. ahead \in SUBSET Nat /\ ahead # {}
    <3>1. \A m \in Months : m \in Nat
      BY <1>0 DEF Months
    <3>. QED
      BY <1>3, <1>4, <3>1
  <2>2. Smallest(ahead) \in ahead /\ \A m \in ahead : Smallest(ahead) <= m
    BY <2>1, SmallestOfSome
  <2>. QED
    BY <1>3, <2>2
<1>. PICK next : next = MonthlyNext(day, hour, now)
  OBVIOUS
<1>6. next = [day |-> DayOfMonth(k, day), slot |-> hour]
  BY <1>5 DEF MonthlyNext
<1>7. Before(now, next)
  BY <1>3, <1>5, <1>6
<1>8. /\ next.day \in Nat /\ MonthStart[k] <= next.day /\ next.day < MonthStart[k + 1]
  BY <1>5, <1>6, DayInMonth
<1>9. next.day < MonthStart[Len(MonthStart)]
  <2>1. k + 1 \in 1..Len(MonthStart) /\ Len(MonthStart) \in 1..Len(MonthStart) /\ k + 1 <= Len(MonthStart)
    BY <1>0, <1>5 DEF Months
  <2>2. /\ MonthStart[k + 1] <= MonthStart[Len(MonthStart)]
        /\ MonthStart[k + 1] \in Nat /\ MonthStart[Len(MonthStart)] \in Nat
    BY <2>1, MonthsInOrder
  <2>. QED
    BY <1>8, <2>2
<1>10. MonthOf(next.day) = k
  BY <1>5, <1>8, <1>9, MonthOfDay
<1>11. next \in Moment
  BY <1>6, <1>8 DEF Moment
<1>12. ASSUME NEW m \in Moment, m.day \in Nat, m.day < MonthStart[Len(MonthStart)],
              m = [day |-> DayOfMonth(MonthOf(m.day), day), slot |-> hour], Before(now, m)
       PROVE  ~Before(m, next)
  <2>1. PICK l \in Months : /\ l = MonthOf(m.day)
                            /\ MonthStart[l] <= m.day /\ m.day < MonthStart[l + 1]
    BY <1>12, MonthOfDay
  <2>2. this <= l
    <3>1. this \in 1..Len(MonthStart) /\ l + 1 \in 1..Len(MonthStart)
      BY <1>0, <2>1 DEF Months
    <3>2. now.day <= m.day
      BY <1>0, <1>12 DEF Before
    <3>3. MonthStart[this] < MonthStart[l + 1]
      BY <1>0, <1>1, <1>12, <2>1, <3>1, <3>2, MonthsInOrder, SMTT(30)
    <3>4. this < l + 1
      BY <3>1, <3>3, MonthsInOrder
    <3>. QED
      BY <3>1, <3>4, <2>1 DEF Months
  <2>3. k <= l
    <3>1. CASE l <= this + 12
      <4>1. l \in ahead
        <5>1. l \in this..(this + 12) /\ l < Len(MonthStart)
          BY <1>0, <2>1, <2>2, <3>1 DEF Months
        <5>2. Before(now, [day |-> DayOfMonth(l, day), slot |-> hour])
          BY <1>12, <2>1
        <5>. QED
          BY <1>1, <5>1, <5>2 DEF MonthsAhead
      <4>. QED
        BY <1>5, <4>1
    <3>2. CASE l > this + 12
      <4>1. k <= this + 1
        BY <1>4, <1>5
      <4>. QED
        BY <2>1, <3>2, <4>1 DEF Months
    <3>. QED
      BY <2>1, <3>1, <3>2 DEF Months
  <2>4. DayOfMonth(k, day) <= DayOfMonth(l, day)
    BY <1>5, <2>1, <2>3, DaysOfMonthsInOrder
  <2>5. next.day <= m.day /\ m.slot = hour /\ next.slot = hour
    BY <1>6, <1>12, <2>1, <2>4
  <2>. QED
    BY <1>8, <1>12, <2>5 DEF Before, Slots
<1>. QED
  BY <1>6, <1>7, <1>8, <1>9, <1>10, <1>11, <1>12

=============================================================================
