-------------------------- MODULE HistoryLogProofs --------------------------
(***************************************************************************)
(* Proofs about HistoryLog for any number of threads and any retention:    *)
(* without overlaps the file implements BoundedLog, and without crashes    *)
(* too it holds exactly the newest events.                                 *)
(***************************************************************************)
EXTENDS HistoryLog, SequenceTheorems, TLAPS

-----------------------------------------------------------------------------
(* Lines *)

\* Of more lines than are kept the last are.
LEMMA NewestOfMany ==
  ASSUME NEW s \in Seq(Int), NEW k \in Nat, Len(s) = Retention + k
  PROVE  /\ Newest(s) \in Seq(Int) /\ Len(Newest(s)) = Retention
         /\ \A n \in 1..Retention : Newest(s)[n] = s[n + k]
<1>0. Retention \in Nat /\ Retention > 0 /\ Len(s) \in Nat
  BY RetentionAssumption
<1>. USE <1>0
<1>1. CASE k = 0
  BY <1>1 DEF Newest
<1>2. CASE k > 0
  <2>1. Newest(s) = SubSeq(s, k + 1, Len(s))
    BY <1>2 DEF Newest
  <2>2. k + 1 \in 1..(Len(s) + 1) /\ Len(s) \in k..Len(s)
    BY <1>2
  <2>3. /\ SubSeq(s, k + 1, Len(s)) \in Seq(Int)
        /\ Len(SubSeq(s, k + 1, Len(s))) = Retention
    BY <1>2, <2>2, SubSeqProperties
  <2>4. \A n \in 1..(Len(s) - (k + 1) + 1) : SubSeq(s, k + 1, Len(s))[n] = s[(k + 1) + n - 1]
    BY <2>2, SubSeqProperties
  <2>5. ASSUME NEW n \in 1..Retention
        PROVE  SubSeq(s, k + 1, Len(s))[n] = s[n + k]
    <3>1. n \in 1..(Len(s) - (k + 1) + 1) /\ (k + 1) + n - 1 = n + k
      OBVIOUS
    <3>. QED
      BY <2>4, <3>1
  <2>. QED
    BY <2>1, <2>3, <2>5
<1>. QED
  BY <1>1, <1>2

\* All of fewer are.
LEMMA NewestOfFew ==
  ASSUME NEW s, Len(s) <= Retention
  PROVE  Newest(s) = s
BY DEF Newest

LEMMA NewestType ==
  ASSUME NEW s \in Seq(Int)
  PROVE  Newest(s) \in Seq(Int) /\ Len(Newest(s)) <= Retention
<1>0. Retention \in Nat /\ Retention > 0 /\ Len(s) \in Nat
  BY RetentionAssumption
<1>. USE <1>0
<1>1. CASE Len(s) <= Retention
  BY <1>1, NewestOfFew
<1>2. CASE Len(s) > Retention
  <2>1. PICK k \in Nat : Len(s) = Retention + k
    BY <1>2
  <2>2. Newest(s) \in Seq(Int) /\ Len(Newest(s)) = Retention
    BY <2>1, NewestOfMany
  <2>. QED
    BY <2>2
<1>. QED
  BY <1>1, <1>2

\* Trimming twice is trimming once.
LEMMA NewestTwice ==
  ASSUME NEW s \in Seq(Int)
  PROVE  Newest(Newest(s)) = Newest(s)
BY NewestType, NewestOfFew

\* What is kept after a line is added does not depend on lines trimmed before.
LEMMA NewestAppended ==
  ASSUME NEW s \in Seq(Int), NEW e \in Int
  PROVE  Newest(Append(s, e)) = Newest(Append(Newest(s), e))
<1>0. Retention \in Nat /\ Retention > 0 /\ Len(s) \in Nat
  BY RetentionAssumption
<1>. USE <1>0
<1>1. CASE Len(s) <= Retention
  BY <1>1, NewestOfFew
<1>2. CASE Len(s) > Retention
  <2>1. PICK k \in Nat : Len(s) = Retention + k
    BY <1>2
  <2>. PICK t \in Seq(Int) : t = Newest(s)
    BY NewestType
  <2>2. Len(t) = Retention /\ \A n \in 1..Retention : t[n] = s[n + k]
    BY <2>1, NewestOfMany
  <2>0. PICK l \in Nat, m \in Nat : l = k + 1 /\ m = 1
    BY <2>1
  <2>3. /\ Append(s, e) \in Seq(Int) /\ Len(Append(s, e)) = Retention + l
        /\ \A n \in 1..Len(s) : Append(s, e)[n] = s[n]
        /\ Append(s, e)[Retention + l] = e
    BY <2>0, <2>1, AppendProperties
  <2>4. /\ Append(t, e) \in Seq(Int) /\ Len(Append(t, e)) = Retention + m
        /\ \A n \in 1..Retention : Append(t, e)[n] = t[n]
        /\ Append(t, e)[Retention + m] = e
    BY <2>0, <2>2, AppendProperties
  <2>5. ASSUME NEW n \in 1..Retention
        PROVE  Append(s, e)[n + l] = Append(t, e)[n + m]
    <3>1. CASE n = Retention
      BY <2>3, <2>4, <3>1
    <3>2. CASE n < Retention
      <4>1. n + m = n + 1 /\ n + 1 \in 1..Retention /\ n + l \in 1..Len(s) /\ n + l = (n + 1) + k
        BY <2>0, <2>1, <3>2
      <4>. QED
        BY <2>2, <2>3, <2>4, <4>1, ZenonT(30)
    <3>3. n = Retention \/ n < Retention
      OBVIOUS
    <3>. QED
      BY <3>1, <3>2, <3>3, Zenon
  <2>6. PICK a \in Seq(Int), b \in Seq(Int) : a = Append(s, e) /\ b = Append(t, e)
    BY <2>3, <2>4
  <2>7. /\ Newest(a) \in Seq(Int) /\ Len(Newest(a)) = Retention
        /\ \A n \in 1..Retention : Newest(a)[n] = a[n + l]
    BY <2>3, <2>6, NewestOfMany
  <2>8. /\ Newest(b) \in Seq(Int) /\ Len(Newest(b)) = Retention
        /\ \A n \in 1..Retention : Newest(b)[n] = b[n + m]
    BY <2>4, <2>6, NewestOfMany
  <2>9. \A n \in 1..Len(Newest(a)) : Newest(a)[n] = Newest(b)[n]
    BY <2>5, <2>6, <2>7, <2>8
  <2>10. Newest(a) = Newest(b)
    BY <2>7, <2>8, <2>9, SeqEqual
  <2>. QED
    BY <2>6, <2>10
<1>. QED
  BY <1>1, <1>2

\* Nor does what an append makes of them.
LEMMA NewestExtended ==
  ASSUME NEW s \in Seq(Int), NEW e \in Int
  PROVE  Newest(Extended(s, e)) = Newest(Extended(Newest(s), e))
<1>0. Retention \in Nat /\ Retention > 0 /\ Len(s) \in Nat
  BY RetentionAssumption
<1>. USE <1>0
<1>1. CASE Len(s) <= Retention
  BY <1>1, NewestOfFew
<1>2. CASE Len(s) > Retention
  <2>1. PICK k \in Nat : Len(s) = Retention + k
    BY <1>2
  <2>. PICK t \in Seq(Int) : t = Newest(s)
    BY NewestType
  <2>2. Len(t) = Retention /\ \A n \in 1..Retention : t[n] = s[n + k]
    BY <2>1, NewestOfMany
  <2>3. t[Retention] = s[Len(s)] /\ t # <<>> /\ s # <<>>
    BY <1>2, <2>1, <2>2
  <2>4. CASE s[Len(s)] = Cut
    <3>. DEFINE u == [s EXCEPT ![Len(s)] = Torn]
                v == [t EXCEPT ![Retention] = Torn]
    <3>. PICK m \in Nat : m = 0
      OBVIOUS
    <3>0. Torn \in Int /\ Len(s) \in 1..Len(s) /\ Retention \in 1..Len(t)
      BY <1>2, <2>2 DEF Torn
    <3>1. Extended(s, e) = u /\ Extended(t, e) = v
      BY <2>2, <2>3, <2>4 DEF Extended
    <3>2. /\ u \in Seq(Int) /\ Len(u) = Retention + k
          /\ \A n \in 1..Len(s) : u[n] = IF n = Len(s) THEN Torn ELSE s[n]
      BY <2>1, <3>0, ExceptSeq
    <3>3. /\ v \in Seq(Int) /\ Len(v) = Retention + m
          /\ \A n \in 1..Retention : v[n] = IF n = Retention THEN Torn ELSE t[n]
      BY <2>2, <3>0, ExceptSeq
    <3>. HIDE DEF u, v
    <3>4. ASSUME NEW n \in 1..Retention
          PROVE  u[n + k] = v[n + m]
      <4>1. n + k \in 1..Len(s) /\ (n + k = Len(s) <=> n = Retention) /\ n + m = n
        BY <2>1
      <4>. QED
        BY <2>2, <3>2, <3>3, <4>1
    <3>5. Newest(u) = Newest(v)
      <4>1. /\ Newest(u) \in Seq(Int) /\ Len(Newest(u)) = Retention
            /\ \A n \in 1..Retention : Newest(u)[n] = u[n + k]
        BY <3>2, NewestOfMany
      <4>2. /\ Newest(v) \in Seq(Int) /\ Len(Newest(v)) = Retention
            /\ \A n \in 1..Retention : Newest(v)[n] = v[n + m]
        BY <3>3, NewestOfMany
      <4>3. \A n \in 1..Len(Newest(u)) : Newest(u)[n] = Newest(v)[n]
        BY <3>4, <4>1, <4>2
      <4>. QED
        BY <4>1, <4>2, <4>3, SeqEqual
    <3>. QED
      BY <3>1, <3>5
  <2>5. CASE s[Len(s)] # Cut
    BY <2>2, <2>3, <2>5, NewestAppended DEF Extended
  <2>. QED
    BY <2>4, <2>5
<1>. QED
  BY <1>1, <1>2

-----------------------------------------------------------------------------
(* Threads *)

Points == {"idle", "trim", "truncate", "write"}
ThreadType == [at : Points, lines : Seq(Int)]

TypeInv ==
  /\ file \in Seq(Int) /\ events \in Nat
  /\ overlap \in BOOLEAN /\ quiet \in BOOLEAN
  /\ thread \in [Threads -> ThreadType]
  /\ \A p \in Threads : At(p, "truncate") \/ At(p, "write") => Len(thread[p].lines) = Retention

\* A thread that overlaps no other finds the file as it left it.
AloneInv ==
  ~overlap =>
    \A p \in Busy(thread) :
      /\ Busy(thread) = {p}
      /\ At(p, "truncate") => thread[p].lines = Newest(file)
      /\ At(p, "write") => file = <<>>

\* Without a crash or an overlap so far all of the newest events are there.
QuietInv ==
  quiet =>
    /\ ~overlap
    /\ Busy(thread) = {} => file = NewestOf(events)
    /\ \A p \in Busy(thread) :
         /\ events > 0
         /\ At(p, "trim") => file = Append(NewestOf(events - 1), events)
         /\ At(p, "truncate") \/ At(p, "write") => thread[p].lines = NewestOf(events)

\* If nobody overlaps after a step of a thread that is not idle before and after
\* it, all others are idle.
LEMMA OthersIdle ==
  ASSUME TypeInv, AloneInv, NEW p \in Threads, NEW point \in Points, NEW lines \in Seq(Int),
         Goto(p, point, lines), point # "idle" \/ ~At(p, "idle")
  PROVE  /\ ~overlap' => \A q \in Threads \ {p} : thread[q].at = "idle"
         /\ ~overlap' /\ point # "idle" => ~overlap
         /\ ~overlap /\ ~At(p, "idle") => ~overlap'
         /\ overlap' \in BOOLEAN /\ quiet' \in BOOLEAN
<1>. DEFINE t == [thread EXCEPT ![p] = [at |-> point, lines |-> lines]]
<1>1. /\ t \in [Threads -> ThreadType] /\ t[p].at = point
      /\ \A q \in Threads \ {p} : t[q] = thread[q]
  BY DEF TypeInv, ThreadType
<1>2. /\ thread' = t /\ overlap' = (\E q \in Busy(t) : overlap \/ Busy(t) # {q})
      /\ quiet' = (quiet /\ ~overlap')
  BY DEF Goto, Become
<1>. HIDE DEF t
<1>3. \A q \in Threads : (q \in Busy(t) <=> t[q].at # "idle") /\ (q \in Busy(thread) <=> thread[q].at # "idle")
  BY DEF Busy
<1>4. overlap' \in BOOLEAN /\ quiet' \in BOOLEAN
  BY <1>2 DEF TypeInv
<1>5. CASE point # "idle"
  <2>1. p \in Busy(t)
    BY <1>1, <1>3, <1>5
  <2>2. ~overlap' => ~overlap /\ Busy(t) = {p}
    BY <1>2, <2>1
  <2>3. ~overlap' => \A q \in Threads \ {p} : thread[q].at = "idle"
    BY <1>1, <1>3, <2>2
  <2>4. ~overlap /\ ~At(p, "idle") => Busy(t) = {p}
    <3>1. SUFFICES ASSUME ~overlap, ~At(p, "idle"), NEW q \in Busy(t)
                   PROVE  q = p
      BY <2>1
    <3>2. Busy(thread) = {p} /\ q \in Threads
      BY <1>3, <3>1 DEF AloneInv, At, Busy
    <3>. QED
      BY <1>1, <1>3, <3>2
  <2>. QED
    BY <1>2, <1>4, <2>2, <2>3, <2>4
<1>6. CASE point = "idle"
  <2>1. p \in Busy(thread) /\ p \notin Busy(t) /\ ~At(p, "idle")
    BY <1>1, <1>3, <1>6 DEF At
  <2>2. ~overlap => Busy(t) = {}
    BY <1>1, <1>3, <2>1 DEF AloneInv, Busy
  <2>3. overlap /\ ~overlap' => Busy(t) = {}
    BY <1>2
  <2>4. ~overlap' => \A q \in Threads \ {p} : thread[q].at = "idle"
    BY <1>1, <1>3, <2>2, <2>3 DEF TypeInv
  <2>. QED
    BY <1>2, <1>4, <1>6, <2>2, <2>4
<1>. QED
  BY <1>5, <1>6

\* The lines of the log are those of the one thread that rewrites the file, or
\* those of the file.
LEMMA LinesOfOne ==
  ASSUME NEW t, NEW text, NEW p \in Threads, \A q \in Threads \ {p} : t[q].at = "idle"
  PROVE  LinesOf(t, text) = IF t[p].at \in {"truncate", "write"} THEN t[p].lines ELSE text
<1>. DEFINE rewriting == {q \in Threads : t[q].at \in {"truncate", "write"}}
<1>1. CASE t[p].at \in {"truncate", "write"}
  <2>1. rewriting = {p}
    BY <1>1
  <2>. QED
    BY <1>1, <2>1 DEF LinesOf
<1>2. CASE t[p].at \notin {"truncate", "write"}
  <2>1. rewriting = {}
    BY <1>2
  <2>. QED
    BY <1>2, <2>1 DEF LinesOf
<1>. QED
  BY <1>1, <1>2

-----------------------------------------------------------------------------
(* Steps *)

Content == Newest(LinesOf(thread, file))
LogStep == Log!LogNext \/ UNCHANGED <<Content, events, crashes, overlap>>

\* The operators of the two modules are the same.
LEMMA SameOperators ==
  ASSUME NEW s, NEW e
  PROVE  Log!Newest(s) = Newest(s) /\ Log!Extended(s, e) = Extended(s, e)
BY DEF Log!Newest, Newest, Log!Extended, Extended, Log!Cut, Cut, Log!Torn, Torn

LEMMA ExtendedType ==
  ASSUME NEW s \in Seq(Int), NEW e \in Int
  PROVE  Extended(s, e) \in Seq(Int)
<1>1. CASE s # <<>> /\ s[Len(s)] = Cut
  <2>1. Len(s) \in 1..Len(s) /\ Torn \in Int
    BY <1>1 DEF Torn
  <2>. QED
    BY <1>1, <2>1, ExceptSeq DEF Extended
<1>2. CASE ~(s # <<>> /\ s[Len(s)] = Cut)
  BY <1>2 DEF Extended
<1>. QED
  BY <1>1, <1>2

\* The newest of no events are none, and they are numbered to the last.
LEMMA NewestOfEvents ==
  ASSUME NEW n \in Nat
  PROVE  /\ NewestOf(n) \in Seq(Int)
         /\ Len(NewestOf(n)) = IF n < Retention THEN n ELSE Retention
         /\ NewestOf(n) # <<>> => NewestOf(n)[Len(NewestOf(n))] = n
         /\ n = 0 => NewestOf(n) = <<>>
<1>1. PICK k \in Nat : k = IF n < Retention THEN n ELSE Retention
  BY RetentionAssumption
<1>2. NewestOf(n) = [m \in 1..k |-> n - k + m]
  BY <1>1 DEF NewestOf
<1>3. NewestOf(n) \in Seq(Int) /\ Len(NewestOf(n)) = k /\ \A m \in 1..k : NewestOf(n)[m] = n - k + m
  <2>1. \A m \in 1..k : n - k + m \in Int
    OBVIOUS
  <2>2. NewestOf(n) \in [1..k -> Int] /\ \A m \in 1..k : NewestOf(n)[m] = n - k + m
    BY <1>2, <2>1
  <2>3. NewestOf(n) \in Seq(Int) /\ Len(NewestOf(n)) = k
    BY <2>2
  <2>. QED
    BY <2>2, <2>3
<1>4. NewestOf(n) # <<>> => k \in 1..k
  BY <1>3
<1>5. k = 0 => NewestOf(n) = <<>>
  BY <1>3
<1>. QED
  BY <1>1, <1>3, <1>4, <1>5

\* After one event more the newest are the newest of those and that one.
LEMMA NextNewest ==
  ASSUME NEW n \in Nat, n > 0
  PROVE  Newest(Append(NewestOf(n - 1), n)) = NewestOf(n)
<1>. PICK s \in Seq(Int) : s = NewestOf(n - 1)
  BY NewestOfEvents
<1>0. Retention \in Nat /\ Retention > 0
  BY RetentionAssumption
<1>1. CASE n <= Retention
  <2>1. n - 1 \in Nat /\ n - 1 < Retention /\ n - (n - 1) = 1
    BY <1>0, <1>1
  <2>2. s = [m \in 1..(n - 1) |-> m]
    BY <2>1 DEF NewestOf
  <2>3. NewestOf(n) = [m \in 1..n |-> m]
    BY <1>0, <1>1 DEF NewestOf
  <2>4. Append(s, n) = [m \in 1..n |-> m]
    BY <2>1, <2>2
  <2>5. Append(s, n) \in Seq(Int) /\ Len(Append(s, n)) = n
    BY <2>1, <2>2, <2>4
  <2>6. Newest(Append(s, n)) = Append(s, n)
    BY <1>1, <2>5, NewestOfFew
  <2>. QED
    BY <2>3, <2>4, <2>6
<1>2. CASE n > Retention
  <2>1. s = [m \in 1..Retention |-> (n - 1) - Retention + m]
    BY <1>0, <1>2 DEF NewestOf
  <2>2. NewestOf(n) = [m \in 1..Retention |-> n - Retention + m]
    BY <1>0, <1>2 DEF NewestOf
  <2>3. PICK t \in Seq(Int) : t = Append(s, n)
    <3>1. n \in Int
      OBVIOUS
    <3>. QED
      BY <3>1, AppendProperties
  <2>4. Len(t) = Retention + 1 /\ \A m \in 1..Retention : t[m] = (n - 1) - Retention + m
    BY <1>0, <2>1, <2>3
  <2>5. t[Retention + 1] = n
    BY <1>0, <2>1, <2>3
  <2>6. /\ Newest(t) \in Seq(Int) /\ Len(Newest(t)) = Retention
        /\ \A m \in 1..Retention : Newest(t)[m] = t[m + 1]
    BY <2>4, NewestOfMany
  <2>7. ASSUME NEW m \in 1..Retention
        PROVE  Newest(t)[m] = NewestOf(n)[m]
    <3>1. CASE m = Retention
      BY <1>0, <2>2, <2>5, <2>6, <3>1
    <3>2. CASE m < Retention
      <4>1. m + 1 \in 1..Retention
        BY <1>0, <3>2
      <4>. QED
        BY <1>0, <2>2, <2>4, <2>6, <4>1
    <3>. QED
      BY <1>0, <3>1, <3>2
  <2>8. NewestOf(n) \in Seq(Int) /\ Len(NewestOf(n)) = Retention
    BY <1>0, <2>2
  <2>. QED
    BY <2>3, <2>6, <2>7, <2>8, SeqEqual
<1>. QED
  BY <1>0, <1>1, <1>2

\* Where the threads are after a step of one of them.
LEMMA Went ==
  ASSUME TypeInv, NEW p \in Threads, NEW point \in Points, NEW lines \in Seq(Int),
         Goto(p, point, lines)
  PROVE  /\ thread' \in [Threads -> ThreadType]
         /\ thread'[p] = [at |-> point, lines |-> lines]
         /\ \A q \in Threads \ {p} : thread'[q] = thread[q]
         /\ quiet' => quiet /\ ~overlap'
         /\ crashes' = crashes
BY DEF TypeInv, ThreadType, Goto, Become

\* What such a step has to see to for the invariants.
LEMMA StaysAlone ==
  ASSUME TypeInv, AloneInv, NEW p \in Threads, NEW point \in Points, NEW lines \in Seq(Int),
         Goto(p, point, lines), point # "idle" \/ ~At(p, "idle"),
         file' \in Seq(Int), events' \in Nat,
         point \in {"truncate", "write"} => Len(lines) = Retention,
         ~overlap' /\ point = "truncate" => lines = Newest(file'),
         ~overlap' /\ point = "write" => file' = <<>>
  PROVE  TypeInv' /\ AloneInv'
<1>1. /\ thread' \in [Threads -> ThreadType]
      /\ thread'[p] = [at |-> point, lines |-> lines]
      /\ \A q \in Threads \ {p} : thread'[q] = thread[q]
  BY Went
<1>2. /\ ~overlap' => \A q \in Threads \ {p} : thread[q].at = "idle"
      /\ overlap' \in BOOLEAN /\ quiet' \in BOOLEAN
  BY OthersIdle
<1>3. TypeInv'
  <2>1. ASSUME NEW q \in Threads, thread'[q].at \in {"truncate", "write"}
        PROVE  Len(thread'[q].lines) = Retention
    <3>1. CASE q = p
      BY <1>1, <2>1, <3>1
    <3>2. CASE q # p
      BY <1>1, <2>1, <3>2 DEF TypeInv, At
    <3>. QED
      BY <3>1, <3>2
  <2>. QED
    BY <1>1, <1>2, <2>1 DEF TypeInv, At
<1>4. AloneInv'
  <2>1. SUFFICES ASSUME ~overlap', NEW q \in Threads, thread'[q].at # "idle"
                 PROVE  /\ {r \in Threads : thread'[r].at # "idle"} = {q}
                        /\ thread'[q].at = "truncate" => thread'[q].lines = Newest(file')
                        /\ thread'[q].at = "write" => file' = <<>>
    BY DEF AloneInv, Busy, At, Newest
  <2>2. q = p /\ \A r \in Threads \ {p} : thread'[r].at = "idle"
    BY <1>1, <1>2, <2>1
  <2>. QED
    BY <1>1, <2>1, <2>2
<1>. QED
  BY <1>3, <1>4

\* What the log consists of before and after it.
LEMMA ContentOfOne ==
  ASSUME TypeInv, AloneInv, NEW p \in Threads, NEW point \in Points, NEW lines \in Seq(Int),
         Goto(p, point, lines), point # "idle" \/ ~At(p, "idle"), ~overlap'
  PROVE  /\ Content = Newest(IF thread[p].at \in {"truncate", "write"} THEN thread[p].lines ELSE file)
         /\ Content' = Newest(IF point \in {"truncate", "write"} THEN lines ELSE file')
<1>1. /\ thread'[p] = [at |-> point, lines |-> lines]
      /\ \A q \in Threads \ {p} : thread'[q] = thread[q]
  BY Went
<1>2. \A q \in Threads \ {p} : thread[q].at = "idle"
  BY OthersIdle
<1>3. \A q \in Threads \ {p} : thread'[q].at = "idle"
  BY <1>1, <1>2
<1>4. LinesOf(thread, file) = IF thread[p].at \in {"truncate", "write"} THEN thread[p].lines ELSE file
  BY <1>2, LinesOfOne
<1>5. LinesOf(thread', file') = IF thread'[p].at \in {"truncate", "write"} THEN thread'[p].lines ELSE file'
  BY <1>3, LinesOfOne
<1>6. Content' = Newest(LinesOf(thread', file'))
  BY DEF Content, Newest, LinesOf
<1>. QED
  BY <1>1, <1>4, <1>5, <1>6 DEF Content

\* Overlapping steps are free as long as they count the events.
LEMMA OverlappedStep ==
  ASSUME overlap \/ overlap', events' \in {events, events + 1}, crashes' \in {crashes, crashes + 1}
  PROVE  LogStep
BY DEF LogStep, Log!LogNext, Log!Overlapped

LEMMA AppendLineStep ==
  ASSUME TypeInv, AloneInv, QuietInv, NEW p \in Threads, AppendLine(p)
  PROVE  TypeInv' /\ AloneInv' /\ QuietInv' /\ LogStep
<1>. PICK e \in Nat : e = events + 1
  BY DEF TypeInv
<1>1. /\ At(p, "idle") /\ Goto(p, "trim", <<>>) /\ events' = e
      /\ file' = Extended(file, e)
  BY DEF AppendLine
<1>2. "trim" \in Points /\ <<>> \in Seq(Int) /\ file \in Seq(Int) /\ e \in Int
  BY DEF Points, TypeInv
<1>3. file' \in Seq(Int)
  BY <1>1, <1>2, ExtendedType
<1>4. TypeInv' /\ AloneInv'
  BY <1>1, <1>2, <1>3, StaysAlone
<1>5. ~overlap' => ~overlap /\ \A q \in Threads \ {p} : thread[q].at = "idle"
  BY <1>1, <1>2, OthersIdle
<1>6. /\ thread'[p] = [at |-> "trim", lines |-> <<>>]
      /\ \A q \in Threads \ {p} : thread'[q] = thread[q]
      /\ quiet' => quiet /\ ~overlap'
      /\ crashes' = crashes
  BY <1>1, <1>2, Went
<1>7. QuietInv'
  <2>1. SUFFICES ASSUME quiet'
                 PROVE  /\ ~overlap'
                        /\ \E q \in Threads : thread'[q].at # "idle"
                        /\ \A q \in Threads : thread'[q].at # "idle" =>
                             /\ e > 0 /\ thread'[q].at = "trim"
                             /\ file' = Append(NewestOf(e - 1), e)
    BY <1>1 DEF QuietInv, Busy, At, NewestOf
  <2>2. Busy(thread) = {}
    BY <1>1, <1>5, <1>6, <2>1 DEF Busy, At
  <2>3. file = NewestOf(events) /\ events = e - 1 /\ events \in Nat
    BY <1>6, <2>1, <2>2 DEF QuietInv, TypeInv
  <2>4. file # <<>> => file[Len(file)] # Cut
    BY <2>3, NewestOfEvents, SMTT(30) DEF Cut
  <2>5. file' = Append(NewestOf(e - 1), e)
    BY <1>1, <2>3, <2>4 DEF Extended
  <2>6. \A q \in Threads \ {p} : thread'[q].at = "idle"
    BY <1>5, <1>6, <2>1
  <2>. QED
    BY <1>6, <2>1, <2>3, <2>5, <2>6
<1>8. LogStep
  <2>1. CASE overlap'
    BY <1>1, <1>6, <2>1, OverlappedStep
  <2>2. CASE ~overlap'
    <3>1. Content = Newest(file) /\ Content' = Newest(file')
      BY <1>1, <1>2, <2>2, ContentOfOne DEF At
    <3>2. Content' = Newest(Extended(Content, e))
      BY <1>1, <1>2, <3>1, NewestExtended
    <3>3. Log!AppendEvent
      BY <1>1, <1>5, <1>6, <2>2, <3>2, SameOperators DEF Log!AppendEvent, Content
    <3>. QED
      BY <3>3 DEF LogStep, Log!LogNext
  <2>. QED
    BY <2>1, <2>2
<1>. QED
  BY <1>4, <1>7, <1>8

LEMMA ReadBackStep ==
  ASSUME TypeInv, AloneInv, QuietInv, NEW p \in Threads, ReadBack(p)
  PROVE  TypeInv' /\ AloneInv' /\ QuietInv' /\ LogStep
<1>1. file \in Seq(Int) /\ Retention \in Nat /\ Len(file) \in Nat
  BY RetentionAssumption DEF TypeInv
<1>2. PICK point \in {"idle", "truncate"}, lines \in Seq(Int) :
        /\ Goto(p, point, lines)
        /\ point = "idle" => Len(file) <= Retention
        /\ point = "truncate" => lines = Newest(file) /\ Len(lines) = Retention
  <2>1. CASE Len(file) <= Retention
    <3>1. Goto(p, "idle", <<>>)
      BY <2>1 DEF ReadBack
    <3>. WITNESS "idle" \in {"idle", "truncate"}, <<>> \in Seq(Int)
    <3>. QED
      BY <2>1, <3>1
  <2>2. CASE Len(file) > Retention
    <3>1. PICK k \in Nat : Len(file) = Retention + k
      BY <1>1, <2>2
    <3>2. Newest(file) \in Seq(Int) /\ Len(Newest(file)) = Retention
      BY <1>1, <3>1, NewestOfMany
    <3>3. Goto(p, "truncate", Newest(file))
      BY <1>1, <2>2 DEF ReadBack
    <3>4. Newest(file) \in Seq(Int)
      BY <3>2
    <3>. WITNESS "truncate" \in {"idle", "truncate"}, Newest(file) \in Seq(Int)
    <3>. QED
      BY <3>2, <3>3
  <2>3. Len(file) <= Retention \/ Len(file) > Retention
    BY <1>1
  <2>. QED
    BY <2>1, <2>2, <2>3, Zenon
<1>3. point \in Points /\ file' = file /\ events' = events /\ At(p, "trim") /\ ~At(p, "idle")
  BY DEF Points, ReadBack, At
<1>4. TypeInv' /\ AloneInv'
  <2>1. events' \in Nat /\ file' \in Seq(Int)
    BY <1>3 DEF TypeInv
  <2>2. point \in {"truncate", "write"} => Len(lines) = Retention
    BY <1>2
  <2>3. ~overlap' /\ point = "truncate" => lines = Newest(file')
    BY <1>2, <1>3
  <2>4. ~overlap' /\ point = "write" => file' = <<>>
    BY <1>2
  <2>. QED
    BY <1>2, <1>3, <2>1, <2>2, <2>3, <2>4, StaysAlone
<1>5. ~overlap' => \A q \in Threads \ {p} : thread[q].at = "idle"
  BY <1>2, <1>3, OthersIdle
<1>6. /\ thread'[p] = [at |-> point, lines |-> lines]
      /\ \A q \in Threads \ {p} : thread'[q] = thread[q]
      /\ quiet' => quiet /\ ~overlap'
      /\ crashes' = crashes
  BY <1>2, <1>3, Went
<1>7. QuietInv'
  <2>1. SUFFICES ASSUME quiet'
                 PROVE  /\ ~overlap'
                        /\ (\A q \in Threads : thread'[q].at = "idle") => file' = NewestOf(events')
                        /\ \A q \in Threads : thread'[q].at # "idle" =>
                             /\ events' > 0 /\ thread'[q].at = "truncate"
                             /\ thread'[q].lines = NewestOf(events')
    BY DEF QuietInv, Busy, At, NewestOf
  <2>2. p \in Busy(thread)
    BY <1>3 DEF Busy, At
  <2>3. events > 0 /\ file = Append(NewestOf(events - 1), events) /\ events \in Nat
    BY <1>3, <1>6, <2>1, <2>2 DEF QuietInv, TypeInv
  <2>4. Newest(file) = NewestOf(events)
    BY <2>3, NextNewest
  <2>5. \A q \in Threads \ {p} : thread'[q].at = "idle"
    BY <1>5, <1>6, <2>1
  <2>6. CASE point = "idle"
    BY <1>2, <1>3, <1>6, <2>1, <2>4, <2>5, <2>6, NewestOfFew
  <2>7. CASE point = "truncate"
    BY <1>2, <1>3, <1>6, <2>1, <2>3, <2>4, <2>5, <2>7
  <2>. QED
    BY <2>6, <2>7
<1>8. LogStep
  <2>1. CASE overlap \/ overlap'
    BY <1>3, <1>6, <2>1, OverlappedStep
  <2>2. CASE ~overlap /\ ~overlap'
    <3>1. /\ Content = Newest(file)
          /\ Content' = Newest(IF point \in {"truncate", "write"} THEN lines ELSE file')
      BY <1>2, <1>3, <2>2, ContentOfOne DEF At
    <3>2. Content' = Content
      BY <1>1, <1>2, <1>3, <3>1, NewestTwice
    <3>3. overlap' = overlap
      BY <1>4, <2>2 DEF TypeInv
    <3>. QED
      BY <1>3, <1>6, <3>2, <3>3 DEF LogStep
  <2>. QED
    BY <2>1, <2>2
<1>. QED
  BY <1>4, <1>7, <1>8

LEMMA TruncateStep ==
  ASSUME TypeInv, AloneInv, QuietInv, NEW p \in Threads, Truncate(p)
  PROVE  TypeInv' /\ AloneInv' /\ QuietInv' /\ LogStep
<1>1. PICK lines \in Seq(Int) : lines = thread[p].lines
  BY DEF TypeInv, ThreadType
<1>2. /\ At(p, "truncate") /\ ~At(p, "idle") /\ thread[p].at = "truncate"
      /\ file' = <<>> /\ events' = events /\ Goto(p, "write", lines)
  BY <1>1 DEF Truncate, At
<1>3. "write" \in Points /\ file' \in Seq(Int) /\ events' \in Nat /\ Len(lines) = Retention
  BY <1>1, <1>2 DEF Points, TypeInv
<1>4. TypeInv' /\ AloneInv'
  BY <1>2, <1>3, StaysAlone
<1>5. ~overlap' => \A q \in Threads \ {p} : thread[q].at = "idle"
  BY <1>2, <1>3, OthersIdle
<1>6. /\ thread'[p] = [at |-> "write", lines |-> lines]
      /\ \A q \in Threads \ {p} : thread'[q] = thread[q]
      /\ quiet' => quiet /\ ~overlap'
      /\ crashes' = crashes
  BY <1>2, <1>3, Went
<1>7. QuietInv'
  <2>1. SUFFICES ASSUME quiet'
                 PROVE  /\ ~overlap'
                        /\ \E q \in Threads : thread'[q].at # "idle"
                        /\ \A q \in Threads : thread'[q].at # "idle" =>
                             /\ events' > 0 /\ thread'[q].at = "write"
                             /\ thread'[q].lines = NewestOf(events')
    BY DEF QuietInv, Busy, At, NewestOf
  <2>2. events > 0 /\ lines = NewestOf(events)
    BY <1>1, <1>2, <1>6, <2>1 DEF QuietInv, Busy
  <2>3. \A q \in Threads \ {p} : thread'[q].at = "idle"
    BY <1>5, <1>6, <2>1
  <2>. QED
    BY <1>2, <1>6, <2>1, <2>2, <2>3
<1>8. LogStep
  <2>1. CASE overlap \/ overlap'
    BY <1>2, <1>6, <2>1, OverlappedStep
  <2>2. CASE ~overlap /\ ~overlap'
    <3>1. Content = Newest(lines) /\ Content' = Newest(lines)
      BY <1>1, <1>2, <1>3, <2>2, ContentOfOne
    <3>2. overlap' = overlap
      BY <1>4, <2>2 DEF TypeInv
    <3>. QED
      BY <1>2, <1>6, <3>1, <3>2 DEF LogStep
  <2>. QED
    BY <2>1, <2>2
<1>. QED
  BY <1>4, <1>7, <1>8

LEMMA OverwrittenType ==
  ASSUME NEW lines \in Seq(Int), NEW old \in Seq(Int)
  PROVE  Overwritten(lines, old) \subseteq Seq(Int) /\ Overwritten(lines, <<>>) = {lines}
<1>1. Remains(old) \subseteq Seq(Int)
  <2>1. SUFFICES ASSUME NEW n \in 1..Len(old), NEW rest,
                        rest = SubSeq(old, n + 1, Len(old))
                 PROVE  rest \in Seq(Int) /\ <<Torn>> \o rest \in Seq(Int)
    BY DEF Remains
  <2>2. rest \in Seq(Int) /\ <<Torn>> \in Seq(Int)
    BY <2>1 DEF Torn
  <2>. QED
    BY <2>2, ConcatProperties, Zenon
<1>2. \A rest \in Remains(old) : lines \o rest \in Seq(Int)
  BY <1>1, ConcatProperties, Zenon
<1>3. Overwritten(lines, old) \subseteq Seq(Int)
  BY <1>2, Zenon DEF Overwritten
<1>4. Remains(<<>>) = {}
  BY DEF Remains
<1>5. Overwritten(lines, <<>>) = {lines}
  BY <1>4, Zenon DEF Overwritten
<1>. QED
  BY <1>3, <1>5

LEMMA RewriteStep ==
  ASSUME TypeInv, AloneInv, QuietInv, NEW p \in Threads, Rewrite(p)
  PROVE  TypeInv' /\ AloneInv' /\ QuietInv' /\ LogStep
<1>1. PICK lines \in Seq(Int) : lines = thread[p].lines
  BY DEF TypeInv, ThreadType
<1>2. /\ At(p, "write") /\ ~At(p, "idle") /\ thread[p].at = "write" /\ events' = events
      /\ file' \in Overwritten(lines, file) /\ Goto(p, "idle", <<>>)
  BY <1>1 DEF Rewrite, At
<1>3. "idle" \in Points /\ <<>> \in Seq(Int) /\ file' \in Seq(Int) /\ events' \in Nat
  BY <1>2, OverwrittenType DEF Points, TypeInv
<1>4. TypeInv' /\ AloneInv'
  BY <1>2, <1>3, StaysAlone
<1>5. ~overlap' => \A q \in Threads \ {p} : thread[q].at = "idle"
  BY <1>2, <1>3, OthersIdle
<1>6. /\ thread'[p] = [at |-> "idle", lines |-> <<>>]
      /\ \A q \in Threads \ {p} : thread'[q] = thread[q]
      /\ quiet' => quiet /\ ~overlap'
      /\ crashes' = crashes
  BY <1>2, <1>3, Went
<1>7. ~overlap => file' = lines
  <2>1. ~overlap => file = <<>>
    BY <1>2 DEF AloneInv, Busy
  <2>. QED
    BY <1>2, <2>1, OverwrittenType DEF TypeInv
<1>8. QuietInv'
  <2>1. SUFFICES ASSUME quiet'
                 PROVE  /\ ~overlap' /\ file' = NewestOf(events')
                        /\ \A q \in Threads : thread'[q].at = "idle"
    BY DEF QuietInv, Busy, At, NewestOf
  <2>2. ~overlap /\ lines = NewestOf(events)
    BY <1>1, <1>2, <1>6, <2>1 DEF QuietInv, Busy
  <2>3. \A q \in Threads \ {p} : thread'[q].at = "idle"
    BY <1>5, <1>6, <2>1
  <2>. QED
    BY <1>2, <1>6, <1>7, <2>1, <2>2, <2>3
<1>9. LogStep
  <2>1. CASE overlap \/ overlap'
    BY <1>2, <1>6, <2>1, OverlappedStep
  <2>2. CASE ~overlap /\ ~overlap'
    <3>1. Content = Newest(lines) /\ Content' = Newest(file')
      BY <1>1, <1>2, <1>3, <2>2, ContentOfOne
    <3>2. overlap' = overlap
      BY <1>4, <2>2 DEF TypeInv
    <3>. QED
      BY <1>2, <1>6, <1>7, <2>2, <3>1, <3>2 DEF LogStep
  <2>. QED
    BY <2>1, <2>2
<1>. QED
  BY <1>4, <1>8, <1>9

\* A text of which only the beginning has been written.
LEMMA CutShortType ==
  ASSUME NEW lines \in Seq(Int), NEW old \in Seq(Int)
  PROVE  /\ CutShort(lines, old) \subseteq Seq(Int)
         /\ \A text \in CutShort(lines, <<>>) :
              \E n \in 0..Len(lines) :
                text = SubSeq(lines, 1, n) \/ text = SubSeq(lines, 1, n) \o <<Cut>>
<1>1. ASSUME NEW n \in 0..(Len(lines) - 1)
      PROVE  SubSeq(lines, 1, n) \in Seq(Int) /\ SubSeq(lines, 1, n) \o <<Cut>> \in Seq(Int)
  <2>1. SubSeq(lines, 1, n) \in Seq(Int) /\ <<Cut>> \in Seq(Int)
    BY DEF Cut
  <2>. QED
    BY <2>1, ConcatProperties, Zenon
<1>2. ASSUME NEW text, NEW n \in 0..(Len(lines) - 1), NEW others \in Seq(Int),
             text \in Overwritten(SubSeq(lines, 1, n), others) \cup {SubSeq(lines, 1, n) \o <<Cut>>}
      PROVE  /\ text \in Seq(Int)
             /\ others = <<>> => text = SubSeq(lines, 1, n) \/ text = SubSeq(lines, 1, n) \o <<Cut>>
  <2>1. /\ Overwritten(SubSeq(lines, 1, n), others) \subseteq Seq(Int)
        /\ Overwritten(SubSeq(lines, 1, n), <<>>) = {SubSeq(lines, 1, n)}
    BY <1>1, OverwrittenType
  <2>. QED
    BY <1>1, <1>2, <2>1, Zenon
<1>3. CutShort(lines, old) \subseteq Seq(Int)
  BY <1>2, Zenon DEF CutShort
<1>4. ASSUME NEW text \in CutShort(lines, <<>>)
      PROVE  \E n \in 0..Len(lines) :
               text = SubSeq(lines, 1, n) \/ text = SubSeq(lines, 1, n) \o <<Cut>>
  <2>1. PICK n \in 0..(Len(lines) - 1) :
          text \in Overwritten(SubSeq(lines, 1, n), <<>>) \cup {SubSeq(lines, 1, n) \o <<Cut>>}
    BY <1>4, Zenon DEF CutShort
  <2>2. n \in 0..Len(lines) /\ <<>> \in Seq(Int)
    OBVIOUS
  <2>. QED
    BY <1>2, <2>1, <2>2, Zenon
<1>. QED
  BY <1>3, <1>4

LEMMA CrashStep ==
  ASSUME TypeInv, AloneInv, Crash
  PROVE  TypeInv' /\ AloneInv' /\ QuietInv' /\ LogStep
<1>1. /\ thread' = [p \in Threads |-> Idle]
      /\ overlap' = (\E p \in Busy([q \in Threads |-> Idle]) :
                       overlap \/ Busy([q \in Threads |-> Idle]) # {p})
      /\ quiet' = FALSE /\ events' = events /\ crashes' = crashes + 1
  BY Zenon DEF Crash, Become
<1>2. Busy([q \in Threads |-> Idle]) = {}
  BY DEF Busy, Idle
<1>3. overlap' = FALSE /\ \A p \in Threads : thread'[p] = [at |-> "idle", lines |-> <<>>]
  BY <1>1, <1>2 DEF Idle
<1>4. PICK text \in Seq(Int) : text = file
  BY DEF TypeInv
<1>5. /\ Append(text, Cut) \in Seq(Int)
      /\ \A p \in Threads : At(p, "write") => CutShort(thread[p].lines, text) \subseteq Seq(Int)
  BY <1>4, CutShortType DEF TypeInv, ThreadType, Cut
<1>6. file' \in {text, Append(text, Cut)} \/ \E p \in Threads : At(p, "write") /\ file' \in CutShort(thread[p].lines, text)
  BY <1>4 DEF Crash
<1>7. TypeInv'
  <2>1. file' \in Seq(Int)
    BY <1>4, <1>5, <1>6, Zenon
  <2>2. events' \in Nat /\ overlap' \in BOOLEAN /\ quiet' \in BOOLEAN
    BY <1>1, <1>3 DEF TypeInv
  <2>3. thread' \in [Threads -> ThreadType]
    BY <1>1 DEF Idle, ThreadType, Points
  <2>. QED
    BY <1>3, <2>1, <2>2, <2>3 DEF TypeInv, At
<1>8. AloneInv'
  BY <1>3 DEF AloneInv, Busy
<1>9. QuietInv'
  BY <1>1 DEF QuietInv
<1>10. LogStep
  <2>1. CASE overlap
    BY <1>1, <2>1, OverlappedStep
  <2>2. CASE ~overlap
    <3>1. Content' = Newest(file')
      <4>1. LinesOf(thread', file') = file'
        BY <1>3 DEF LinesOf
      <4>2. Content' = Newest(LinesOf(thread', file'))
        BY DEF Content, Newest, LinesOf
      <4>. QED
        BY <4>1, <4>2
    <3>2. ASSUME NEW s \in Seq(Int), NEW n \in 0..Len(s), Content = s,
                 \/ file' = SubSeq(s, 1, n)
                 \/ file' = SubSeq(s, 1, n) \o <<Cut>>
                 \/ n = Len(s) /\ Newest(file') = Newest(s)
                 \/ n = Len(s) /\ Newest(file') = Newest(s \o <<Cut>>)
          PROVE  LogStep
      <4>1. SubSeq(s, 1, Len(s)) = s /\ s \o <<>> = s /\ SubSeq(s, 1, n) \o <<>> = SubSeq(s, 1, n)
        OBVIOUS
      <4>2. PICK end \in {<<>>, <<Log!Torn>>, <<Log!Cut>>} : Newest(file') = Newest(SubSeq(s, 1, n) \o end)
        <5>1. Log!Cut = Cut
          BY DEF Log!Cut, Cut
        <5>. QED
          BY <3>2, <4>1, <5>1, Zenon
      <4>3. Log!LoseNewest
        BY <1>1, <1>3, <3>1, <3>2, <4>2, SameOperators DEF Log!LoseNewest, Content
      <4>. QED
        BY <4>3 DEF LogStep, Log!LogNext
    <3>3. ASSUME NEW p \in Threads, At(p, "write")
          PROVE  LogStep
      <4>1. PICK lines \in Seq(Int) : lines = thread[p].lines /\ Len(lines) = Retention
        BY <3>3 DEF TypeInv, ThreadType
      <4>2. Busy(thread) = {p} /\ text = <<>>
        BY <1>4, <2>2, <3>3 DEF AloneInv, Busy, At
      <4>3. \A q \in Threads \ {p} : thread[q].at = "idle"
        BY <4>2 DEF Busy
      <4>4. Content = lines
        <5>1. LinesOf(thread, file) = lines
          BY <3>3, <4>1, <4>3, LinesOfOne DEF At
        <5>2. Len(lines) <= Retention
          BY <4>1, RetentionAssumption
        <5>. QED
          BY <5>1, <5>2, NewestOfFew DEF Content
      <4>5. 0 \in 0..Len(lines) /\ SubSeq(lines, 1, 0) = <<>> /\ <<>> \o <<Cut>> = <<Cut>> /\ Append(<<>>, Cut) = <<Cut>>
        BY <4>1
      <4>6. \E n \in 0..Len(lines) : file' = SubSeq(lines, 1, n) \/ file' = SubSeq(lines, 1, n) \o <<Cut>>
        <5>1. CASE file' \in {text, Append(text, Cut)}
          BY <4>2, <4>5, <5>1, Zenon
        <5>2. ASSUME NEW q \in Threads, At(q, "write"), file' \in CutShort(thread[q].lines, text)
              PROVE  \E n \in 0..Len(lines) : file' = SubSeq(lines, 1, n) \/ file' = SubSeq(lines, 1, n) \o <<Cut>>
          <6>1. q = p
            BY <4>3, <5>2 DEF At
          <6>. QED
            BY <4>1, <4>2, <5>2, <6>1, CutShortType
        <5>. QED
          BY <1>6, <5>1, <5>2
      <4>. QED
        BY <3>2, <4>4, <4>6
    <3>4. CASE \A p \in Threads : ~At(p, "write")
      <4>1. Content = Newest(text)
        <5>1. CASE \A q \in Threads : thread[q].at # "truncate"
          <6>1. LinesOf(thread, file) = file
            BY <3>4, <5>1 DEF LinesOf, At
          <6>. QED
            BY <1>4, <6>1 DEF Content
        <5>2. ASSUME NEW p \in Threads, thread[p].at = "truncate"
              PROVE  Content = Newest(text)
          <6>1. Busy(thread) = {p} /\ thread[p].lines = Newest(text)
            BY <1>4, <2>2, <5>2 DEF AloneInv, Busy, At
          <6>2. \A q \in Threads \ {p} : thread[q].at = "idle"
            BY <6>1 DEF Busy
          <6>3. LinesOf(thread, file) = Newest(text)
            BY <5>2, <6>1, <6>2, LinesOfOne
          <6>. QED
            BY <6>3, NewestTwice DEF Content
        <5>. QED
          BY <5>1, <5>2
      <4>2. PICK s \in Seq(Int) : s = Newest(text)
        BY NewestType
      <4>3. Newest(s) = s /\ Len(s) \in 0..Len(s)
        BY <4>2, NewestTwice
      <4>4. Append(s, Cut) = s \o <<Cut>>
        BY DEF Cut
      <4>5. Newest(Append(text, Cut)) = Newest(s \o <<Cut>>)
        <5>1. Cut \in Int
          BY DEF Cut
        <5>. QED
          BY <4>2, <4>4, <5>1, NewestAppended, Zenon
      <4>6. Newest(file') = Newest(s) \/ Newest(file') = Newest(s \o <<Cut>>)
        BY <1>6, <3>4, <4>2, <4>3, <4>5, Zenon
      <4>. QED
        BY <3>2, <4>1, <4>2, <4>3, <4>6
    <3>. QED
      BY <3>3, <3>4
  <2>. QED
    BY <2>1, <2>2
<1>. QED
  BY <1>7, <1>8, <1>9, <1>10

-----------------------------------------------------------------------------
(* Theorems *)

Inv == TypeInv /\ AloneInv /\ QuietInv

LEMMA NextKeepsInv ==
  ASSUME Inv, [Next]_vars
  PROVE  Inv' /\ (LogStep \/ UNCHANGED vars)
<1>1. CASE UNCHANGED vars
  <2>1. UNCHANGED <<file, thread, events, crashes, overlap, quiet>>
    BY <1>1 DEF vars
  <2>2. TypeInv' /\ AloneInv' /\ QuietInv'
    BY <2>1 DEF Inv, TypeInv, AloneInv, QuietInv, At, Busy, Newest, NewestOf
  <2>. QED
    BY <1>1, <2>2 DEF Inv
<1>2. ASSUME NEW p \in Threads, AppendLine(p) \/ ReadBack(p) \/ Truncate(p) \/ Rewrite(p)
      PROVE  Inv' /\ LogStep
  BY <1>2, AppendLineStep, ReadBackStep, TruncateStep, RewriteStep DEF Inv
<1>3. CASE Crash
  BY <1>3, CrashStep DEF Inv
<1>. QED
  BY <1>1, <1>2, <1>3 DEF Next

LEMMA InitHasInv == Init => Inv /\ Content = <<>>
<1>. SUFFICES ASSUME Init PROVE Inv /\ Content = <<>>
  OBVIOUS
<1>1. file = <<>> /\ events = 0 /\ overlap = FALSE /\ quiet = TRUE
      /\ thread = [p \in Threads |-> Idle]
  BY DEF Init
<1>2. \A p \in Threads : thread[p] = [at |-> "idle", lines |-> <<>>]
  BY <1>1 DEF Idle
<1>3. TypeInv
  <2>1. thread \in [Threads -> ThreadType]
    BY <1>1 DEF Idle, ThreadType, Points
  <2>2. \A p \in Threads : ~At(p, "truncate") /\ ~At(p, "write")
    BY <1>2 DEF At
  <2>3. /\ file \in Seq(Int) /\ events \in Nat
        /\ overlap \in BOOLEAN /\ quiet \in BOOLEAN
    <3>1. <<>> \in Seq(Int) /\ 0 \in Nat
      OBVIOUS
    <3>. QED
      BY <1>1, <3>1, Zenon
  <2>. QED
    BY <2>1, <2>2, <2>3, Zenon DEF TypeInv
<1>4. AloneInv
  BY <1>2 DEF AloneInv, Busy
<1>5. QuietInv
  BY <1>1, <1>2, NewestOfEvents DEF QuietInv, Busy
<1>6. Content = <<>>
  <2>1. LinesOf(thread, file) = <<>>
    BY <1>1, <1>2 DEF LinesOf
  <2>. QED
    BY <2>1, NewestOfFew, RetentionAssumption DEF Content
<1>. QED
  BY <1>3, <1>4, <1>5, <1>6 DEF Inv

\* The invariants hold: a thread alone finds the file as it left it, and without
\* crash and overlap nothing is missing.
THEOREM HistoryInvariant == Spec => []Inv
BY InitHasInv, NextKeepsInv, PTL DEF Spec

\* As long as appends do not overlap, each of them adds one event to a log of the
\* newest, although it is a sequence of system calls, crashes cost the log no more
\* than its newest lines, and after an overlap it is such a log again.
THEOREM HistoryActsAsLog == Spec => ActsAsLog
<1>1. Init => Content = <<>> /\ events = 0 /\ crashes = 0 /\ overlap = FALSE
  BY InitHasInv DEF Init
<1>2. Inv /\ [Next]_vars => [Log!LogNext]_<<Content, events, crashes, overlap>>
  <2>. SUFFICES ASSUME Inv, [Next]_vars PROVE [Log!LogNext]_<<Content, events, crashes, overlap>>
    OBVIOUS
  <2>1. UNCHANGED vars => UNCHANGED <<Content, events, crashes, overlap>>
    BY DEF vars, Content, LinesOf, Newest
  <2>. QED
    BY <2>1, NextKeepsInv DEF LogStep
<1>3. ActsAsLog <=> (Content = <<>> /\ events = 0 /\ crashes = 0 /\ overlap = FALSE) /\ [][Log!LogNext]_<<Content, events, crashes, overlap>>
  BY PTL DEF ActsAsLog, Log!LogSpec, Log!LogInit, Log!logVars, Content
<1>. QED
  BY <1>1, <1>2, <1>3, HistoryInvariant, PTL DEF Spec

\* As long as nothing crashes or overlaps, every event is in the history, in its
\* place and readable, up to the retention, whichever threads append them.
THEOREM HistoryHoldsTheNewest == Spec => []HistoryIsComplete
<1>1. Inv => HistoryIsComplete
  BY DEF Inv, QuietInv, HistoryIsComplete
<1>. QED
  BY <1>1, HistoryInvariant, PTL
=============================================================================
