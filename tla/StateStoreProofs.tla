--------------------------- MODULE StateStoreProofs ---------------------------
(***************************************************************************)
(* Proofs about StateStore for any number of readers, updates and inodes:  *)
(* with one writer, the files implement StateRegister.                     *)
(***************************************************************************)
EXTENDS StateStore, TLAPS

-----------------------------------------------------------------------------
(* Types *)

\* The record of a thread that is not in an operation has its type.
LEMMA ReadyType ==
  ASSUME NEW after \in Points
  PROVE  Ready(after) \in ThreadType /\ Ready(after).at = after /\ Ready(after).after = after
         /\ Ready(after).pending = {}
BY DEF Ready, ThreadType, Points, DefaultState, Text

\* What TypeOK says of the threads.
ThreadsOK ==
  /\ thread \in [Threads -> ThreadType]
  /\ \A p \in Threads : At(p, "read") \/ At(p, "fill") => thread[p].inode \in Inodes

\* A step of one thread to a record of the type keeps the type of all threads.
LEMMA StepType ==
  ASSUME TypeOK, NEW p \in Threads, NEW record \in ThreadType, Step(p, record),
         record.at \in {"read", "fill"} => record.inode \in Inodes
  PROVE  ThreadsOK'
BY DEF TypeOK, Step, ThreadsOK, At

\* So do the two ways an operation can end.
LEMMA EndType ==
  ASSUME TypeOK, NEW p \in Threads, Return(p) \/ Raise(p)
  PROVE  ThreadsOK'
<1>1. thread[p].after \in Points
  BY DEF TypeOK, ThreadType
<1>2. "idle" \in Points /\ "down" \in Points /\ Points \cap {"read", "fill"} = {}
  BY DEF Points
<1>. QED
  BY <1>1, <1>2, ReadyType, StepType DEF Return, Raise

\* Every step keeps the type invariant.
LEMMA TypeStep ==
  ASSUME TypeOK, [Next]_vars
  PROVE  TypeOK'
<1>. USE DEF Threads
<1>1. CASE UNCHANGED vars
  BY <1>1 DEF vars, TypeOK, At
<1>2. CASE CreateStore
  <2>1. [Ready("mark") EXCEPT !.at = IF state = NoInode THEN "open" ELSE "mark"] \in ThreadType
    BY DEF Ready, ThreadType, Points, DefaultState, Text
  <2>2. ThreadsOK'
    BY <1>2, <2>1, StepType DEF CreateStore, Ready
  <2>. QED
    BY <1>2, <2>2 DEF CreateStore, TypeOK, ThreadsOK
<1>3. ASSUME NEW u \in Updates, MarkInterrupted(u)
      PROVE  TypeOK'
  <2>1. [Ready("refresh") EXCEPT !.at = "read", !.inode = state, !.pending = {u}] \in ThreadType
    BY DEF Ready, ThreadType, Points, DefaultState, Text, TypeOK
  <2>2. ThreadsOK'
    BY <1>3, <2>1, StepType DEF MarkInterrupted, TypeOK, Ready
  <2>. QED
    BY <1>3, <2>2 DEF MarkInterrupted, TypeOK, ThreadsOK
<1>4. ASSUME NEW u \in Updates, RefreshSchedule(u)
      PROVE  TypeOK'
  <2>1. [thread[Main] EXCEPT !.at = "read", !.inode = state, !.pending = {u}] \in ThreadType
    BY DEF ThreadType, TypeOK
  <2>2. Ready("idle") \in ThreadType
    BY ReadyType DEF Points
  <2>3. thread[Main] \in ThreadType
    BY DEF TypeOK
  <2>4. ThreadsOK'
    BY <1>4, <2>1, <2>2, <2>3, StepType DEF RefreshSchedule, TypeOK, Ready, ThreadType
  <2>. QED
    BY <1>4, <2>4 DEF RefreshSchedule, TypeOK, ThreadsOK
<1>5. ASSUME NEW p \in Threads, NEW pending \in SUBSET Updates, BeginRead(p, pending)
      PROVE  TypeOK'
  <2>1. [thread[p] EXCEPT !.at = "read", !.inode = state, !.pending = pending] \in ThreadType
    <3>1. thread[p] \in ThreadType
      BY DEF TypeOK
    <3>. QED
      BY <3>1 DEF ThreadType, TypeOK
  <2>2. thread[p] \in ThreadType
    BY DEF TypeOK
  <2>3. ThreadsOK'
    BY <1>5, <2>1, <2>2, StepType DEF BeginRead, TypeOK, ThreadType
  <2>. QED
    BY <1>5, <2>3 DEF BeginRead, TypeOK, ThreadsOK
<1>6. ASSUME NEW p \in Threads, EndRead(p)
      PROVE  TypeOK'
  <2>. DEFINE text == contents[thread[p].inode]
              pending == thread[p].pending
              applied == [thread[p] EXCEPT !.at = "open", !.inode = NoInode, !.pending = {},
                            !.text = [text EXCEPT !.applied = @ \cup pending]]
              migrated == [thread[p] EXCEPT !.at = "open", !.inode = NoInode,
                             !.text = [text EXCEPT !.schema = "current"]]
  <2>1. thread[p] \in ThreadType
    BY DEF TypeOK
  <2>2. CASE Return(p) \/ Raise(p)
    BY <1>6, <2>2, EndType DEF EndRead, TypeOK, ThreadsOK
  <2>3. CASE text.schema = "current" /\ Step(p, applied)
    <3>1. text \in Text
      BY <1>6, <2>3 DEF TypeOK, EndRead, Text, Broken
    <3>2. [text EXCEPT !.applied = @ \cup pending] \in Text
      BY <2>1, <3>1 DEF Text, ThreadType
    <3>3. applied \in ThreadType
      BY <2>1, <3>2 DEF ThreadType
    <3>4. ThreadsOK'
      BY <2>1, <2>3, <3>3, StepType DEF ThreadType
    <3>. QED
      BY <1>6, <3>4 DEF EndRead, TypeOK, ThreadsOK
  <2>4. CASE text.schema = "old" /\ Step(p, migrated)
    <3>1. text \in Text
      BY <1>6, <2>4 DEF TypeOK, EndRead, Text, Broken
    <3>2. [text EXCEPT !.schema = "current"] \in Text
      BY <3>1 DEF Text
    <3>3. migrated \in ThreadType
      BY <2>1, <3>2 DEF ThreadType
    <3>4. ThreadsOK'
      BY <2>1, <2>4, <3>3, StepType DEF ThreadType
    <3>. QED
      BY <1>6, <3>4 DEF EndRead, TypeOK, ThreadsOK
  <2>. QED
    BY <1>6, <2>2, <2>3, <2>4 DEF EndRead
<1>7. ASSUME NEW p \in Threads, Open(p)
      PROVE  TypeOK'
  <2>1. PICK i \in IF temp = NoInode THEN Inodes \ UsedInodes ELSE {temp} :
          LET others == {q \in Threads \ {p} : At(q, "fill") /\ thread[q].inode = i}
          IN /\ temp' = i
             /\ contents' = [contents EXCEPT ![i] = Broken]
             /\ thread' = [q \in Threads |->
                  IF q = p THEN [thread[p] EXCEPT !.at = "fill", !.inode = i, !.shared = others # {}]
                  ELSE IF q \in others THEN [thread[q] EXCEPT !.shared = TRUE]
                  ELSE thread[q]]
    BY <1>7 DEF Open
  <2>2. i \in Inodes
    BY <2>1 DEF TypeOK
  <2>3. ASSUME NEW q \in Threads, NEW shared \in BOOLEAN
        PROVE  /\ [thread[q] EXCEPT !.at = "fill", !.inode = i, !.shared = shared] \in ThreadType
               /\ [thread[q] EXCEPT !.shared = TRUE] \in ThreadType
               /\ thread[q] \in ThreadType
    BY <2>2, ZenonT(30) DEF TypeOK, ThreadType
  <2>4. ThreadsOK'
    <3>1. thread' \in [Threads -> ThreadType]
      BY <2>1, <2>3
    <3>2. \A q \in Threads : thread[q] \in ThreadType
      BY DEF TypeOK
    <3>3. \A q \in Threads : q = p => thread'[q].inode = i
      BY <2>1, <3>2 DEF ThreadType
    <3>4. \A q \in Threads : q # p => thread'[q].at = thread[q].at /\ thread'[q].inode = thread[q].inode
      BY <2>1, <3>2 DEF ThreadType
    <3>. QED
      BY <2>2, <3>1, <3>3, <3>4 DEF ThreadsOK, TypeOK, At
  <2>5. contents' \in [Inodes -> Text \cup {Broken}]
    BY <2>1, <2>2 DEF TypeOK
  <2>. QED
    BY <1>7, <2>1, <2>2, <2>4, <2>5 DEF Open, TypeOK, ThreadsOK
<1>8. ASSUME NEW p \in Threads, Fill(p)
      PROVE  TypeOK'
  <2>1. thread[p].text \in Text
    BY DEF TypeOK, ThreadType
  <2>2. contents' \in [Inodes -> Text \cup {Broken}]
    BY <1>8, <2>1 DEF Fill, TypeOK
  <2>3. [thread[p] EXCEPT !.at = "replace", !.inode = NoInode, !.shared = FALSE] \in ThreadType
    BY ZenonT(30) DEF TypeOK, ThreadType
  <2>4. thread[p] \in ThreadType
    BY DEF TypeOK
  <2>5. ThreadsOK'
    BY <1>8, <2>3, <2>4, StepType DEF Fill, ThreadType
  <2>. QED
    BY <1>8, <2>2, <2>5 DEF Fill, TypeOK, ThreadsOK
<1>9. ASSUME NEW p \in Threads, Replace(p)
      PROVE  TypeOK'
  <2>1. CASE Return(p) \/ Raise(p)
    BY <1>9, <2>1, EndType DEF Replace, TypeOK, ThreadsOK
  <2>2. CASE Step(p, [thread[p] EXCEPT !.at = "open", !.pending = {},
                        !.text.applied = @ \cup thread[p].pending])
    <3>1. [thread[p] EXCEPT !.at = "open", !.pending = {},
             !.text.applied = @ \cup thread[p].pending] \in ThreadType
      <4>1. thread[p] \in ThreadType
        BY DEF TypeOK
      <4>. QED
        BY <4>1 DEF ThreadType, Text
    <3>2. thread[p] \in ThreadType
      BY DEF TypeOK
    <3>3. ThreadsOK'
      BY <2>2, <3>1, <3>2, StepType DEF ThreadType
    <3>. QED
      BY <1>9, <3>3 DEF Replace, TypeOK, ThreadsOK
  <2>. QED
    BY <1>9, <2>1, <2>2 DEF Replace
<1>10. CASE Crash
  <2>1. Ready("down") \in ThreadType /\ Ready("idle") \in ThreadType
    BY ReadyType DEF Points
  <2>. QED
    BY <1>10, <2>1, ReadyType DEF Crash, TypeOK, At, Ready
<1>. QED
  BY <1>1, <1>2, <1>3, <1>4, <1>5, <1>6, <1>7, <1>8, <1>9, <1>10 DEF Next, Operation

\* The type invariant.
THEOREM TypeCorrect == Spec => []TypeOK
<1>1. Init => TypeOK
  <2>1. Ready("down") \in ThreadType /\ Ready("idle") \in ThreadType
    BY ReadyType DEF Points
  <2>2. \A schema \in {"old", "current"} : [DefaultState EXCEPT !.schema = schema] \in Text
    BY DEF DefaultState, Text
  <2>. QED
    BY <2>1, <2>2 DEF Init, TypeOK, At, Ready
<1>. QED
  BY <1>1, TypeStep, PTL DEF Spec

-----------------------------------------------------------------------------
(* One writer *)

\* Web threads that do not write hold open a file that no one writes to any more
\* or state.json itself, and never state.tmp.
ReadersInv ==
  \A p \in Web :
    /\ thread[p].after = "idle"
    /\ thread[p].at \in {"idle", "read"}
    /\ thread[p].at = "read" =>
         /\ thread[p].pending = {}
         /\ thread[p].inode # temp
         /\ contents[thread[p].inode].schema = "current"

\* state.json is never state.tmp and always parses; from the service's first
\* update on it has the current schema.
FilesInv ==
  /\ state # NoInode => state # temp /\ contents[state] # Broken
  /\ thread[Main].at \in {"mark", "read"} \/ thread[Main].after \in {"refresh", "idle"} =>
       state # NoInode
  /\ thread[Main].at = "refresh" \/ thread[Main].after = "idle" =>
       contents[state].schema = "current"

\* The text that is on its way to state.json is what is there, with one update
\* made or none, and before it is renamed state.tmp holds all of it.
WriterInv ==
  LET m == thread[Main]
  IN /\ m.at \in Points => m.after = m.at
     /\ m.at = "read" => m.inode = state
     /\ m.pending = {} \/ \E u \in Updates : m.pending = {u}
     /\ m.at \in {"open", "fill", "replace"} =>
          /\ m.text.schema = "current"
          /\ m.text.applied = Value \/ \E u \in Updates : m.text.applied = Value \cup {u}
          /\ m.pending # {} => m.text.applied = Value
     /\ m.at = "fill" => m.inode = temp /\ temp # NoInode /\ ~m.shared
     /\ m.at = "replace" => temp # NoInode /\ contents[temp] = m.text

OneWriterInv == ReadersInv /\ FilesInv /\ WriterInv

\* What a step does to state.json.
ValueStep == Value' = Value \/ \E u \in Updates : Value' = Value \cup {u}

\* A step of one thread is no step of another.
LEMMA StepEffect ==
  ASSUME TypeOK, NEW p \in Threads, NEW record, Step(p, record)
  PROVE  thread'[p] = record /\ \A q \in Threads \ {p} : thread'[q] = thread[q]
BY DEF TypeOK, Step

\* With one writer every step keeps OneWriterInv, and does to state.json what
\* StateRegister allows.
LEMMA OneWriterStep ==
  ASSUME Writers = {Main}, TypeOK, TypeOK', OneWriterInv, [Next]_vars
  PROVE  OneWriterInv' /\ ValueStep
<1>. USE ThreadsAssumption, InodesAssumption DEF OneWriterInv
<1>0. Main \in Threads /\ Web \subseteq Threads /\ \A p \in Threads \ {Main} : p \in Web
  BY DEF Threads
<1>t. /\ \A p \in Threads : thread[p] \in ThreadType
      /\ state \in Inodes \cup {NoInode} /\ temp \in Inodes \cup {NoInode}
      /\ contents \in [Inodes -> Text \cup {Broken}]
  BY DEF TypeOK
<1>1. CASE UNCHANGED vars
  BY <1>1 DEF vars, ReadersInv, FilesInv, WriterInv, Value, ValueStep
<1>2. CASE CreateStore
  <2>1. thread'[Main] = [Ready("mark") EXCEPT !.at = IF state = NoInode THEN "open" ELSE "mark"]
        /\ \A q \in Web : thread'[q] = thread[q]
    BY <1>0, <1>2, StepEffect DEF CreateStore
  <2>2. Value' = Value /\ ReadersInv'
    BY <1>2, <2>1 DEF CreateStore, Value, ReadersInv
  <2>3. FilesInv'
    BY <1>2, <2>1 DEF CreateStore, FilesInv, Ready
  <2>4. WriterInv'
    BY <1>2, <2>1, <2>2 DEF CreateStore, WriterInv, Ready, Points, Value, DefaultState
  <2>. QED
    BY <2>2, <2>3, <2>4 DEF ValueStep
<1>3. ASSUME NEW u \in Updates, MarkInterrupted(u)
      PROVE  OneWriterInv' /\ ValueStep
  <2>1. thread'[Main] = [Ready("refresh") EXCEPT !.at = "read", !.inode = state, !.pending = {u}]
        /\ \A q \in Web : thread'[q] = thread[q]
    BY <1>0, <1>3, StepEffect DEF MarkInterrupted
  <2>2. Value' = Value /\ ReadersInv'
    BY <1>3, <2>1 DEF MarkInterrupted, Value, ReadersInv
  <2>3. FilesInv'
    BY <1>3, <2>1 DEF MarkInterrupted, FilesInv, Ready
  <2>4. WriterInv'
    BY <1>3, <2>1 DEF MarkInterrupted, WriterInv, Ready, Points
  <2>. QED
    BY <2>2, <2>3, <2>4 DEF ValueStep
<1>4. ASSUME NEW u \in Updates, RefreshSchedule(u)
      PROVE  OneWriterInv' /\ ValueStep
  <2>1. \A q \in Web : thread'[q] = thread[q]
    BY <1>0, <1>4, StepEffect DEF RefreshSchedule
  <2>2. \/ thread'[Main] = [thread[Main] EXCEPT !.at = "read", !.inode = state, !.pending = {u}]
        \/ thread'[Main] = Ready("idle")
    BY <1>0, <1>4, StepEffect DEF RefreshSchedule
  <2>3. thread[Main].at = "refresh" /\ thread[Main].after = "refresh"
    BY <1>4 DEF RefreshSchedule, At, WriterInv, Points
  <2>4. Value' = Value /\ ReadersInv'
    BY <1>4, <2>1 DEF RefreshSchedule, Value, ReadersInv
  <2>5. FilesInv'
    BY <1>0, <1>t, <1>4, <2>2, <2>3 DEF RefreshSchedule, FilesInv, Ready, ThreadType
  <2>6. WriterInv'
    <3>1. thread[Main] \in ThreadType
      BY <1>0, <1>t
    <3>2. CASE thread'[Main] = Ready("idle")
      BY <1>4, <3>2 DEF WriterInv, Ready, Points
    <3>3. CASE thread'[Main] = [thread[Main] EXCEPT !.at = "read", !.inode = state, !.pending = {u}]
      <4>1. thread'[Main].at = "read" /\ thread'[Main].inode = state /\ thread'[Main].pending = {u}
        BY <3>1, <3>3 DEF ThreadType
      <4>. QED
        BY <1>4, <4>1 DEF RefreshSchedule, WriterInv, Points
    <3>. QED
      BY <2>2, <3>2, <3>3
  <2>. QED
    BY <2>4, <2>5, <2>6 DEF ValueStep
<1>5. ASSUME NEW p \in Threads, NEW pending \in SUBSET Updates, BeginRead(p, pending),
             p # Main => pending = {} /\ Serving,
             pending = {} \/ \E u \in Updates : pending = {u}
      PROVE  OneWriterInv' /\ ValueStep
  <2>1. thread'[p] = [thread[p] EXCEPT !.at = "read", !.inode = state, !.pending = pending]
        /\ \A q \in Threads \ {p} : thread'[q] = thread[q]
    BY <1>5, StepEffect DEF BeginRead
  <2>2. /\ thread'[p].at = "read" /\ thread'[p].inode = state /\ thread'[p].pending = pending
        /\ thread'[p].after = thread[p].after
    BY <1>t, <2>1 DEF ThreadType
  <2>3. Value' = Value /\ UNCHANGED <<state, temp, contents>> /\ state # NoInode /\ At(p, "idle")
    BY <1>5 DEF BeginRead, Value
  <2>4. CASE p = Main
    <3>1. thread[Main].after = "idle" /\ \A q \in Web : thread'[q] = thread[q]
      BY <1>0, <2>1, <2>3, <2>4 DEF WriterInv, Points, At
    <3>. QED
      BY <1>5, <2>2, <2>3, <2>4, <3>1 DEF ReadersInv, FilesInv, WriterInv, ValueStep, Points, Value
  <2>5. CASE p \in Web
    <3>1. thread'[Main] = thread[Main] /\ thread[Main].after = "idle" /\ pending = {}
      BY <1>0, <1>5, <2>1, <2>5 DEF Serving
    <3>2. state # temp /\ contents[state].schema = "current"
      BY <2>3, <3>1 DEF FilesInv
    <3>3. \A q \in Web \ {p} : thread'[q] = thread[q]
      BY <1>0, <2>1
    <3>4. ReadersInv'
      BY <2>2, <2>3, <2>5, <3>1, <3>2, <3>3 DEF ReadersInv
    <3>. QED
      BY <2>3, <3>1, <3>4 DEF FilesInv, WriterInv, ValueStep, Value
  <2>. QED
    BY <1>0, <2>4, <2>5
<1>6. ASSUME NEW p \in Web, EndRead(p)
      PROVE  OneWriterInv' /\ ValueStep
  <2>1. contents[thread[p].inode] # Broken /\ contents[thread[p].inode].schema = "current"
        /\ thread[p].pending = {} /\ thread[p].after = "idle"
    BY <1>6 DEF EndRead, ReadersInv, At, Broken
  <2>2. Return(p) /\ UNCHANGED <<state, temp, contents>>
    BY <1>6, <2>1 DEF EndRead
  <2>3. thread'[p] = Ready("idle") /\ \A q \in Threads \ {p} : thread'[q] = thread[q]
    BY <1>0, <2>1, <2>2, StepEffect DEF Return
  <2>4. thread'[Main] = thread[Main]
    BY <1>0, <2>3
  <2>5. ReadersInv'
    BY <1>0, <2>2, <2>3 DEF ReadersInv, Ready
  <2>. QED
    BY <2>2, <2>4, <2>5 DEF FilesInv, WriterInv, ValueStep, Value
<1>7. CASE EndRead(Main)
  <2>. DEFINE m == thread[Main]
              text == contents[state]
  <2>1. m.at = "read" /\ m.inode = state /\ state # NoInode /\ text # Broken /\ m \in ThreadType
        /\ text \in Text
    BY <1>0, <1>t, <1>7 DEF EndRead, At, WriterInv, FilesInv
  <2>2. UNCHANGED <<state, temp, contents>> /\ Value' = Value /\ Value = text.applied
    BY <1>7, <2>1 DEF EndRead, Value
  <2>3. \A q \in Web : thread'[q] = thread[q]
    BY <1>0, <1>7, StepEffect DEF EndRead, Return, Raise
  <2>4. ReadersInv'
    BY <2>2, <2>3 DEF ReadersInv
  <2>5. CASE text.schema = "current" /\ m.pending = {} /\ Return(Main)
    <3>1. thread'[Main] = Ready(m.after) /\ m.after \in Points
      BY <1>0, <2>1, <2>5, StepEffect DEF Return, ThreadType
    <3>2. FilesInv' /\ WriterInv'
      BY <2>1, <2>2, <2>5, <3>1 DEF FilesInv, WriterInv, Ready, Points
    <3>. QED
      BY <2>2, <2>4, <3>2 DEF ValueStep
  <2>6. CASE text.schema = "current" /\ m.pending # {} /\
             Step(Main, [m EXCEPT !.at = "open", !.inode = NoInode, !.pending = {},
                           !.text = [text EXCEPT !.applied = @ \cup m.pending]])
    <3>1. thread'[Main] = [m EXCEPT !.at = "open", !.inode = NoInode, !.pending = {},
                             !.text = [text EXCEPT !.applied = @ \cup m.pending]]
      BY <1>0, <2>6, StepEffect
    <3>2. /\ thread'[Main].at = "open" /\ thread'[Main].after = m.after /\ thread'[Main].pending = {}
          /\ thread'[Main].text.schema = "current"
          /\ thread'[Main].text.applied = Value \cup m.pending
      BY <2>1, <2>2, <2>6, <3>1 DEF ThreadType, Text
    <3>3. FilesInv'
      BY <2>1, <2>2, <3>2 DEF FilesInv
    <3>4. WriterInv'
      BY <2>2, <2>6, <3>2 DEF WriterInv, Points
    <3>. QED
      BY <2>2, <2>4, <3>3, <3>4 DEF ValueStep
  <2>7. CASE text.schema = "old" /\
             Step(Main, [m EXCEPT !.at = "open", !.inode = NoInode,
                           !.text = [text EXCEPT !.schema = "current"]])
    <3>1. thread'[Main] = [m EXCEPT !.at = "open", !.inode = NoInode,
                             !.text = [text EXCEPT !.schema = "current"]]
      BY <1>0, <2>7, StepEffect
    <3>2. /\ thread'[Main].at = "open" /\ thread'[Main].after = m.after
          /\ thread'[Main].pending = m.pending
          /\ thread'[Main].text.schema = "current"
          /\ thread'[Main].text.applied = Value
      BY <2>1, <2>2, <3>1 DEF ThreadType, Text
    <3>3. FilesInv'
      BY <2>1, <2>2, <3>2 DEF FilesInv
    <3>4. WriterInv'
      BY <2>2, <3>2 DEF WriterInv, Points
    <3>. QED
      BY <2>2, <2>4, <3>3, <3>4 DEF ValueStep
  <2>. QED
    BY <1>7, <2>1, <2>5, <2>6, <2>7 DEF EndRead
<1>8. CASE Open(Main)
  <2>. DEFINE m == thread[Main]
  <2>1. PICK i \in IF temp = NoInode THEN Inodes \ UsedInodes ELSE {temp} :
          /\ temp' = i
          /\ contents' = [contents EXCEPT ![i] = Broken]
          /\ thread' = [thread EXCEPT ![Main] = [m EXCEPT !.at = "fill", !.inode = i, !.shared = FALSE]]
    <3>1. \A q \in Threads \ {Main} : ~At(q, "fill")
      BY <1>0 DEF ReadersInv, At
    <3>2. thread = [q \in Threads |-> thread[q]]
      BY DEF TypeOK
    <3>3. PICK i \in IF temp = NoInode THEN Inodes \ UsedInodes ELSE {temp} :
            LET others == {q \in Threads \ {Main} : At(q, "fill") /\ thread[q].inode = i}
            IN /\ temp' = i
               /\ contents' = [contents EXCEPT ![i] = Broken]
               /\ thread' = [q \in Threads |->
                    IF q = Main THEN [m EXCEPT !.at = "fill", !.inode = i, !.shared = others # {}]
                    ELSE IF q \in others THEN [thread[q] EXCEPT !.shared = TRUE]
                    ELSE thread[q]]
      BY <1>8 DEF Open
    <3>4. {q \in Threads \ {Main} : At(q, "fill") /\ thread[q].inode = i} = {}
      BY <3>1
    <3>5. thread' = [q \in Threads |->
            IF q = Main THEN [m EXCEPT !.at = "fill", !.inode = i, !.shared = FALSE] ELSE thread[q]]
      BY <3>3, <3>4
    <3>. QED
      BY <1>0, <3>2, <3>3, <3>5
  <2>2. i \in Inodes /\ i # state /\ \A q \in Web : thread[q].at = "read" => i # thread[q].inode
    BY <1>0, <1>t, <2>1 DEF UsedInodes, FilesInv, ReadersInv
  <2>3. \A q \in Web : thread'[q] = thread[q]
    BY <1>0, <2>1
  <2>4. /\ m.at = "open" /\ thread'[Main].at = "fill" /\ thread'[Main].inode = i
        /\ ~thread'[Main].shared /\ thread'[Main].after = m.after
        /\ thread'[Main].text = m.text /\ thread'[Main].pending = m.pending
    <3>1. thread'[Main] = [m EXCEPT !.at = "fill", !.inode = i, !.shared = FALSE]
      BY <1>0, <2>1 DEF TypeOK
    <3>. QED
      BY <1>0, <1>t, <1>8, <3>1 DEF ThreadType, Open, At
  <2>5. state' = state /\ \A j \in Inodes \ {i} : contents'[j] = contents[j]
    BY <1>8, <1>t, <2>1 DEF Open
  <2>6. Value' = Value /\ (state # NoInode => contents'[state] = contents[state])
    BY <1>t, <2>2, <2>5 DEF Value
  <2>7. ReadersInv'
    BY <1>0, <2>1, <2>2, <2>3, <2>5 DEF ReadersInv, TypeOK, At
  <2>8. FilesInv'
    BY <2>1, <2>2, <2>4, <2>5, <2>6 DEF FilesInv
  <2>9. WriterInv'
    BY <2>1, <2>2, <2>4, <2>6 DEF WriterInv, Points
  <2>. QED
    BY <2>6, <2>7, <2>8, <2>9 DEF ValueStep
<1>9. CASE Fill(Main)
  <2>. DEFINE m == thread[Main]
  <2>1. m.at = "fill" /\ m.inode = temp /\ temp # NoInode /\ ~m.shared
    BY <1>9 DEF Fill, At, WriterInv
  <2>2. contents' = [contents EXCEPT ![temp] = m.text] /\ UNCHANGED <<state, temp>>
    BY <1>9, <2>1 DEF Fill
  <2>3. /\ thread'[Main] = [m EXCEPT !.at = "replace", !.inode = NoInode, !.shared = FALSE]
        /\ \A q \in Web : thread'[q] = thread[q]
    BY <1>0, <1>9, StepEffect DEF Fill
  <2>4. /\ thread'[Main].at = "replace" /\ thread'[Main].after = m.after
        /\ thread'[Main].text = m.text /\ thread'[Main].pending = m.pending
    BY <1>0, <1>t, <2>3 DEF ThreadType
  <2>5. contents'[temp] = m.text /\ \A j \in Inodes \ {temp} : contents'[j] = contents[j]
    BY <1>t, <2>1, <2>2
  <2>6. Value' = Value /\ (state # NoInode => contents'[state] = contents[state])
    BY <1>t, <2>2, <2>5 DEF Value, FilesInv
  <2>7. ReadersInv'
    BY <1>0, <2>2, <2>3, <2>5 DEF ReadersInv, TypeOK, At
  <2>8. FilesInv'
    BY <2>1, <2>2, <2>4, <2>6 DEF FilesInv
  <2>9. WriterInv'
    BY <2>1, <2>2, <2>4, <2>5, <2>6 DEF WriterInv, Points
  <2>. QED
    BY <2>6, <2>7, <2>8, <2>9 DEF ValueStep
<1>10. CASE Replace(Main)
  <2>. DEFINE m == thread[Main]
  <2>1. m.at = "replace" /\ temp # NoInode /\ contents[temp] = m.text /\ m.text.schema = "current"
    BY <1>10 DEF Replace, At, WriterInv
  <2>2. state' = temp /\ temp' = NoInode /\ contents' = contents /\ Value' = m.text.applied
    BY <1>10, <2>1 DEF Replace, Value
  <2>3. \A q \in Web : thread'[q] = thread[q]
    BY <1>0, <1>10, StepEffect DEF Replace, Return, Raise
  <2>4. ReadersInv'
    BY <1>0, <2>2, <2>3 DEF ReadersInv, TypeOK, At
  <2>5. ValueStep
    BY <2>1, <2>2 DEF ValueStep, WriterInv
  <2>6. CASE m.pending = {} /\ Return(Main)
    <3>1. thread'[Main] = Ready(m.after) /\ m.after \in Points
      BY <1>0, <1>t, <2>6, StepEffect DEF Return, ThreadType
    <3>2. FilesInv' /\ WriterInv'
      BY <2>1, <2>2, <3>1 DEF FilesInv, WriterInv, Ready, Points, Broken
    <3>. QED
      BY <2>4, <2>5, <3>2
  <2>7. CASE m.pending # {} /\ Step(Main, [m EXCEPT !.at = "open", !.pending = {},
                                             !.text.applied = @ \cup m.pending])
    <3>1. thread'[Main] = [m EXCEPT !.at = "open", !.pending = {}, !.text.applied = @ \cup m.pending]
      BY <1>0, <2>7, StepEffect
    <3>2. /\ thread'[Main].at = "open" /\ thread'[Main].after = m.after /\ thread'[Main].pending = {}
          /\ thread'[Main].text.schema = "current"
          /\ thread'[Main].text.applied = m.text.applied \cup m.pending
      BY <1>0, <1>t, <2>1, <3>1 DEF ThreadType, Text
    <3>3. FilesInv'
      BY <2>1, <2>2, <3>2 DEF FilesInv, Broken
    <3>4. WriterInv'
      BY <2>2, <2>7, <3>2 DEF WriterInv, Points
    <3>. QED
      BY <2>4, <2>5, <3>3, <3>4
  <2>. QED
    BY <1>10, <2>1, <2>6, <2>7 DEF Replace
<1>11. CASE Crash
  <2>1. thread'[Main] = Ready("down") /\ \A q \in Web : thread'[q] = Ready("idle")
    BY <1>0, <1>11 DEF Crash
  <2>2. Value' = Value /\ UNCHANGED <<state, temp, contents>>
    BY <1>11 DEF Crash, Value
  <2>3. ReadersInv' /\ FilesInv' /\ WriterInv'
    BY <2>1, <2>2 DEF ReadersInv, FilesInv, WriterInv, Ready, Points
  <2>. QED
    BY <2>2, <2>3 DEF ValueStep
<1>12. ASSUME NEW p \in Web, Open(p) \/ Fill(p) \/ Replace(p)
       PROVE  FALSE
  BY <1>12 DEF Open, Fill, Replace, At, ReadersInv
<1>13. ASSUME NEW p \in Threads, Operation(p), p \in Web => Serving
       PROVE  OneWriterInv' /\ ValueStep
  <2>1. CASE BeginRead(p, {})
    BY <1>0, <1>5, <1>13, <2>1
  <2>2. ASSUME NEW u \in Updates, p \in Writers, BeginRead(p, {u})
        PROVE  OneWriterInv' /\ ValueStep
    BY <1>5, <2>2, Writers = {Main}
  <2>. QED
    BY <1>0, <1>6, <1>7, <1>8, <1>9, <1>10, <1>12, <1>13, <2>1, <2>2 DEF Operation
<1>. QED
  BY <1>0, <1>1, <1>2, <1>3, <1>4, <1>11, <1>13 DEF Next

\* With one writer OneWriterInv always holds.
LEMMA OneWriterHolds ==
  ASSUME Writers = {Main}
  PROVE  Spec => []OneWriterInv
<1>1. Init => OneWriterInv
  <2>. SUFFICES ASSUME Init PROVE OneWriterInv
    OBVIOUS
  <2>1. thread[Main] = Ready("down") /\ \A q \in Web : thread[q] = Ready("idle")
    BY ThreadsAssumption DEF Init, Threads
  <2>2. temp = NoInode /\ (state # NoInode => contents[state] # Broken)
    BY DEF Init, Broken, DefaultState
  <2>. QED
    BY <2>1, <2>2 DEF OneWriterInv, ReadersInv, FilesInv, WriterInv, Ready, Points
<1>2. TypeOK /\ TypeOK' /\ OneWriterInv /\ [Next]_vars => OneWriterInv'
  BY OneWriterStep
<1>. QED
  BY <1>1, <1>2, TypeCorrect, PTL DEF Spec

\* While one thread writes, state.json is a register on which updates take
\* effect one at a time, completely, and for good, whatever crashes come between.
THEOREM OneWriterActsAsRegister ==
  ASSUME Writers = {Main}
  PROVE  Spec => ActsAsRegister
<1>1. Init => Value = {}
  BY DEF Init, Value, DefaultState
<1>2. TypeOK /\ TypeOK' /\ OneWriterInv /\ [Next]_vars => [Register!Next]_Value
  BY OneWriterStep DEF ValueStep, Register!Next, Register!Apply
<1>. QED
  BY <1>1, <1>2, TypeCorrect, OneWriterHolds, PTL DEF Spec, ActsAsRegister, Register!Spec, Register!Init

\* While one thread writes, every text that is read parses.
THEOREM OneWriterReadsAreComplete ==
  ASSUME Writers = {Main}
  PROVE  Spec => []ReadsAreComplete
<1>1. OneWriterInv => ReadsAreComplete
  BY DEF OneWriterInv, ReadersInv, FilesInv, WriterInv, ReadsAreComplete, At, Threads, Broken
<1>. QED
  BY <1>1, OneWriterHolds, PTL
=============================================================================
