------------------------------ MODULE StateStore ------------------------------
(***************************************************************************)
(* StateStore at the level of files: state.json is read and parsed, and    *)
(* written by filling state.tmp and renaming it over state.json.  All      *)
(* threads of the add-on share one StateStore, and every operation of it   *)
(* is a sequence of system calls with nothing to exclude the others.       *)
(*                                                                         *)
(* A file is an inode: a thread that has a file open keeps reading or      *)
(* writing the inode it opened, whatever its name is by then.              *)
(***************************************************************************)
EXTENDS Integers

CONSTANTS
  Main,     \* the thread of main.py
  Web,      \* the threads of the web server
  Writers,  \* the threads that update the state; the others only read it
  Updates,  \* the updates that writers make
  Inodes    \* enough inodes for two names and all open files

ASSUME ThreadsAssumption == Main \notin Web /\ Writers \subseteq Web \cup {Main}

NoInode == "no inode"
ASSUME InodesAssumption == NoInode \notin Inodes

Threads == Web \cup {Main}

VARIABLES
  state,     \* the inode named state.json
  temp,      \* the inode named state.tmp
  contents,  \* the text in each inode
  thread     \* what each thread is doing

vars == <<state, temp, contents, thread>>

-----------------------------------------------------------------------------
(* Values *)

\* A text that parses has a schema version and contains some updates.  Any other
\* (empty, cut off, mixed from two texts) is Broken.
Text == [schema : {"old", "current"}, applied : SUBSET Updates]
Broken == [schema |-> "broken", applied |-> {}]
DefaultState == [schema |-> "current", applied |-> {}]

\* at: the system call the thread does next; after: what the service does when
\* the current operation returns; inode: the file it has open; shared: whether
\* another thread had that file open for writing too; text: what it is going to
\* write; pending: the update it has not applied to text yet.
Ready(after) == [at |-> after, after |-> after, inode |-> NoInode, shared |-> FALSE,
                 text |-> DefaultState, pending |-> {}]

At(p, point) == thread[p].at = point
Step(p, record) == thread' = [thread EXCEPT ![p] = record]

Running == thread[Main].after # "down"
\* The web server runs from the time the service has been created.
Serving == thread[Main].after = "idle"

\* The operation returns.
Return(p) == Step(p, Ready(thread[p].after))
\* The operation raises: a request fails, the loop logs it, and main does not
\* get past the creation of the service.
Raise(p) == Step(p, Ready(IF thread[p].after = "idle" THEN "idle" ELSE "down"))

UsedInodes == {state, temp} \cup {thread[p].inode : p \in Threads}

-----------------------------------------------------------------------------
(* read *)

\* read_text opens state.json, which nothing ever removes ...
BeginRead(p, pending) ==
  /\ At(p, "idle")
  /\ state # NoInode
  /\ Step(p, [thread[p] EXCEPT !.at = "read", !.inode = state, !.pending = pending])
  /\ UNCHANGED <<state, temp, contents>>

\* ... and reads what is in the file then.  An old schema is migrated by a write.
EndRead(p) ==
  /\ At(p, "read")
  /\ LET text == contents[thread[p].inode]
         pending == thread[p].pending
     IN \/ text = Broken /\ Raise(p)
        \/ text.schema = "current" /\ pending = {} /\ Return(p)
        \/ text.schema = "current" /\ pending # {} /\
             Step(p, [thread[p] EXCEPT !.at = "open", !.inode = NoInode, !.pending = {},
                        !.text = [text EXCEPT !.applied = @ \cup pending]])
        \/ text.schema = "old" /\
             Step(p, [thread[p] EXCEPT !.at = "open", !.inode = NoInode,
                        !.text = [text EXCEPT !.schema = "current"]])
  /\ UNCHANGED <<state, temp, contents>>

-----------------------------------------------------------------------------
(* write *)

\* Mutant: the file is written in place.
OpenInPlace(p) ==
  /\ At(p, "open")
  /\ \E i \in IF state = NoInode THEN Inodes \ UsedInodes ELSE {state} :
       /\ temp' = i
       /\ contents' = [contents EXCEPT ![i] = Broken]
       /\ Step(p, [thread[p] EXCEPT !.at = "fill", !.inode = i])
  /\ UNCHANGED state

\* write_text opens state.tmp, which creates or truncates it ...
Open(p) ==
  /\ At(p, "open")
  /\ \E i \in IF temp = NoInode THEN Inodes \ UsedInodes ELSE {temp} :
       LET others == {q \in Threads \ {p} : At(q, "fill") /\ thread[q].inode = i}
       IN /\ temp' = i
          /\ contents' = [contents EXCEPT ![i] = Broken]
          /\ thread' = [q \in Threads |->
               IF q = p THEN [thread[p] EXCEPT !.at = "fill", !.inode = i, !.shared = others # {}]
               ELSE IF q \in others THEN [thread[q] EXCEPT !.shared = TRUE]
               ELSE thread[q]]
  /\ UNCHANGED state

\* ... writes the text, which may mix with the text of another, and closes it.
Fill(p) ==
  /\ At(p, "fill")
  /\ \E text \in {thread[p].text} \cup (IF thread[p].shared THEN {Broken} ELSE {}) :
       contents' = [contents EXCEPT ![thread[p].inode] = text]
  /\ Step(p, [thread[p] EXCEPT !.at = "replace", !.inode = NoInode, !.shared = FALSE])
  /\ UNCHANGED <<state, temp>>

\* replace renames whatever is named state.tmp; when another thread has renamed
\* it already, it raises.  After a migration the update is still to be made.
Replace(p) ==
  /\ At(p, "replace")
  /\ IF temp = NoInode
     THEN Raise(p) /\ UNCHANGED <<state, temp>>
     ELSE /\ state' = temp
          /\ temp' = NoInode
          /\ IF thread[p].pending = {}
             THEN Return(p)
             ELSE Step(p, [thread[p] EXCEPT !.at = "open", !.pending = {},
                             !.text.applied = @ \cup thread[p].pending])
  /\ UNCHANGED contents

-----------------------------------------------------------------------------
(* The process *)

\* Mutant: the default state is written at every start.
CreateStoreAnew ==
  /\ At(Main, "down")
  /\ Step(Main, [Ready("mark") EXCEPT !.at = "open"])
  /\ UNCHANGED <<state, temp, contents>>

\* StateStore.__init__
CreateStore ==
  /\ At(Main, "down")
  /\ Step(Main, [Ready("mark") EXCEPT !.at = IF state = NoInode THEN "open" ELSE "mark"])
  /\ UNCHANGED <<state, temp, contents>>

\* AutoUpgradeService.__init__ goes on with an update of its own
\* (mark_interrupted_if_running, which writes in any case) ...
MarkInterrupted(u) ==
  /\ At(Main, "mark")
  /\ state # NoInode
  /\ Step(Main, [Ready("refresh") EXCEPT !.at = "read", !.inode = state, !.pending = {u}])
  /\ UNCHANGED <<state, temp, contents>>

\* ... and with those of _refresh_schedule, then the web server is started.
RefreshSchedule(u) ==
  /\ At(Main, "refresh")
  /\ \/ state # NoInode /\ Step(Main, [thread[Main] EXCEPT !.at = "read", !.inode = state, !.pending = {u}])
     \/ Step(Main, Ready("idle"))
  /\ UNCHANGED <<state, temp, contents>>

\* The process ends, with all its threads.
Crash ==
  /\ Running
  /\ thread' = [p \in Threads |-> IF p = Main THEN Ready("down") ELSE Ready("idle")]
  /\ UNCHANGED <<state, temp, contents>>

-----------------------------------------------------------------------------
\* Before the first start, or with the state of an earlier version.
Init ==
  /\ state \in Inodes \cup {NoInode}
  /\ temp = NoInode
  /\ \E schema \in {"old", "current"} :
       contents = [i \in Inodes |-> IF i = state THEN [DefaultState EXCEPT !.schema = schema] ELSE Broken]
  /\ thread = [p \in Threads |-> IF p = Main THEN Ready("down") ELSE Ready("idle")]

Operation(p) ==
  \/ BeginRead(p, {})
  \/ p \in Writers /\ \E u \in Updates : BeginRead(p, {u})
  \/ EndRead(p) \/ Open(p) \/ Fill(p) \/ Replace(p)

Next ==
  \/ CreateStore
  \/ \E u \in Updates : MarkInterrupted(u) \/ RefreshSchedule(u)
  \/ Operation(Main)
  \/ Serving /\ \E p \in Web : Operation(p)
  \/ Crash

Spec == Init /\ [][Next]_vars

-----------------------------------------------------------------------------
(* Properties *)

Points == {"down", "mark", "refresh", "idle"}
ThreadType == [at : Points \cup {"read", "open", "fill", "replace"}, after : Points,
               inode : Inodes \cup {NoInode}, shared : BOOLEAN, text : Text,
               pending : SUBSET Updates]

\* The type invariant.
TypeOK ==
  /\ state \in Inodes \cup {NoInode}
  /\ temp \in Inodes \cup {NoInode}
  /\ contents \in [Inodes -> Text \cup {Broken}]
  /\ thread \in [Threads -> ThreadType]
  /\ \A p \in Threads : At(p, "read") \/ At(p, "fill") => thread[p].inode \in Inodes

\* The updates that state.json contains.
Value == IF state = NoInode THEN {} ELSE contents[state].applied

Register == INSTANCE StateRegister WITH value <- Value

\* While one thread writes, state.json is a register: whatever crashes and
\* migrations come in between, no update is lost or half made.
ActsAsRegister == Register!Spec

\* While one thread writes, no reader ever finds a text that does not parse,
\* although it may read a file that has lost its name since it was opened.
ReadsAreComplete == \A p \in Threads : At(p, "read") => contents[thread[p].inode] # Broken

\* DOCS.md, Rollback: after a restart in the middle of a run, the add-on marks the run as
\* interrupted on next start.  For that it has to be able to read state.json,
\* which two writers can leave truncated for ever.
StartsAgain == ~Running /\ state # NoInode => contents[state] # Broken
=============================================================================
