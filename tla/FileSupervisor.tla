--------------------------- MODULE FileSupervisor ---------------------------
(***************************************************************************)
(* FileSupervisor.cpp: the two static maps in which the file server finds    *)
(* its accessors, by file name and by descriptor, under one static lock.      *)
(* The supLock functions repeat those of readerWriter.cpp statement by         *)
(* statement, so the lock is the one that ReaderWriter shows to be an RWLock.   *)
(*                                                                           *)
(* A map is modelled by its domain.  map.at(key) throws out_of_range when the  *)
(* key is absent, also on the left of an assignment; nothing in the program    *)
(* catches it, so it ends the process.                                         *)
(***************************************************************************)
EXTENDS Integers, FiniteSets

CONSTANTS
  Threads,   \* the threads that serve clients
  NoThread,
  Names,     \* the file names asked for
  Numbers    \* the descriptors asked for

ASSUME SupervisorAssumption == NoThread \notin Threads /\ IsFiniteSet(Threads)

VARIABLES
  byString, byInt,   \* the keys of filesByString and filesByInt
  reading, writer,   \* the supervisor's lock, as in RWLock
  alive,             \* FALSE once an exception ended the process
  at,                \* where each thread is
  request            \* the call each thread makes

supVars == <<byString, byInt, reading, writer, alive, at, request>>

Lock == INSTANCE RWLock

registry == <<byString, byInt>>

\* The three public functions: getSyncFileAccessorStr, getSyncFileAccessorInt and
\* setFileDescriptor.
Functions == {"getStr", "getInt", "setFd"}
Requests == [fn : Functions, name : Names, number : Numbers]
NoRequest == [fn |-> "none"]

\* "enter_" points wait for the lock.  setFileDescriptor holds it to write when it
\* goes to "enter_str", to run getSyncFileAccessorStr before its own assignment.
\* "at_" points run map.at on the map they name, outside the lock.  The "assign_"
\* points run the two assignments to map.at.
Points == {"idle", "enter_str", "find_str", "at_str", "enter_add", "assign_str",
           "enter_int", "find_int", "at_int", "enter_set", "assign_int", "done"}

Go(t, from, to) ==
  /\ alive
  /\ at[t] = from
  /\ at' = [at EXCEPT ![t] = to]

FirstPoint(fn) ==
  CASE fn = "getStr" -> "enter_str"
    [] fn = "getInt" -> "enter_int"
    [] fn = "setFd"  -> "enter_set"

Call(t, fn, n, k) ==
  /\ Go(t, "idle", FirstPoint(fn))
  /\ request' = [request EXCEPT ![t] = [fn |-> fn, name |-> n, number |-> k]]
  /\ UNCHANGED <<registry, reading, writer, alive>>

\* supLock_start_read
EnterToRead(t) ==
  /\ Go(t, "enter_str", "find_str") \/ Go(t, "enter_int", "find_int")
  /\ Lock!BeginRead(t)
  /\ UNCHANGED <<registry, alive, request>>

\* A slip: the lock is not given back.
FindWithoutUnlock(t) ==
  /\ \/ Go(t, "find_str",
           IF request[t].name \in byString THEN "at_str" ELSE "enter_add")
     \/ Go(t, "find_int",
           IF request[t].number \in byInt THEN "at_int" ELSE "done")
  /\ UNCHANGED <<registry, reading, writer, alive, request>>

\* existInMap and supLock_end_read.  A name that is not there is to be added, a
\* number that is not there is answered with nullopt.
Find(t) ==
  /\ \/ Go(t, "find_str",
           IF request[t].name \in byString THEN "at_str" ELSE "enter_add")
     \/ Go(t, "find_int",
           IF request[t].number \in byInt THEN "at_int" ELSE "done")
  /\ Lock!EndRead(t)
  /\ UNCHANGED <<registry, alive, request>>

\* A slip: setFileDescriptor looks the name up without the lock.
EnterToWriteUnlocked(t) ==
  /\ \/ Go(t, "enter_add", "assign_str") /\ Lock!BeginWrite(t)
     \/ Go(t, "enter_set", "enter_str") /\ UNCHANGED <<reading, writer>>
  /\ UNCHANGED <<registry, alive, request>>

\* supLock_start_write, in addFileAccessor and in setFileDescriptor
EnterToWrite(t) ==
  /\ Go(t, "enter_add", "assign_str") \/ Go(t, "enter_set", "enter_str")
  /\ Lock!BeginWrite(t)
  /\ UNCHANGED <<registry, alive, request>>

\* The key that thread t passes to map.at, and whether it is there.
Present(t) ==
  IF at[t] \in {"at_str", "assign_str"} THEN request[t].name \in byString
                                        ELSE request[t].number \in byInt

\* getSyncFileAccessorStr returns to its caller, which may be setFileDescriptor.
AfterStr(t) == IF request[t].fn = "setFd" THEN "assign_int" ELSE "done"

\* map.at finds its key: a lookup returns the accessor, an assignment replaces it
\* and supLock_end_write follows.  The keys of the maps stay as they are.
AtFinds(t) ==
  /\ \/ Go(t, "at_str", AfterStr(t)) /\ UNCHANGED <<reading, writer>>
     \/ Go(t, "at_int", "done") /\ UNCHANGED <<reading, writer>>
     \/ Go(t, "assign_str", "at_str") /\ Lock!EndWrite(t)
     \/ Go(t, "assign_int", "done") /\ Lock!EndWrite(t)
  /\ UNCHANGED alive

\* map.at throws.
AtThrows == alive' = FALSE /\ UNCHANGED <<reading, writer, at>>

\* Line 26, 31, 36, 45 or 52.
At(t) ==
  /\ alive
  /\ at[t] \in {"at_str", "at_int", "assign_str", "assign_int"}
  /\ IF Present(t) THEN AtFinds(t) ELSE AtThrows
  /\ UNCHANGED <<registry, request>>

\* The caller has taken the answer.
Return(t) ==
  /\ Go(t, "done", "idle")
  /\ UNCHANGED <<registry, reading, writer, alive, request>>

Init ==
  /\ byString = {} /\ byInt = {}
  /\ Lock!Unlocked
  /\ alive = TRUE
  /\ at = [t \in Threads |-> "idle"]
  /\ request = [t \in Threads |-> NoRequest]

Step(t) == EnterToRead(t) \/ Find(t) \/ EnterToWrite(t) \/ At(t)

Next ==
  \E t \in Threads :
    \/ \E fn \in Functions, n \in Names, k \in Numbers : Call(t, fn, n, k)
    \/ Step(t)
    \/ Return(t)

Spec == Init /\ [][Next]_supVars

-----------------------------------------------------------------------------
\* Properties.

\* Every variable has its type.
TypeOK ==
  /\ byString \subseteq Names /\ byInt \subseteq Numbers
  /\ reading \in [Threads -> Nat] /\ writer \in Threads \union {NoThread}
  /\ alive \in BOOLEAN
  /\ at \in [Threads -> Points]
  /\ request \in [Threads -> {NoRequest} \union Requests]
  /\ \A t \in Threads : at[t] # "idle" => request[t] \in Requests

\* The thread is in setFileDescriptor and has taken the lock.
Setting(t) ==
  /\ at[t] \notin {"idle", "done", "enter_set"}
  /\ request[t].fn = "setFd"

\* Once setFileDescriptor has the lock the supervisor is stuck for good: that
\* thread waits for its own lock in getSyncFileAccessorStr, the lock is never
\* given back, and no thread gets past the point where it waits for it.
SetFileDescriptorWedges ==
  [][(\E t \in Threads : Setting(t))
       => /\ UNCHANGED <<reading, writer, alive>>
          /\ \A t \in Threads : at'[t] = at[t] \/ at[t] \in {"idle", "done"}]_supVars

\* Somebody in the middle of a function means that some thread can take a step,
\* which is false of this code.  The lock alone is deadlock-free: outside
\* setFileDescriptor a thread that waits for the lock waits for one that runs.
WaitersWaitForRunners ==
  alive /\ (\E t \in Threads : at[t] \notin {"idle", "done"})
    => (\E t \in Threads : Setting(t) \/ ENABLED Step(t))

=============================================================================
