------------------------ MODULE FileSupervisorProofs ------------------------
(***************************************************************************)
(* For any number of threads, files and descriptors: setFileDescriptor wedges  *)
(* the supervisor, and nothing else does.                                      *)
(*                                                                           *)
(* The inductive invariant says who holds the lock at which point.  As no       *)
(* function inserts a key into the maps, no thread gets to a point that only a   *)
(* key leads to, so a thread that writes is either about to throw or inside      *)
(* setFileDescriptor, waiting to read.  Unless one is, somebody goes on.       *)
(***************************************************************************)
EXTENDS FileSupervisor, TLAPS

\* Both maps are empty, as map.at inserts nothing.
RegistryIsEmpty == byString = {} /\ byInt = {}

\* The points no thread comes to while the maps are empty.
Unreached == {"at_str", "at_int", "assign_int"}

LockAgrees ==
  \A t \in Threads :
    /\ at[t] \notin Unreached
    /\ reading[t] = IF at[t] \in {"find_str", "find_int"} THEN 1 ELSE 0
    /\ at[t] = "enter_set" => request[t].fn = "setFd"
    /\ at[t] = "assign_str" \/ Setting(t) => writer = t
    /\ Setting(t) => at[t] = "enter_str"

WriterIsAlone ==
  writer # NoThread =>
    /\ \A t \in Threads : reading[t] = 0
    /\ at[writer] = "assign_str" \/ Setting(writer)

IInv == TypeOK /\ RegistryIsEmpty /\ LockAgrees /\ WriterIsAlone

LEMMA InitIInv == Init => IInv
  BY SupervisorAssumption
  DEF Init, IInv, TypeOK, RegistryIsEmpty, LockAgrees, WriterIsAlone, Setting,
      Points, Unreached, Requests, NoRequest, Lock!Unlocked

LEMMA NextIInv == IInv /\ [Next]_supVars => IInv'
<1> SUFFICES ASSUME IInv, [Next]_supVars PROVE IInv'
  OBVIOUS
<1> USE SupervisorAssumption
    DEF IInv, TypeOK, RegistryIsEmpty, LockAgrees, WriterIsAlone, Setting,
        Points, Unreached, Functions, Requests, NoRequest, Go, registry
<1>1. ASSUME NEW t \in Threads, NEW fn \in Functions, NEW n \in Names,
             NEW k \in Numbers, Call(t, fn, n, k)
      PROVE IInv'
  BY <1>1 DEF Call, FirstPoint
<1>2. ASSUME NEW t \in Threads, EnterToRead(t) PROVE IInv'
  <2>1. writer = NoThread /\ ~Setting(t)
    BY <1>2 DEF EnterToRead, Lock!BeginRead
  <2>2. at' \in [Threads -> Points] /\ reading' \in [Threads -> Nat]
    BY <1>2 DEF EnterToRead, Lock!BeginRead
  <2> QED
    BY <1>2, <2>1, <2>2 DEF EnterToRead, Lock!BeginRead
<1>3. ASSUME NEW t \in Threads, Find(t) PROVE IInv'
  <2>1. writer = NoThread
    BY <1>3 DEF Find, Lock!EndRead
  <2>2. at' \in [Threads -> Points] /\ reading' \in [Threads -> Nat]
    BY <1>3 DEF Find, Lock!EndRead
  <2> QED
    BY <1>3, <2>1, <2>2 DEF Find, Lock!EndRead
<1>4. ASSUME NEW t \in Threads, EnterToWrite(t) PROVE IInv'
  BY <1>4 DEF EnterToWrite, Lock!BeginWrite
<1>5. ASSUME NEW t \in Threads, At(t) PROVE IInv'
  <2>1. ~Present(t)
    BY <1>5 DEF At, Present
  <2> QED
    BY <1>5, <2>1 DEF At, AtThrows
<1>6. ASSUME NEW t \in Threads, Return(t) PROVE IInv'
  BY <1>6 DEF Return
<1>7. CASE UNCHANGED supVars
  BY <1>7 DEF supVars
<1> QED
  BY <1>1, <1>2, <1>3, <1>4, <1>5, <1>6, <1>7 DEF Next, Step

LEMMA SpecIInv == Spec => []IInv
  BY InitIInv, NextIInv, PTL DEF Spec

\* Every variable of the supervisor has its type, whoever calls what.
THEOREM SupervisorTypeCorrect == Spec => []TypeOK
<1>1. IInv => TypeOK
  BY DEF IInv
<1> QED
  BY <1>1, SpecIInv, PTL

\* After setFileDescriptor has taken the supervisor's lock, the lock never changes
\* hands and no thread gets past a point where it waits for it.
LEMMA StepWedged ==
  ASSUME IInv, [Next]_supVars, NEW w \in Threads, Setting(w)
  PROVE  /\ UNCHANGED <<reading, writer, alive>>
         /\ \A t \in Threads : at'[t] = at[t] \/ at[t] \in {"idle", "done"}
<1> USE SupervisorAssumption
    DEF IInv, TypeOK, LockAgrees, WriterIsAlone, Unreached, Go
<1>0. writer = w /\ at[w] = "enter_str" /\ w # NoThread
  OBVIOUS
<1>1. ASSUME NEW t \in Threads, Step(t) PROVE FALSE
  BY <1>0, <1>1
  DEF Step, EnterToRead, Find, EnterToWrite, At, Lock!BeginRead, Lock!EndRead,
      Lock!BeginWrite, Setting
<1>2. ASSUME NEW t \in Threads, NEW fn \in Functions, NEW n \in Names,
             NEW k \in Numbers, Call(t, fn, n, k)
      PROVE /\ UNCHANGED <<reading, writer, alive>>
            /\ \A u \in Threads : at'[u] = at[u] \/ at[u] \in {"idle", "done"}
  BY <1>2 DEF Call
<1>3. ASSUME NEW t \in Threads, Return(t)
      PROVE /\ UNCHANGED <<reading, writer, alive>>
            /\ \A u \in Threads : at'[u] = at[u] \/ at[u] \in {"idle", "done"}
  BY <1>3 DEF Return
<1>4. CASE UNCHANGED supVars
  BY <1>4 DEF supVars
<1> QED
  BY <1>1, <1>2, <1>3, <1>4 DEF Next

\* Once a thread is inside setFileDescriptor, the supervisor stays as it is.
THEOREM SupervisorWedges == Spec => SetFileDescriptorWedges
<1>1. IInv /\ [Next]_supVars
        => [(\E t \in Threads : Setting(t))
              => /\ UNCHANGED <<reading, writer, alive>>
                 /\ \A t \in Threads : at'[t] = at[t] \/ at[t] \in {"idle", "done"}]_supVars
  BY StepWedged
<1> QED
  BY <1>1, SpecIInv, PTL DEF Spec, SetFileDescriptorWedges
-----------------------------------------------------------------------------
\* Who waits for whom.  The guards of the steps, point by point: a thread that waits for
\* the lock needs it free, one that gives it back needs to have it.
CanStep(t) ==
  CASE at[t] \in {"enter_str", "enter_int"} -> alive /\ writer = NoThread
    [] at[t] \in {"find_str", "find_int"}   -> alive /\ writer = NoThread /\ reading[t] > 0
    [] at[t] \in {"enter_add", "enter_set"} ->
         alive /\ writer = NoThread /\ \A u \in Threads : reading[u] = 0
    [] at[t] \in {"assign_str", "assign_int"} -> alive /\ (Present(t) => writer = t)
    [] at[t] \in {"at_str", "at_int"} -> alive
    [] OTHER -> FALSE

\* No step is taken without it: CanStep leaves out none of the guards.
LEMMA StepsAreGuarded ==
  ASSUME TypeOK, NEW t \in Threads, Step(t)
  PROVE  CanStep(t)
<1>1. CASE EnterToRead(t)
  BY <1>1 DEF EnterToRead, Go, Lock!BeginRead, CanStep
<1>2. CASE Find(t)
  BY <1>2 DEF Find, Go, Lock!EndRead, CanStep
<1>3. CASE EnterToWrite(t)
  BY <1>3 DEF EnterToWrite, Go, Lock!BeginWrite, CanStep
<1>4. CASE At(t)
  <2>1. Present(t) /\ at[t] \in {"assign_str", "assign_int"} => writer = t
    BY <1>4 DEF At, AtFinds, Go, Lock!EndWrite
  <2> QED
    BY <1>4, <2>1 DEF At, CanStep
<1> QED
  BY <1>1, <1>2, <1>3, <1>4 DEF Step

\* Outside setFileDescriptor, a thread in the middle of a function means a thread that
\* may go on: the writer that is about to throw, else a reader, else any that waits.
SomebodyRuns ==
  alive /\ (\E t \in Threads : at[t] \notin {"idle", "done"})
    => \E t \in Threads : Setting(t) \/ CanStep(t)

\* For any number of threads, the two lookups and addFileAccessor never wait in a circle.
THEOREM OnlySetFileDescriptorHangs == Spec => []SomebodyRuns
<1>1. IInv => SomebodyRuns
  <2> SUFFICES ASSUME IInv, alive, NEW t \in Threads, at[t] \notin {"idle", "done"}
               PROVE  \E u \in Threads : Setting(u) \/ CanStep(u)
    BY DEF SomebodyRuns
  <2> USE SupervisorAssumption DEF IInv, TypeOK, RegistryIsEmpty, LockAgrees, Unreached
  <2>1. CASE writer # NoThread
    <3>1. writer \in Threads /\ (at[writer] = "assign_str" \/ Setting(writer))
      BY <2>1 DEF WriterIsAlone
    <3>2. at[writer] = "assign_str" => ~Present(writer)
      BY <3>1 DEF Present
    <3> QED
      BY <3>1, <3>2 DEF CanStep
  <2>2. CASE writer = NoThread /\ \E u \in Threads : reading[u] # 0
    <3>1. PICK u \in Threads : reading[u] # 0
      BY <2>2
    <3>2. at[u] \in {"find_str", "find_int"} /\ reading[u] = 1
      BY <3>1
    <3> QED
      BY <2>2, <3>2 DEF CanStep
  <2>3. CASE writer = NoThread /\ \A u \in Threads : reading[u] = 0
    <3>1. at[t] \in {"enter_str", "enter_int", "enter_add", "enter_set"}
      BY <2>3 DEF Points
    <3> QED
      BY <2>3, <3>1 DEF CanStep
  <2> QED
    BY <2>1, <2>2, <2>3
<1> QED
  BY <1>1, SpecIInv, PTL
=============================================================================
