------------------------------- MODULE RWLock -------------------------------
(***************************************************************************)
(* What a readers/writer lock promises its callers, with every call reduced *)
(* to the one instant at which it takes effect.  Any number of threads may  *)
(* read together, and a thread may read while it already reads; a writer is *)
(* alone.  ReaderWriter shows that the lock of readerWriter.cpp implements  *)
(* this module, and the modules of the lock's clients are built on it.      *)
(***************************************************************************)
EXTENDS Integers

CONSTANTS
  Threads,   \* the threads that share the lock
  NoThread   \* the value of writer when nobody writes

VARIABLES
  reading,   \* how many read locks each thread holds
  writer     \* the thread that holds the write lock, or NoThread

lockVars == <<reading, writer>>

Unlocked ==
  /\ reading = [t \in Threads |-> 0]
  /\ writer = NoThread

BeginRead(t) ==
  /\ writer = NoThread
  /\ reading' = [reading EXCEPT ![t] = @ + 1]
  /\ UNCHANGED writer

EndRead(t) ==
  /\ writer = NoThread
  /\ reading[t] > 0
  /\ reading' = [reading EXCEPT ![t] = @ - 1]
  /\ UNCHANGED writer

BeginWrite(t) ==
  /\ writer = NoThread
  /\ \A u \in Threads : reading[u] = 0
  /\ writer' = t
  /\ UNCHANGED reading

EndWrite(t) ==
  /\ writer = t
  /\ writer' = NoThread
  /\ UNCHANGED reading

LockNext ==
  \E t \in Threads : BeginRead(t) \/ EndRead(t) \/ BeginWrite(t) \/ EndWrite(t)

LockSpec == Unlocked /\ [][LockNext]_lockVars
=============================================================================
