---------------------------- MODULE ReaderWriter ----------------------------
(***************************************************************************)
(* The readers/writer lock of readerWriter.cpp, one step per pthread call   *)
(* or access to the shared counter.  readers, rw_mutex and rw_cond are the  *)
(* three members, each behind a shared_ptr that the copy constructor copies, *)
(* so all copies of a lock are one lock.  A writer keeps rw_mutex from       *)
(* rwlock_start_write to rwlock_end_write; a reader only keeps it while it   *)
(* changes the counter.                                                      *)
(*                                                                           *)
(* The callers are modelled by what they do with the lock: a thread that     *)
(* holds nothing may start to read or to write, and a thread that reads may  *)
(* start to read again, as SyncFileAccessor::read_w does when it calls       *)
(* FileAccessor::read_w.  No caller starts to write while it reads.          *)
(***************************************************************************)
EXTENDS Integers, FiniteSets

CONSTANTS
  Threads,   \* the threads that share the lock
  NoThread,  \* the owner of a free mutex
  MaxNest    \* how deep one thread nests its read locks

ASSUME LockAssumption ==
  /\ IsFiniteSet(Threads)
  /\ NoThread \notin Threads
  /\ MaxNest \in Nat \ {0}

VARIABLES
  mutex,     \* the owner of rw_mutex, or NoThread
  readers,   \* the counter *readers
  held,      \* the read locks each thread has taken and not given back
  pc         \* where each thread is

vars == <<mutex, readers, held, pc>>

\* A thread at "out" is in none of the four functions; at "write" it is between
\* rwlock_start_write and rwlock_end_write.  The other points name the function
\* (sr, er, sw, ew) and the statement about to run.  At "sw_wait" the thread is
\* asleep on rw_cond, at "sw_wake" it was woken and is taking rw_mutex again.
StartReadPoints  == {"sr_lock", "sr_inc", "sr_unlock"}
EndReadPoints    == {"er_lock", "er_dec", "er_signal", "er_unlock"}
StartWritePoints == {"sw_lock", "sw_test", "sw_wait", "sw_wake"}
EndWritePoints   == {"ew_signal", "ew_unlock"}
Points == {"out", "write"} \union StartReadPoints \union EndReadPoints
            \union StartWritePoints \union EndWritePoints

Goto(t, from, to) ==
  /\ pc[t] = from
  /\ pc' = [pc EXCEPT ![t] = to]

-----------------------------------------------------------------------------
\* The pthread library.

\* pthread_mutex_lock: the caller goes on once the mutex is free and is its own.
MutexLock(t, from, to) ==
  /\ Goto(t, from, to)
  /\ mutex = NoThread
  /\ mutex' = t
  /\ UNCHANGED <<readers, held>>

\* pthread_mutex_unlock.
MutexUnlock(t, from, to) ==
  /\ Goto(t, from, to)
  /\ mutex' = NoThread
  /\ UNCHANGED <<readers, held>>

\* The threads asleep on rw_cond.
Sleepers == {t \in Threads : pc[t] = "sw_wait"}

\* pthread_cond_signal: wakes one sleeper, if there is one.  That more than one
\* may wake is covered by SpuriousWakeup.
CondSignal(t, from, to) ==
  /\ pc[t] = from
  /\ \/ /\ Sleepers = {}
        /\ pc' = [pc EXCEPT ![t] = to]
     \/ \E s \in Sleepers : pc' = [pc EXCEPT ![t] = to, ![s] = "sw_wake"]
  /\ UNCHANGED <<mutex, readers, held>>

\* pthread_cond_wait may return although nobody signalled.
SpuriousWakeup(t) ==
  /\ Goto(t, "sw_wait", "sw_wake")
  /\ UNCHANGED <<mutex, readers, held>>

-----------------------------------------------------------------------------
\* readerWriter::rwlock_start_read

CallStartRead(t) ==
  /\ Goto(t, "out", "sr_lock")
  /\ held[t] < MaxNest
  /\ UNCHANGED <<mutex, readers, held>>

StartReadLock(t) == MutexLock(t, "sr_lock", "sr_inc")

\* A slip to compare with: the counter is set where it should be incremented.
StartReadSet(t) ==
  /\ Goto(t, "sr_inc", "sr_unlock")
  /\ readers' = 1
  /\ held' = [held EXCEPT ![t] = @ + 1]
  /\ UNCHANGED mutex

StartReadCount(t) ==
  /\ Goto(t, "sr_inc", "sr_unlock")
  /\ readers' = readers + 1
  /\ held' = [held EXCEPT ![t] = @ + 1]
  /\ UNCHANGED mutex

StartReadUnlock(t) == MutexUnlock(t, "sr_unlock", "out")

-----------------------------------------------------------------------------
\* readerWriter::rwlock_end_read

CallEndRead(t) ==
  /\ Goto(t, "out", "er_lock")
  /\ held[t] > 0
  /\ UNCHANGED <<mutex, readers, held>>

EndReadLock(t) == MutexLock(t, "er_lock", "er_dec")

\* The decrement and the test of its result, both under rw_mutex.
EndReadCount(t) ==
  /\ Goto(t, "er_dec", IF readers - 1 = 0 THEN "er_signal" ELSE "er_unlock")
  /\ readers' = readers - 1
  /\ held' = [held EXCEPT ![t] = @ - 1]
  /\ UNCHANGED mutex

\* A slip: the last reader wakes nobody.
EndReadSilently(t) ==
  /\ Goto(t, "er_signal", "er_unlock")
  /\ UNCHANGED <<mutex, readers, held>>

EndReadSignal(t) == CondSignal(t, "er_signal", "er_unlock")

EndReadUnlock(t) == MutexUnlock(t, "er_unlock", "out")

-----------------------------------------------------------------------------
\* readerWriter::rwlock_start_write, which returns with rw_mutex locked

CallStartWrite(t) ==
  /\ Goto(t, "out", "sw_lock")
  /\ held[t] = 0
  /\ UNCHANGED <<mutex, readers, held>>

StartWriteLock(t) == MutexLock(t, "sw_lock", "sw_test")

\* A slip: an `if' instead of the loop, so a woken writer does not test again.
StartWriteUntested(t) ==
  /\ Goto(t, "sw_test", "write")
  /\ UNCHANGED <<mutex, readers, held>>

\* The loop's test when it lets the writer through.
StartWriteEnter(t) ==
  /\ Goto(t, "sw_test", "write")
  /\ readers <= 0
  /\ UNCHANGED <<mutex, readers, held>>

\* The loop's test when it does not: pthread_cond_wait gives rw_mutex up and
\* puts the thread to sleep in one step.
StartWriteSleep(t) ==
  /\ Goto(t, "sw_test", "sw_wait")
  /\ readers > 0
  /\ mutex' = NoThread
  /\ UNCHANGED <<readers, held>>

StartWriteRelock(t) == MutexLock(t, "sw_wake", "sw_test")

-----------------------------------------------------------------------------
\* readerWriter::rwlock_end_write

CallEndWrite(t) ==
  /\ Goto(t, "write", "ew_signal")
  /\ UNCHANGED <<mutex, readers, held>>

EndWriteSignal(t) == CondSignal(t, "ew_signal", "ew_unlock")

EndWriteUnlock(t) == MutexUnlock(t, "ew_unlock", "out")

-----------------------------------------------------------------------------
Init ==
  /\ mutex = NoThread
  /\ readers = 0
  /\ held = [t \in Threads |-> 0]
  /\ pc = [t \in Threads |-> "out"]

\* A new request for the lock.
Request(t) == CallStartRead(t) \/ CallStartWrite(t)

\* The steps that carry a request through and give the lock back.
Advance(t) ==
  \/ StartReadLock(t) \/ StartReadCount(t) \/ StartReadUnlock(t)
  \/ CallEndRead(t) \/ EndReadLock(t) \/ EndReadCount(t)
  \/ EndReadSignal(t) \/ EndReadUnlock(t)
  \/ StartWriteLock(t) \/ StartWriteEnter(t) \/ StartWriteSleep(t)
  \/ StartWriteRelock(t)
  \/ CallEndWrite(t) \/ EndWriteSignal(t) \/ EndWriteUnlock(t)

Next == \E t \in Threads : Request(t) \/ Advance(t) \/ SpuriousWakeup(t)

Spec == Init /\ [][Next]_vars

-----------------------------------------------------------------------------
\* Properties.

\* Every variable has its type; the counter never goes below zero.
TypeOK ==
  /\ mutex \in Threads \union {NoThread}
  /\ readers \in Nat
  /\ held \in [Threads -> 0..MaxNest]
  /\ pc \in [Threads -> Points]

\* The points at which a thread has the write lock.
HasWrite(t) == pc[t] \in {"write"} \union EndWritePoints

\* A thread that has the write lock is alone: no other thread has it, and no
\* thread, itself included, holds a read lock (rwlock_start_write's loop and
\* the mutex it keeps).
WriterIsAlone ==
  \A t \in Threads : HasWrite(t) =>
    \A u \in Threads : held[u] = 0 /\ (HasWrite(u) => u = t)

\* One token for every read lock, when each thread t holds h[t] of them.
Tokens(h) == {x \in Threads \X (1..MaxNest) : x[2] <= h[x[1]]}

\* *readers counts exactly the read locks that are held, nested ones too: no
\* increment or decrement is lost and none is made twice.
CountIsExact == readers = Cardinality(Tokens(held))

\* A thread that will wake a sleeper, or has woken it, or has yet to test the
\* counter itself and will signal when it gives the write lock back.
WillSignal(t) ==
  pc[t] \in {"er_signal", "sw_test", "sw_wake", "write", "ew_signal"}

\* No wake-up is lost: while a writer sleeps on rw_cond, some reader has still
\* to leave or some thread is on its way to a pthread_cond_signal.
NoLostWakeup ==
  Sleepers # {} =>
    \E t \in Threads : held[t] > 0 \/ WillSignal(t)

\* The thread that has the write lock, which then owns rw_mutex.
WriteHolder == IF mutex \in Threads /\ HasWrite(mutex) THEN mutex ELSE NoThread

\* The abstract lock: a read lock counts from the increment to the decrement,
\* the write lock from the test that lets the writer through to the unlock.
Lock == INSTANCE RWLock WITH reading <- held, writer <- WriteHolder

\* The four functions implement the abstract readers/writer lock.
ImplementsRWLock == Lock!LockSpec
=============================================================================
