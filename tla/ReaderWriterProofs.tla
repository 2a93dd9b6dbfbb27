------------------------- MODULE ReaderWriterProofs -------------------------
(***************************************************************************)
(* Proofs about ReaderWriter, for any finite set of threads and any depth   *)
(* of nesting: the type invariant, the exclusion of writers, the counter,   *)
(* the absence of lost wake-ups, that the lock implements RWLock, and that   *)
(* it never deadlocks.                                                       *)
(***************************************************************************)
EXTENDS ReaderWriter, FiniteSetTheorems, TLAPS

\* The points at which a thread owns rw_mutex.
InCritical(t) ==
  pc[t] \in {"sr_inc", "sr_unlock", "er_dec", "er_signal", "er_unlock",
             "sw_test", "write", "ew_signal", "ew_unlock"}

\* rw_mutex belongs to the one thread that is at such a point.
MutexInv == \A t \in Threads : InCritical(t) <=> mutex = t

\* What a thread holds where it is: the four functions are called in the order
\* their callers respect, and a decrement has something to decrement.
HeldInv ==
  \A t \in Threads :
    /\ pc[t] \in {"sr_lock", "sr_inc"} => held[t] < MaxNest
    /\ pc[t] \in {"er_lock", "er_dec"} => held[t] > 0
    /\ pc[t] \in StartWritePoints => held[t] = 0

\* A thread has the write lock only while the counter is zero.
WriteInv == \A t \in Threads : HasWrite(t) => readers = 0

\* The inductive invariant.
IInv ==
  /\ TypeOK
  /\ MutexInv
  /\ HeldInv
  /\ CountIsExact
  /\ WriteInv
  /\ NoLostWakeup

-----------------------------------------------------------------------------
\* Read tokens.

\* There are finitely many read tokens.
LEMMA TokensFinite ==
  ASSUME NEW h
  PROVE  IsFiniteSet(Tokens(h))
<1>1. IsFiniteSet(1..MaxNest)
  BY LockAssumption, FS_Interval
<1>2. IsFiniteSet(Threads \X (1..MaxNest))
  BY <1>1, LockAssumption, FS_Product
<1>3. Tokens(h) \in SUBSET (Threads \X (1..MaxNest))
  BY DEF Tokens
<1>4. QED
  BY <1>2, <1>3, FS_Subset

\* One more read lock is one more token.
LEMMA TokenAdded ==
  ASSUME NEW h \in [Threads -> 0..MaxNest], NEW t \in Threads, h[t] < MaxNest
  PROVE  Cardinality(Tokens([h EXCEPT ![t] = @ + 1])) = Cardinality(Tokens(h)) + 1
<1> DEFINE k == [h EXCEPT ![t] = @ + 1]
<1> DEFINE x == <<t, h[t] + 1>>
<1>1. MaxNest \in Nat /\ h[t] \in 0..MaxNest
  BY LockAssumption
<1>2. x \notin Tokens(h)
  BY <1>1 DEF Tokens
<1>3. Tokens(k) = Tokens(h) \union {x}
  <2>1. ASSUME NEW u \in Threads, NEW n \in 1..MaxNest
        PROVE  n <= k[u] <=> n <= h[u] \/ <<u, n>> = x
    <3>1. CASE u = t
      BY <3>1, <1>1
    <3>2. CASE u # t
      BY <3>2
    <3>3. QED
      BY <3>1, <3>2
  <2>2. x \in Threads \X (1..MaxNest)
    BY <1>1
  <2>3. QED
    BY <2>1, <2>2 DEF Tokens
<1>4. QED
  BY <1>2, <1>3, TokensFinite, FS_AddElement

\* One read lock less is one token less, and there was one.
LEMMA TokenRemoved ==
  ASSUME NEW h \in [Threads -> 0..MaxNest], NEW t \in Threads, h[t] > 0
  PROVE  /\ Cardinality(Tokens([h EXCEPT ![t] = @ - 1])) = Cardinality(Tokens(h)) - 1
         /\ Cardinality(Tokens(h)) > 0
<1> DEFINE k == [h EXCEPT ![t] = @ - 1]
<1>1. MaxNest \in Nat /\ h[t] \in 0..MaxNest
  BY LockAssumption
<1>2. k \in [Threads -> 0..MaxNest] /\ k[t] < MaxNest
  BY <1>1
<1>3. [k EXCEPT ![t] = @ + 1] = h
  <2> DEFINE g == [k EXCEPT ![t] = @ + 1]
  <2>1. g = [u \in Threads |-> g[u]] /\ h = [u \in Threads |-> h[u]]
    OBVIOUS
  <2>2. ASSUME NEW u \in Threads PROVE g[u] = h[u]
    <3>1. h[u] \in Int
      BY LockAssumption
    <3>2. QED
      BY <3>1
  <2> HIDE DEF g
  <2>3. QED
    BY <2>1, <2>2
<1>4. Cardinality(Tokens(h)) = Cardinality(Tokens(k)) + 1
  BY <1>2, <1>3, TokenAdded
<1>5. Cardinality(Tokens(k)) \in Nat
  BY TokensFinite, FS_CardinalityType
<1>6. QED
  BY <1>4, <1>5

\* No token means that nobody holds a read lock.
LEMMA NoTokens ==
  ASSUME NEW h \in [Threads -> 0..MaxNest], Cardinality(Tokens(h)) = 0
  PROVE  \A t \in Threads : h[t] = 0
<1>1. Tokens(h) = {}
  BY TokensFinite, FS_EmptySet
<1>2. SUFFICES ASSUME NEW t \in Threads, h[t] # 0
               PROVE  FALSE
  OBVIOUS
<1>3. MaxNest \in Nat /\ h[t] \in 1..MaxNest
  BY <1>2, LockAssumption
<1>4. <<t, h[t]>> \in Tokens(h)
  BY <1>3 DEF Tokens
<1>5. QED
  BY <1>1, <1>4

\* A token means that somebody holds a read lock.
LEMMA SomeToken ==
  ASSUME NEW h \in [Threads -> 0..MaxNest], Cardinality(Tokens(h)) > 0
  PROVE  \E t \in Threads : h[t] > 0
<1>1. Tokens(h) # {}
  BY FS_EmptySet
<1>2. PICK t \in Threads, n \in 1..MaxNest : n <= h[t]
  BY <1>1 DEF Tokens
<1>3. h[t] > 0
  BY <1>2, LockAssumption
<1>4. QED
  BY <1>3

-----------------------------------------------------------------------------
\* The inductive invariant is inductive.

\* Initially nobody is in any of the four functions and nothing is held.
LEMMA InitIInv == Init => IInv
<1> SUFFICES ASSUME Init PROVE IInv
  OBVIOUS
<1> USE LockAssumption DEF Init
<1>1. TypeOK
  BY DEF TypeOK, Points
<1>2. MutexInv /\ HeldInv /\ WriteInv
  BY DEF MutexInv, InCritical, HeldInv, StartWritePoints, WriteInv, HasWrite, EndWritePoints
<1>3. CountIsExact
  <2>1. Tokens(held) = {}
    BY DEF Tokens
  <2>2. QED
    BY <2>1, FS_EmptySet DEF CountIsExact
<1>4. NoLostWakeup
  BY DEF NoLostWakeup, Sleepers
<1>5. QED
  BY <1>1, <1>2, <1>3, <1>4 DEF IInv

\* Every step of a thread, and a step of nobody, preserves the invariant.  The
\* parts that only relate the points of the threads, the mutex and the counter
\* go together; the count and the wake-ups have steps of their own.
LEMMA NextIInv == IInv /\ [Next]_vars => IInv'
<1> SUFFICES ASSUME IInv, [Next]_vars PROVE IInv'
  OBVIOUS
<1> DEFINE PointInv == TypeOK /\ MutexInv /\ HeldInv /\ WriteInv
<1> USE LockAssumption DEF IInv, Goto, MutexLock, MutexUnlock, CondSignal, Sleepers
<1>1. ASSUME PointInv', CountIsExact', NoLostWakeup' PROVE IInv'
  BY <1>1
<1>2. ASSUME NEW t \in Threads, CallStartRead(t) PROVE IInv'
  <2> USE <1>2 DEF CallStartRead
  <2>1. PointInv'
    BY DEF TypeOK, MutexInv, HeldInv, WriteInv, InCritical, HasWrite, Points,
           StartReadPoints, EndReadPoints, StartWritePoints, EndWritePoints
  <2>2. CountIsExact'
    BY DEF CountIsExact
  <2>3. NoLostWakeup'
    BY DEF NoLostWakeup, WillSignal, TypeOK, HeldInv, CountIsExact, MutexInv, InCritical
  <2>4. QED
    BY <2>1, <2>2, <2>3, <1>1
<1>3. ASSUME NEW t \in Threads, StartReadLock(t) PROVE IInv'
  <2> USE <1>3 DEF StartReadLock
  <2>1. PointInv'
    BY DEF TypeOK, MutexInv, HeldInv, WriteInv, InCritical, HasWrite, Points,
           StartReadPoints, EndReadPoints, StartWritePoints, EndWritePoints
  <2>2. CountIsExact'
    BY DEF CountIsExact
  <2>3. NoLostWakeup'
    BY DEF NoLostWakeup, WillSignal, TypeOK, HeldInv, CountIsExact, MutexInv, InCritical
  <2>4. QED
    BY <2>1, <2>2, <2>3, <1>1
<1>4. ASSUME NEW t \in Threads, StartReadCount(t) PROVE IInv'
  <2> USE <1>4 DEF StartReadCount
  <2>1. held[t] < MaxNest /\ held \in [Threads -> 0..MaxNest]
    BY DEF TypeOK, HeldInv
  <2>2. CountIsExact'
    BY <2>1, TokenAdded DEF CountIsExact
  <2>3. PointInv'
    BY <2>1, <2>2 DEF TypeOK, MutexInv, HeldInv, WriteInv, InCritical, HasWrite, Points,
           StartReadPoints, EndReadPoints, StartWritePoints, EndWritePoints
  <2>4. NoLostWakeup'
    BY <2>1 DEF NoLostWakeup, WillSignal, TypeOK, MutexInv, InCritical
  <2>5. QED
    BY <2>2, <2>3, <2>4, <1>1
<1>5. ASSUME NEW t \in Threads, StartReadUnlock(t) PROVE IInv'
  <2> USE <1>5 DEF StartReadUnlock
  <2>1. PointInv'
    BY DEF TypeOK, MutexInv, HeldInv, WriteInv, InCritical, HasWrite, Points,
           StartReadPoints, EndReadPoints, StartWritePoints, EndWritePoints
  <2>2. CountIsExact'
    BY DEF CountIsExact
  <2>3. NoLostWakeup'
    BY DEF NoLostWakeup, WillSignal, TypeOK, HeldInv, CountIsExact, MutexInv, InCritical
  <2>4. QED
    BY <2>1, <2>2, <2>3, <1>1
<1>6. ASSUME NEW t \in Threads, CallEndRead(t) PROVE IInv'
  <2> USE <1>6 DEF CallEndRead
  <2>1. PointInv'
    BY DEF TypeOK, MutexInv, HeldInv, WriteInv, InCritical, HasWrite, Points,
           StartReadPoints, EndReadPoints, StartWritePoints, EndWritePoints
  <2>2. CountIsExact'
    BY DEF CountIsExact
  <2>3. NoLostWakeup'
    BY DEF NoLostWakeup, WillSignal, TypeOK, HeldInv, CountIsExact, MutexInv, InCritical
  <2>4. QED
    BY <2>1, <2>2, <2>3, <1>1
<1>7. ASSUME NEW t \in Threads, EndReadLock(t) PROVE IInv'
  <2> USE <1>7 DEF EndReadLock
  <2>1. PointInv'
    BY DEF TypeOK, MutexInv, HeldInv, WriteInv, InCritical, HasWrite, Points,
           StartReadPoints, EndReadPoints, StartWritePoints, EndWritePoints
  <2>2. CountIsExact'
    BY DEF CountIsExact
  <2>3. NoLostWakeup'
    BY DEF NoLostWakeup, WillSignal, TypeOK, HeldInv, CountIsExact, MutexInv, InCritical
  <2>4. QED
    BY <2>1, <2>2, <2>3, <1>1
<1>8. ASSUME NEW t \in Threads, EndReadCount(t) PROVE IInv'
  <2> USE <1>8 DEF EndReadCount
  <2>1. held[t] > 0 /\ held \in [Threads -> 0..MaxNest]
    BY DEF TypeOK, HeldInv
  <2>2. readers > 0 /\ CountIsExact'
    BY <2>1, TokenRemoved DEF CountIsExact
  <2>3. PointInv'
    BY <2>1, <2>2 DEF TypeOK, MutexInv, HeldInv, WriteInv, InCritical, HasWrite, Points,
           StartReadPoints, EndReadPoints, StartWritePoints, EndWritePoints
  <2>4. NoLostWakeup'
    <3>1. CASE readers' = 0
      BY <3>1, <2>2 DEF NoLostWakeup, WillSignal, TypeOK
    <3>2. CASE readers' # 0
      <4>1. Cardinality(Tokens(held')) > 0 /\ held' \in [Threads -> 0..MaxNest]
        BY <3>2, <2>2, <2>3 DEF CountIsExact, TypeOK
      <4>2. PICK u \in Threads : held'[u] > 0
        BY <4>1, SomeToken
      <4>3. QED
        BY <4>2 DEF NoLostWakeup
    <3>3. QED
      BY <3>1, <3>2
  <2>5. QED
    BY <2>2, <2>3, <2>4, <1>1
<1>9. ASSUME NEW t \in Threads, EndReadSignal(t) PROVE IInv'
  <2> USE <1>9 DEF EndReadSignal
  <2>1. PointInv'
    BY DEF TypeOK, MutexInv, HeldInv, WriteInv, InCritical, HasWrite, Points,
           StartReadPoints, EndReadPoints, StartWritePoints, EndWritePoints
  <2>2. CountIsExact'
    BY DEF CountIsExact
  <2>3. NoLostWakeup'
    BY DEF NoLostWakeup, WillSignal, TypeOK, HeldInv, CountIsExact, MutexInv, InCritical
  <2>4. QED
    BY <2>1, <2>2, <2>3, <1>1
<1>10. ASSUME NEW t \in Threads, EndReadUnlock(t) PROVE IInv'
  <2> USE <1>10 DEF EndReadUnlock
  <2>1. PointInv'
    BY DEF TypeOK, MutexInv, HeldInv, WriteInv, InCritical, HasWrite, Points,
           StartReadPoints, EndReadPoints, StartWritePoints, EndWritePoints
  <2>2. CountIsExact'
    BY DEF CountIsExact
  <2>3. NoLostWakeup'
    BY DEF NoLostWakeup, WillSignal, TypeOK, HeldInv, CountIsExact, MutexInv, InCritical
  <2>4. QED
    BY <2>1, <2>2, <2>3, <1>1
<1>11. ASSUME NEW t \in Threads, CallStartWrite(t) PROVE IInv'
  <2> USE <1>11 DEF CallStartWrite
  <2>1. PointInv'
    BY DEF TypeOK, MutexInv, HeldInv, WriteInv, InCritical, HasWrite, Points,
           StartReadPoints, EndReadPoints, StartWritePoints, EndWritePoints
  <2>2. CountIsExact'
    BY DEF CountIsExact
  <2>3. NoLostWakeup'
    BY DEF NoLostWakeup, WillSignal, TypeOK, HeldInv, CountIsExact, MutexInv, InCritical
  <2>4. QED
    BY <2>1, <2>2, <2>3, <1>1
<1>12. ASSUME NEW t \in Threads, StartWriteLock(t) PROVE IInv'
  <2> USE <1>12 DEF StartWriteLock
  <2>1. PointInv'
    BY DEF TypeOK, MutexInv, HeldInv, WriteInv, InCritical, HasWrite, Points,
           StartReadPoints, EndReadPoints, StartWritePoints, EndWritePoints
  <2>2. CountIsExact'
    BY DEF CountIsExact
  <2>3. NoLostWakeup'
    BY DEF NoLostWakeup, WillSignal, TypeOK, HeldInv, CountIsExact, MutexInv, InCritical
  <2>4. QED
    BY <2>1, <2>2, <2>3, <1>1
<1>13. ASSUME NEW t \in Threads, StartWriteEnter(t) PROVE IInv'
  <2> USE <1>13 DEF StartWriteEnter
  <2>1. PointInv'
    BY DEF TypeOK, MutexInv, HeldInv, WriteInv, InCritical, HasWrite, Points,
           StartReadPoints, EndReadPoints, StartWritePoints, EndWritePoints
  <2>2. CountIsExact'
    BY DEF CountIsExact
  <2>3. NoLostWakeup'
    BY DEF NoLostWakeup, WillSignal, TypeOK, HeldInv, CountIsExact, MutexInv, InCritical
  <2>4. QED
    BY <2>1, <2>2, <2>3, <1>1
<1>14. ASSUME NEW t \in Threads, StartWriteSleep(t) PROVE IInv'
  <2> USE <1>14 DEF StartWriteSleep
  <2>1. PointInv'
    BY DEF TypeOK, MutexInv, HeldInv, WriteInv, InCritical, HasWrite, Points,
           StartReadPoints, EndReadPoints, StartWritePoints, EndWritePoints
  <2>2. CountIsExact'
    BY DEF CountIsExact
  <2>3. NoLostWakeup'
    <3>1. PICK u \in Threads : held[u] > 0
      BY SomeToken DEF CountIsExact, TypeOK
    <3>2. QED
      BY <3>1 DEF NoLostWakeup
  <2>4. QED
    BY <2>1, <2>2, <2>3, <1>1
<1>15. ASSUME NEW t \in Threads, StartWriteRelock(t) PROVE IInv'
  <2> USE <1>15 DEF StartWriteRelock
  <2>1. PointInv'
    BY DEF TypeOK, MutexInv, HeldInv, WriteInv, InCritical, HasWrite, Points,
           StartReadPoints, EndReadPoints, StartWritePoints, EndWritePoints
  <2>2. CountIsExact'
    BY DEF CountIsExact
  <2>3. NoLostWakeup'
    BY DEF NoLostWakeup, WillSignal, TypeOK, HeldInv, CountIsExact, MutexInv, InCritical
  <2>4. QED
    BY <2>1, <2>2, <2>3, <1>1
<1>16. ASSUME NEW t \in Threads, CallEndWrite(t) PROVE IInv'
  <2> USE <1>16 DEF CallEndWrite
  <2>1. PointInv'
    BY DEF TypeOK, MutexInv, HeldInv, WriteInv, InCritical, HasWrite, Points,
           StartReadPoints, EndReadPoints, StartWritePoints, EndWritePoints
  <2>2. CountIsExact'
    BY DEF CountIsExact
  <2>3. NoLostWakeup'
    BY DEF NoLostWakeup, WillSignal, TypeOK, HeldInv, CountIsExact, MutexInv, InCritical
  <2>4. QED
    BY <2>1, <2>2, <2>3, <1>1
<1>17. ASSUME NEW t \in Threads, EndWriteSignal(t) PROVE IInv'
  <2> USE <1>17 DEF EndWriteSignal
  <2>1. PointInv'
    BY DEF TypeOK, MutexInv, HeldInv, WriteInv, InCritical, HasWrite, Points,
           StartReadPoints, EndReadPoints, StartWritePoints, EndWritePoints
  <2>2. CountIsExact'
    BY DEF CountIsExact
  <2>3. NoLostWakeup'
    BY DEF NoLostWakeup, WillSignal, TypeOK, HeldInv, CountIsExact, MutexInv, InCritical
  <2>4. QED
    BY <2>1, <2>2, <2>3, <1>1
<1>18. ASSUME NEW t \in Threads, EndWriteUnlock(t) PROVE IInv'
  <2> USE <1>18 DEF EndWriteUnlock
  <2>1. PointInv'
    BY DEF TypeOK, MutexInv, HeldInv, WriteInv, InCritical, HasWrite, Points,
           StartReadPoints, EndReadPoints, StartWritePoints, EndWritePoints
  <2>2. CountIsExact'
    BY DEF CountIsExact
  <2>3. NoLostWakeup'
    BY DEF NoLostWakeup, WillSignal, TypeOK, HeldInv, CountIsExact, MutexInv, InCritical
  <2>4. QED
    BY <2>1, <2>2, <2>3, <1>1
<1>19. ASSUME NEW t \in Threads, SpuriousWakeup(t) PROVE IInv'
  <2> USE <1>19 DEF SpuriousWakeup
  <2>1. PointInv'
    BY DEF TypeOK, MutexInv, HeldInv, WriteInv, InCritical, HasWrite, Points,
           StartReadPoints, EndReadPoints, StartWritePoints, EndWritePoints
  <2>2. CountIsExact'
    BY DEF CountIsExact
  <2>3. NoLostWakeup'
    BY DEF NoLostWakeup, WillSignal, TypeOK, HeldInv, CountIsExact, MutexInv, InCritical
  <2>4. QED
    BY <2>1, <2>2, <2>3, <1>1
<1>20. CASE UNCHANGED vars
  BY <1>20 DEF vars, TypeOK, MutexInv, InCritical, HeldInv, CountIsExact, WriteInv,
     HasWrite, NoLostWakeup, WillSignal
<1>21. QED
  BY <1>2, <1>3, <1>4, <1>5, <1>6, <1>7, <1>8, <1>9, <1>10, <1>11, <1>12, <1>13, <1>14, <1>15, <1>16, <1>17, <1>18, <1>19, <1>20 DEF Next, Request, Advance

-----------------------------------------------------------------------------
\* The theorems.

\* What the inductive invariant says of a thread that has the write lock.
LEMMA IInvWriterIsAlone == IInv => WriterIsAlone
<1> SUFFICES ASSUME IInv, NEW t \in Threads, HasWrite(t), NEW u \in Threads
             PROVE  held[u] = 0 /\ (HasWrite(u) => u = t)
  BY DEF WriterIsAlone
<1>1. held[u] = 0
  BY NoTokens DEF IInv, WriteInv, CountIsExact, TypeOK
<1>2. HasWrite(u) => u = t
  BY DEF IInv, MutexInv, InCritical, HasWrite, EndWritePoints
<1>3. QED
  BY <1>1, <1>2

LEMMA SpecIInv == Spec => []IInv
BY InitIInv, NextIInv, PTL DEF Spec

\* The variables keep their types; the counter of readers never goes negative.
THEOREM TypeCorrect == Spec => []TypeOK
<1>1. IInv => TypeOK
  BY DEF IInv
<1>2. QED
  BY <1>1, SpecIInv, PTL

\* While a thread has the write lock nobody else has it and nobody reads.
THEOREM WriterExclusion == Spec => []WriterIsAlone
BY IInvWriterIsAlone, SpecIInv, PTL

\* *readers is the number of read locks that are held.
THEOREM ExactCount == Spec => []CountIsExact
<1>1. IInv => CountIsExact
  BY DEF IInv
<1>2. QED
  BY <1>1, SpecIInv, PTL

\* A writer asleep on rw_cond always has somebody who will wake it.
THEOREM WakeupsNotLost == Spec => []NoLostWakeup
<1>1. IInv => NoLostWakeup
  BY DEF IInv
<1>2. QED
  BY <1>1, SpecIInv, PTL

-----------------------------------------------------------------------------
\* Refinement.

\* Four steps take effect on the abstract lock, the others leave it alone.
LEMMA StepRefines == IInv /\ [Next]_vars => [Lock!LockNext]_(Lock!lockVars)
<1> SUFFICES ASSUME IInv, [Next]_vars
             PROVE  [Lock!LockNext]_(Lock!lockVars)
  OBVIOUS
<1> DEFINE Same == UNCHANGED <<held, WriteHolder>>
<1> USE LockAssumption DEF IInv, TypeOK, MutexInv, InCritical, Goto, WriteHolder,
        HasWrite, EndWritePoints
<1>1. ASSUME Same PROVE [Lock!LockNext]_(Lock!lockVars)
  BY <1>1 DEF Lock!lockVars
<1>2. ASSUME NEW t \in Threads, StartReadCount(t) PROVE Lock!BeginRead(t)
  BY <1>2 DEF StartReadCount, Lock!BeginRead
<1>3. ASSUME NEW t \in Threads, EndReadCount(t) PROVE Lock!EndRead(t)
  BY <1>3 DEF EndReadCount, Lock!EndRead, HeldInv
<1>4. ASSUME NEW t \in Threads, StartWriteEnter(t) PROVE Lock!BeginWrite(t)
  <2>1. \A u \in Threads : held[u] = 0
    BY <1>4, NoTokens DEF StartWriteEnter, CountIsExact
  <2>2. QED
    BY <1>4, <2>1 DEF StartWriteEnter, Lock!BeginWrite
<1>5. ASSUME NEW t \in Threads, EndWriteUnlock(t) PROVE Lock!EndWrite(t)
  BY <1>5 DEF EndWriteUnlock, MutexUnlock, Lock!EndWrite
<1>6. ASSUME NEW t \in Threads, CallStartRead(t) PROVE Same
  BY <1>6 DEF CallStartRead
<1>7. ASSUME NEW t \in Threads, StartReadLock(t) PROVE Same
  BY <1>7 DEF StartReadLock, MutexLock
<1>8. ASSUME NEW t \in Threads, StartReadUnlock(t) PROVE Same
  BY <1>8 DEF StartReadUnlock, MutexUnlock
<1>9. ASSUME NEW t \in Threads, CallEndRead(t) PROVE Same
  BY <1>9 DEF CallEndRead
<1>10. ASSUME NEW t \in Threads, EndReadLock(t) PROVE Same
  BY <1>10 DEF EndReadLock, MutexLock
<1>11. ASSUME NEW t \in Threads, EndReadSignal(t) PROVE Same
  BY <1>11 DEF EndReadSignal, CondSignal, Sleepers
<1>12. ASSUME NEW t \in Threads, EndReadUnlock(t) PROVE Same
  BY <1>12 DEF EndReadUnlock, MutexUnlock
<1>13. ASSUME NEW t \in Threads, CallStartWrite(t) PROVE Same
  BY <1>13 DEF CallStartWrite
<1>14. ASSUME NEW t \in Threads, StartWriteLock(t) PROVE Same
  BY <1>14 DEF StartWriteLock, MutexLock
<1>15. ASSUME NEW t \in Threads, StartWriteSleep(t) PROVE Same
  BY <1>15 DEF StartWriteSleep
<1>16. ASSUME NEW t \in Threads, StartWriteRelock(t) PROVE Same
  BY <1>16 DEF StartWriteRelock, MutexLock
<1>17. ASSUME NEW t \in Threads, CallEndWrite(t) PROVE Same
  BY <1>17 DEF CallEndWrite
<1>18. ASSUME NEW t \in Threads, EndWriteSignal(t) PROVE Same
  BY <1>18 DEF EndWriteSignal, CondSignal, Sleepers
<1>19. ASSUME NEW t \in Threads, SpuriousWakeup(t) PROVE Same
  BY <1>19 DEF SpuriousWakeup
<1>20. CASE UNCHANGED vars
  BY <1>20, <1>1 DEF vars
<1>21. QED
  BY <1>1, <1>2, <1>3, <1>4, <1>5, <1>6, <1>7, <1>8, <1>9, <1>10, <1>11, <1>12, <1>13, <1>14, <1>15, <1>16, <1>17, <1>18, <1>19, <1>20 DEF Next, Request, Advance, Lock!LockNext

\* The lock of readerWriter.cpp implements the abstract readers/writer lock:
\* its initial state is an unlocked lock, and every step takes effect as one of
\* the four operations or not at all.
THEOREM Refinement == Spec => ImplementsRWLock
<1>1. Init => Lock!Unlocked
  BY LockAssumption DEF Init, Lock!Unlocked, WriteHolder
<1>2. QED
  BY <1>1, SpecIInv, StepRefines, PTL DEF Spec, ImplementsRWLock, Lock!LockSpec
-----------------------------------------------------------------------------
\* The lock does not deadlock.

\* The guards of the steps that carry a request of thread t through: a thread goes on
\* unless it waits for rw_mutex while that is taken, sleeps on rw_cond, or has neither a
\* call under way nor a read lock to give back.
CanAdvance(t) ==
  /\ pc[t] \in {"sr_lock", "er_lock", "sw_lock", "sw_wake"} => mutex = NoThread
  /\ pc[t] # "sw_wait"
  /\ pc[t] = "out" => held[t] > 0

\* No step is taken without its guards.
LEMMA AdvanceIsGuarded ==
  ASSUME NEW t \in Threads, Advance(t)
  PROVE  CanAdvance(t)
  BY DEF Advance, CanAdvance, Goto, MutexLock, MutexUnlock, CondSignal,
         StartReadLock, StartReadCount, StartReadUnlock, CallEndRead, EndReadLock,
         EndReadCount, EndReadSignal, EndReadUnlock, StartWriteLock, StartWriteEnter,
         StartWriteSleep, StartWriteRelock, CallEndWrite, EndWriteSignal, EndWriteUnlock

\* Who is in a call, or has a lock to give back.
Busy(t) == pc[t] # "out" \/ held[t] > 0

\* Somebody is busy means that somebody can go on.
NobodyIsStuck == (\E t \in Threads : Busy(t)) => \E t \in Threads : CanAdvance(t)

\* The four functions never all wait for each other, with any number of threads and any
\* nesting of read locks, although a reader sleeps on rw_mutex to give its lock back and a
\* writer keeps rw_mutex from one call to the next (readerWriter.cpp): the owner of
\* rw_mutex can go on, and when nobody owns it a sleeper has a reader, or a thread that
\* was woken, to rely on.  This is the half of WriterGetsIn that needs no fairness.
THEOREM LockNeverDeadlocks == Spec => []NobodyIsStuck
<1>1. ASSUME IInv, NEW b \in Threads, Busy(b) PROVE \E t \in Threads : CanAdvance(t)
  <2> USE <1>1, LockAssumption DEF IInv, TypeOK
  <2>1. CASE mutex # NoThread
    <3>1. mutex \in Threads /\ InCritical(mutex)
      BY <2>1 DEF MutexInv
    <3> QED
      BY <3>1 DEF InCritical, CanAdvance
  <2>2. CASE mutex = NoThread
    <3>0. \A t \in Threads : ~InCritical(t)
      BY <2>2 DEF MutexInv
    <3>1. ASSUME NEW t \in Threads, pc[t] # "sw_wait", Busy(t) PROVE CanAdvance(t)
      BY <2>2, <3>1 DEF CanAdvance, Busy
    <3>2. CASE pc[b] = "sw_wait"
      <4>1. PICK t \in Threads : held[t] > 0 \/ WillSignal(t)
        BY <3>2 DEF NoLostWakeup, Sleepers
      <4>2. Busy(t)
        BY <4>1 DEF Busy, WillSignal
      <4>3. pc[t] # "sw_wait"
        <5>1. held[t] > 0 => pc[t] # "sw_wait"
          BY DEF HeldInv, StartWritePoints
        <5> QED
          BY <4>1, <5>1 DEF WillSignal
      <4> QED
        BY <3>1, <4>2, <4>3
    <3> QED
      BY <3>1, <3>2
  <2> QED
    BY <2>1, <2>2
<1>2. IInv => NobodyIsStuck
  BY <1>1 DEF NobodyIsStuck
<1> QED
  BY <1>2, SpecIInv, PTL
=============================================================================
