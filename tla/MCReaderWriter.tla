--------------------------- MODULE MCReaderWriter ---------------------------
(***************************************************************************)
(* ReaderWriter under a finite workload, for liveness: every thread makes a  *)
(* bounded number of requests and rw_cond wakes up for no reason a bounded   *)
(* number of times.                                                          *)
(***************************************************************************)
EXTENDS ReaderWriter

CONSTANTS
  MaxRequests,   \* calls of start_read and start_write each thread makes
  MaxSpurious    \* spurious wake-ups in the whole run

VARIABLES requests, spurious

workVars == <<vars, requests, spurious>>

WorkInit ==
  /\ Init
  /\ requests = [t \in Threads |-> 0]
  /\ spurious = 0

WorkRequest(t) ==
  /\ requests[t] < MaxRequests
  /\ Request(t)
  /\ requests' = [requests EXCEPT ![t] = @ + 1]
  /\ UNCHANGED spurious

WorkAdvance(t) == Advance(t) /\ UNCHANGED <<requests, spurious>>

WorkSpurious(t) ==
  /\ spurious < MaxSpurious
  /\ SpuriousWakeup(t)
  /\ spurious' = spurious + 1
  /\ UNCHANGED requests

WorkNext ==
  \E t \in Threads : WorkRequest(t) \/ WorkAdvance(t) \/ WorkSpurious(t)

\* Every thread that can go on does: the threads are scheduled by the kernel,
\* and a caller that has the lock gives it back.  Nothing is assumed about the
\* order in which a mutex is handed out.
WorkSpec ==
  /\ WorkInit
  /\ [][WorkNext]_workVars
  /\ \A t \in Threads : WF_workVars(WorkAdvance(t))

\* A writer that asks for the lock gets it once the readers stop coming: the
\* signals of rwlock_end_read and rwlock_end_write reach every sleeper.
WriterGetsIn == \A t \in Threads : pc[t] = "sw_lock" ~> pc[t] = "write"

=============================================================================
