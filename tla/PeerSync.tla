------------------------------ MODULE PeerSync ------------------------------
(***************************************************************************)
(* SyncFileAccessor.cpp: how the calls on an accessor are passed on to the    *)
(* peers.  peerFork makes a process for each peer but the first of the vector;   *)
(* each process connects to its peer, sends one message and exits, while the     *)
(* server goes on with the call in its own accessor.  FileAccessor models that   *)
(* part: here it is one step, which neither waits for the accessor's lock nor     *)
(* hangs in setFileDescriptor.                                               *)
(*                                                                           *)
(* peerFork collects the process ids in an optional that was never given a      *)
(* vector.  Pushing into it is undefined: the process may crash or go on, and   *)
(* the optional stays empty, so e_read's value() throws in the server.          *)
(*                                                                           *)
(* CHECKOPEN lets every call through here as well (see FileAccessor), so the    *)
(* peers are told of every call, of those too that fail in the accessor.        *)
(*                                                                           *)
(* tcp-utils.cpp makes the socket non-blocking before it connects, and takes      *)
(* EINPROGRESS for a failure: only a peer to which the kernel connects at once,     *)
(* as POSIX allows on one host, can be reached at all.                           *)
(***************************************************************************)
EXTENDS Integers, Sequences, FiniteSets

CONSTANTS
  Threads,    \* the threads that serve clients
  Ops,        \* which of the five calls clients make
  NumPeers,   \* the size of the vector peers
  Near,       \* the peers to which a connect may be done at once
  MaxProcs,   \* how many processes the server may have at a time
  MaxCalls    \* bound: calls made on the accessors

ASSUME PeerAssumption ==
  /\ Ops \subseteq {"open", "close", "write", "seek", "read"}
  /\ Near \subseteq Nat
  /\ NumPeers \in Nat /\ MaxProcs \in Nat /\ MaxCalls \in Nat

VARIABLES
  alive,   \* FALSE once the server process is gone
  pc,      \* each thread's point: "idle", "fork", "local" or "done"
  call,    \* each thread's call, with the peer that peerFork is at
  calls,   \* how many calls there were
  procs,   \* the server's child processes; those that exited stay in the table
  inbox    \* the messages that got to each peer, in order

vars == <<alive, pc, call, calls, procs, inbox>>

\* The vector's indexes.
Peers == 0..(NumPeers - 1)

NoCall == [op |-> "none", id |-> 0, peer |-> 0]

Running == {c \in procs : c.at # "exited"}

\* One of the five functions is called, and enters the loop of peerFork.
Call(t, op) ==
  /\ alive
  /\ pc[t] = "idle"
  /\ calls < MaxCalls
  /\ calls' = calls + 1
  /\ pc' = [pc EXCEPT ![t] = "fork"]
  /\ call' = [call EXCEPT ![t] = [op |-> op, id |-> calls + 1, peer |-> 1]]
  /\ UNCHANGED <<alive, procs, inbox>>

InLoop(t) == alive /\ pc[t] = "fork" /\ call[t].peer < NumPeers

\* fork(2), and the push_back that the server and its child both go through.
ForkPeer(t) ==
  /\ InLoop(t)
  /\ Cardinality(procs) < MaxProcs
  /\ \E point \in {"connect", "exited"} :
       procs' = procs \union {[id |-> call[t].id, peer |-> call[t].peer,
                               op |-> call[t].op, at |-> point]}
  /\ alive' \in BOOLEAN
  /\ call' = [call EXCEPT ![t].peer = @ + 1]
  /\ UNCHANGED <<pc, calls, inbox>>

\* A slip: the result of fork(2) is not looked at, as in i_write.
ForkFailPassesBy(t) ==
  /\ InLoop(t)
  /\ Cardinality(procs) >= MaxProcs
  /\ call' = [call EXCEPT ![t].peer = @ + 1]
  /\ UNCHANGED <<alive, pc, calls, procs, inbox>>

\* fork(2) finds no room for another process, and the server exits.
ForkFails(t) ==
  /\ InLoop(t)
  /\ Cardinality(procs) >= MaxProcs
  /\ alive' = FALSE
  /\ UNCHANGED <<pc, call, calls, procs, inbox>>

\* A slip, or a repair: the call waits for its peers, as e_read means to.
ForkedAndWaits(t) ==
  /\ alive /\ pc[t] = "fork" /\ call[t].peer >= NumPeers
  /\ \A c \in Running : c.id # call[t].id
  /\ pc' = [pc EXCEPT ![t] = "local"]
  /\ UNCHANGED <<alive, call, calls, procs, inbox>>

\* peerFork returns to the server.  Only e_read looks at the ids.
Forked(t) ==
  /\ alive /\ pc[t] = "fork" /\ call[t].peer >= NumPeers
  /\ IF call[t].op = "read"
       THEN alive' = FALSE /\ UNCHANGED pc
       ELSE pc' = [pc EXCEPT ![t] = "local"] /\ UNCHANGED alive
  /\ UNCHANGED <<call, calls, procs, inbox>>

\* The call of FileAccessor that does the work here, from its first step to its last:
\* FileAccessor and FileService say what it does, and that an open may never come back.
\* i_write forks a process of its own, and does not look whether it got one.
Local(t) ==
  /\ alive
  /\ pc[t] = "local"
  /\ pc' = [pc EXCEPT ![t] = "done"]
  /\ procs' = IF call[t].op = "write" /\ Cardinality(procs) < MaxProcs
                THEN procs \union {[id |-> call[t].id, peer |-> -1,
                                    op |-> "write", at |-> "write"]}
                ELSE procs
  /\ UNCHANGED <<alive, call, calls, inbox>>

\* The caller has its answer.
Return(t) ==
  /\ alive
  /\ pc[t] = "done"
  /\ pc' = [pc EXCEPT ![t] = "idle"]
  /\ call' = [call EXCEPT ![t] = NoCall]
  /\ UNCHANGED <<alive, calls, procs, inbox>>

-----------------------------------------------------------------------------
\* The five SyncClient functions, each in a process of its own: it connects, sends one
\* message that names the operation, and exits; a read waits for an answer first.

Goes(c, point) == procs' = (procs \ {c}) \union {[c EXCEPT !.at = point]}

\* connectbyportint, if it succeeds.  EINPROGRESS is err_connect: the process Leaves.
Connects(c) ==
  /\ c.at = "connect"
  /\ c.peer \in Near
  /\ Goes(c, "send")
  /\ UNCHANGED <<alive, pc, call, calls, inbox>>

AfterSend(c) == IF c.op = "read" THEN "recv" ELSE "exited"

Arrives(c) == inbox' = [inbox EXCEPT ![c.peer] = Append(@, [op |-> c.op, id |-> c.id])]

\* A slip: the message is sent again when the send does not report success.
SendsAgain(c) ==
  /\ c.at = "send"
  /\ Arrives(c)
  /\ Goes(c, AfterSend(c)) \/ UNCHANGED procs
  /\ UNCHANGED <<alive, pc, call, calls>>

Sends(c) ==
  /\ c.at = "send"
  /\ Arrives(c)
  /\ Goes(c, AfterSend(c))
  /\ UNCHANGED <<alive, pc, call, calls>>

\* poll fails, whose positive errno is no failure to the caller, or finds no POLLOUT:
\* non_blocking_send reports a success and has sent nothing.
SendsNothing(c) ==
  /\ c.at = "send"
  /\ Goes(c, AfterSend(c))
  /\ UNCHANGED <<alive, pc, call, calls, inbox>>

\* recv_nonblock gives an answer or, within 30 ms, none.  Either is written into the
\* process's own copy of an empty vector, and the process exits or crashes.
Receives(c) ==
  /\ c.at = "recv"
  /\ Goes(c, "exited")
  /\ UNCHANGED <<alive, pc, call, calls, inbox>>

\* A process exits before it has sent: its peer cannot be reached or does not take the
\* message within 30 ms, or it is the process of i_write and has written.
Leaves(c) ==
  /\ c.at \in {"connect", "send", "write"}
  /\ Goes(c, "exited")
  /\ UNCHANGED <<alive, pc, call, calls, inbox>>

Init ==
  /\ alive = TRUE
  /\ pc = [t \in Threads |-> "idle"]
  /\ call = [t \in Threads |-> NoCall]
  /\ calls = 0
  /\ procs = {}
  /\ inbox = [p \in Peers |-> <<>>]

Step(t) == ForkPeer(t) \/ ForkFails(t) \/ Forked(t) \/ Local(t) \/ Return(t)

Child(c) ==
  Connects(c) \/ Sends(c) \/ SendsNothing(c) \/ Receives(c) \/ Leaves(c)

Next ==
  \/ \E t \in Threads : Step(t) \/ \E op \in Ops : Call(t, op)
  \/ \E c \in procs : Child(c)

Spec == Init /\ [][Next]_vars

\* The server's threads run, and their clients keep calling.  Nothing is assumed
\* of the child processes and the peers.
FairSpec ==
  /\ Spec
  /\ \A t \in Threads : WF_vars(Step(t)) /\ WF_vars(\E op \in Ops : Call(t, op))

-----------------------------------------------------------------------------
\* Properties.

\* Every variable has its type.
TypeOK ==
  /\ alive \in BOOLEAN
  /\ pc \in [Threads -> {"idle", "fork", "local", "done"}]
  /\ \A t \in Threads :
       pc[t] # "idle" => /\ call[t].op \in Ops
                         /\ call[t].id \in 1..calls
                         /\ call[t].peer \in 1..NumPeers \union {1}
  /\ calls \in 0..MaxCalls
  /\ Cardinality(procs) <= MaxProcs
  /\ \A p \in Peers : \A i \in DOMAIN inbox[p] : inbox[p][i].id \in 1..calls

\* No call gets to a peer twice, whatever the order in which the processes run and
\* whatever becomes of the server meanwhile.
ToldOnce ==
  \A p \in Peers : \A i, j \in DOMAIN inbox[p] :
    inbox[p][i].id = inbox[p][j].id => i = j

\* Nothing is done here before each peer but the first of the vector got a process of its
\* own for this call, however short of processes the server is and however many calls run
\* (SyncFileAccessor.cpp:27-31, 152-173).  Whether the process gets through is another
\* matter.
NothingIsDoneSilently ==
  \A t \in Threads : pc[t] \in {"local", "done"} =>
    \A p \in Peers \ {0} : \E c \in procs : c.id = call[t].id /\ c.peer = p

\* The other calls do not depend on the peers: they are answered even if no process
\* of peerFork ever gets anywhere, unless the server goes down, or unless the accessor
\* itself holds them up, which Local leaves to FileService.
AnsweredWithoutPeers ==
  \A t \in Threads :
    pc[t] = "fork" ~> pc[t] = "done" \/ ~alive

\* Nobody waits for the processes of peerFork, so they fill the process table, and
\* the next fork that fails takes the server down (`exit(-1)').
ServerRunsOutOfProcesses == <>~alive

=============================================================================
