--------------------------- MODULE PeerSyncProofs ---------------------------
(***************************************************************************)
(* For any threads, peers and number of processes: how often a peer can be told of *)
(* a call, and what has to come before the call is done here.                    *)
(*                                                                           *)
(* The inductive invariant gives each call a number and each of its peers a       *)
(* process of its own, and says that a message came from the process of its call    *)
(* and peer, which does not send again.                                          *)
(*                                                                           *)
(* At the end: each step of a thread brings its call closer to the answer.   *)
(***************************************************************************)
EXTENDS PeerSync, FiniteSetTheorems, TLAPS

OpNames == {"open", "close", "write", "seek", "read", "none"}

Points == {"connect", "send", "recv", "exited", "write"}

Typed ==
  /\ pc \in [Threads -> {"idle", "fork", "local", "done"}]
  /\ call \in [Threads -> [op : OpNames, id : Nat, peer : Nat]]
  /\ calls \in Nat
  /\ procs \subseteq [id : Nat, peer : Int, op : OpNames, at : Points]
  /\ inbox \in [Peers -> Seq([op : OpNames, id : Nat])]

\* A call has a number that no other call had.
CallsAreNumbered ==
  /\ \A t \in Threads : pc[t] # "idle" => call[t].id <= calls /\ call[t].peer >= 1
  /\ \A t, u \in Threads :
       t # u /\ pc[t] # "idle" /\ pc[u] # "idle" => call[t].id # call[u].id
  /\ \A c \in procs : c.id <= calls

\* peerFork makes one process per call and peer; a process of i_write has no peer.
OneProcessEach ==
  /\ \A c, d \in procs : c.id = d.id /\ c.peer = d.peer /\ c.peer # -1 => c = d
  /\ \A t \in Threads : pc[t] = "fork" =>
       \A c \in procs : c.id = call[t].id => c.peer < call[t].peer
  /\ \A c \in procs : c.at \in {"connect", "send"} => c.peer \in Peers \ {0}

\* The calls and the peers that have a process.
Pairs == {<<c.id, c.peer>> : c \in procs}

Told(p, id) == \E i \in DOMAIN inbox[p] : inbox[p][i].id = id

\* A message is of a process, and a process that has yet to send has not sent.
ToldByItsProcess ==
  /\ \A p \in Peers : \A i \in DOMAIN inbox[p] :
       <<inbox[p][i].id, p>> \in Pairs
  /\ \A c \in procs : c.at \in {"connect", "send"} => ~Told(c.peer, c.id)

\* The peers that peerFork has passed have their processes.
PassedHaveAProcess ==
  \A t \in Threads : pc[t] = "fork" =>
    \A p \in Peers \ {0} : p < call[t].peer => <<call[t].id, p>> \in Pairs

DoneHaveAllProcesses ==
  \A t \in Threads : pc[t] \in {"local", "done"} =>
    \A p \in Peers \ {0} : <<call[t].id, p>> \in Pairs

IInv ==
  /\ Typed /\ CallsAreNumbered /\ OneProcessEach /\ ToldByItsProcess /\ ToldOnce
  /\ PassedHaveAProcess /\ DoneHaveAllProcesses

LEMMA PairsAreForked == \A id, p : <<id, p>> \in Pairs <=> \E c \in procs : c.id = id /\ c.peer = p
  BY DEF Pairs

LEMMA PairsStay == UNCHANGED procs => Pairs' = Pairs
  BY DEF Pairs

LEMMA PeersAreNat == \A p : p \in Peers <=> p \in Nat /\ p < NumPeers
  BY PeerAssumption DEF Peers

LEMMA InitIInv == Init => IInv
  BY PeersAreNat
  DEF Init, IInv, Typed, CallsAreNumbered, OneProcessEach, ToldByItsProcess, ToldOnce, Told,
      PassedHaveAProcess, DoneHaveAllProcesses, NoCall, OpNames

-----------------------------------------------------------------------------
\* The steps of the server's threads.

LEMMA CallStep ==
  ASSUME IInv, NEW t \in Threads, NEW op \in Ops, Call(t, op)
  PROVE  IInv'
<1> USE PeerAssumption, PeersAreNat DEF IInv, Typed, OpNames
<1>1. /\ pc[t] = "idle" /\ calls' = calls + 1
      /\ pc' = [pc EXCEPT ![t] = "fork"]
      /\ call' = [call EXCEPT ![t] = [op |-> op, id |-> calls + 1, peer |-> 1]]
      /\ UNCHANGED <<procs, inbox>>
  BY DEF Call
<1>2. Typed'
  BY <1>1
<1>3. CallsAreNumbered'
  BY <1>1, <1>2 DEF CallsAreNumbered
<1>4. OneProcessEach'
  BY <1>1 DEF CallsAreNumbered, OneProcessEach
<1>5. ToldByItsProcess' /\ ToldOnce'
  BY <1>1, PairsStay DEF ToldByItsProcess, ToldOnce, Told
<1>6. PassedHaveAProcess'
  <2>1. \A p \in Peers \ {0} : ~(p < 1)
    OBVIOUS
  <2> QED
    BY <1>1, <2>1, PairsStay DEF PassedHaveAProcess
<1>7. DoneHaveAllProcesses'
  BY <1>1, PairsStay DEF DoneHaveAllProcesses
<1> QED
  BY <1>2, <1>3, <1>4, <1>5, <1>6, <1>7

LEMMA ForkPeerStep ==
  ASSUME IInv, NEW t \in Threads, ForkPeer(t)
  PROVE  IInv'
<1> USE PeerAssumption, PeersAreNat DEF IInv, Typed, OpNames
<1> DEFINE id == call[t].id
           to == call[t].peer
<1>1. PICK new \in [id : Nat, peer : Int, op : OpNames, at : Points] :
        /\ new.id = id /\ new.peer = to /\ new.at \in {"connect", "exited"}
        /\ procs' = procs \union {new}
  <2>1. PICK point \in {"connect", "exited"} :
          procs' = procs \union {[id |-> id, peer |-> to, op |-> call[t].op, at |-> point]}
    BY DEF ForkPeer
  <2>2. id \in Nat /\ to \in Int /\ call[t].op \in OpNames /\ point \in Points
    BY DEF Points
  <2> QED
    BY <2>1, <2>2
<1>2. /\ pc[t] = "fork" /\ to < NumPeers
      /\ call' = [call EXCEPT ![t] = [call[t] EXCEPT !.peer = to + 1]]
      /\ UNCHANGED <<pc, calls, inbox>>
  BY DEF ForkPeer, InLoop
<1>3. to \in Peers \ {0} /\ id <= calls /\ id \in Nat
  BY <1>2 DEF CallsAreNumbered
<1>4. /\ \A u \in Threads : call'[u].id = call[u].id /\ call'[u].op = call[u].op
      /\ \A u \in Threads : call'[u].peer = IF u = t THEN to + 1 ELSE call[u].peer
  BY <1>2
<1>5. \A c \in procs : c.id = id => c.peer < to
  BY <1>2 DEF OneProcessEach
<1>6. Typed'
  <2>1. procs' \subseteq [id : Nat, peer : Int, op : OpNames, at : Points]
    BY <1>1
  <2>2. call' \in [Threads -> [op : OpNames, id : Nat, peer : Nat]]
    <3>1. [call[t] EXCEPT !.peer = to + 1] \in [op : OpNames, id : Nat, peer : Nat]
      <4>1. call[t] \in [op : OpNames, id : Nat, peer : Nat] /\ to + 1 \in Nat
        OBVIOUS
      <4> QED
        BY <4>1
    <3> QED
      BY <1>2, <3>1
  <2> QED
    BY <1>2, <2>1, <2>2
<1>7. CallsAreNumbered'
  BY <1>1, <1>2, <1>3, <1>4 DEF CallsAreNumbered
<1>8. OneProcessEach'
  <2>1. ASSUME NEW c \in procs', NEW d \in procs', c.id = d.id, c.peer = d.peer, c.peer # -1
        PROVE  c = d
    BY <1>1, <1>5, <2>1 DEF OneProcessEach
  <2>2. ASSUME NEW u \in Threads, pc[u] = "fork", NEW c \in procs', c.id = call[u].id
        PROVE  c.peer < call'[u].peer
    <3>1. CASE u = t
      BY <1>1, <1>4, <1>5, <2>2, <3>1
    <3>2. CASE u # t
      <4>1. id # call[u].id
        BY <1>2, <2>2, <3>2 DEF CallsAreNumbered
      <4> QED
        BY <1>1, <1>4, <2>2, <3>2, <4>1 DEF OneProcessEach
    <3> QED
      BY <3>1, <3>2
  <2>3. \A c \in procs' : c.at \in {"connect", "send"} => c.peer \in Peers \ {0}
    BY <1>1, <1>3 DEF OneProcessEach
  <2> QED
    BY <1>2, <1>4, <2>1, <2>2, <2>3 DEF OneProcessEach
<1>9. ~Told(to, id)
  <2>1. <<id, to>> \notin Pairs
    BY <1>3, <1>5 DEF Pairs
  <2> QED
    BY <1>3, <2>1 DEF Told, ToldByItsProcess
<1>10. Pairs \subseteq Pairs' /\ <<id, to>> \in Pairs'
  BY <1>1 DEF Pairs
<1>11. ToldByItsProcess' /\ ToldOnce'
  <2>1. \A c \in procs' : c.at \in {"connect", "send"} => ~Told(c.peer, c.id)
    BY <1>1, <1>9 DEF ToldByItsProcess
  <2> QED
    BY <1>2, <1>10, <2>1 DEF ToldByItsProcess, Told, ToldOnce
<1>12. PassedHaveAProcess'
  <2> SUFFICES ASSUME NEW u \in Threads, pc[u] = "fork",
                      NEW p \in Peers \ {0}, p < call'[u].peer
               PROVE  <<call[u].id, p>> \in Pairs'
    BY <1>2, <1>4 DEF PassedHaveAProcess
  <2>1. CASE p < call[u].peer
    BY <1>10, <2>1 DEF PassedHaveAProcess
  <2>2. CASE ~(p < call[u].peer)
    <3>1. u = t /\ p = to
      BY SMTT(30), <1>3, <1>4, <2>2
    <3> QED
      BY <1>10, <3>1
  <2> QED
    BY <2>1, <2>2
<1>13. DoneHaveAllProcesses'
  BY <1>2, <1>4, <1>10 DEF DoneHaveAllProcesses
<1> QED
  BY <1>6, <1>7, <1>8, <1>11, <1>12, <1>13

LEMMA ForkedStep ==
  ASSUME IInv, NEW t \in Threads, Forked(t)
  PROVE  IInv'
<1> USE PeerAssumption, PeersAreNat DEF IInv, Typed, OpNames
<1>1. /\ pc[t] = "fork" /\ call[t].peer >= NumPeers
      /\ \/ pc' = pc
         \/ call[t].op # "read" /\ pc' = [pc EXCEPT ![t] = "local"]
      /\ UNCHANGED <<call, calls, procs, inbox>>
  BY DEF Forked
<1>2. \A u \in Threads : \/ pc'[u] = pc[u]
                         \/ u = t /\ pc'[t] = "local" /\ call[t].op # "read"
  BY <1>1
<1>3. Typed'
  BY <1>1
<1>4. CallsAreNumbered' /\ OneProcessEach'
  <2>1. \A u \in Threads : /\ pc'[u] # "idle" => pc[u] # "idle"
                           /\ pc'[u] = "fork" => pc[u] = "fork"
    BY <1>1, <1>2
  <2> QED
    BY <1>1, <2>1 DEF CallsAreNumbered, OneProcessEach
<1>5. ToldByItsProcess' /\ ToldOnce'
  BY <1>1, PairsStay DEF ToldByItsProcess, ToldOnce, Told
<1>6. \A p \in Peers \ {0} : <<call[t].id, p>> \in Pairs
  BY <1>1 DEF PassedHaveAProcess
<1>7. PassedHaveAProcess' /\ DoneHaveAllProcesses'
  BY <1>1, <1>2, <1>6, PairsStay DEF PassedHaveAProcess, DoneHaveAllProcesses
<1> QED
  BY <1>3, <1>4, <1>5, <1>7

LEMMA LocalStep ==
  ASSUME IInv, NEW t \in Threads, Local(t)
  PROVE  IInv'
<1> USE PeerAssumption, PeersAreNat DEF IInv, Typed, OpNames
<1>1. /\ pc[t] = "local" /\ pc' = [pc EXCEPT ![t] = "done"]
      /\ UNCHANGED <<call, calls, inbox>>
  BY DEF Local
<1>2. /\ procs \subseteq procs'
      /\ \A c \in procs' : c \notin procs =>
           /\ c = [id |-> call[t].id, peer |-> -1, op |-> "write", at |-> "write"]
           /\ c.id = call[t].id /\ c.peer = -1 /\ c.at = "write"
  BY DEF Local
<1>3. Typed'
  BY <1>1, <1>2 DEF Points
<1>4. call[t].id <= calls /\ \A u \in Threads : pc'[u] # "idle" => pc[u] # "idle"
  BY <1>1 DEF CallsAreNumbered
<1>5. CallsAreNumbered'
  BY <1>1, <1>2, <1>4 DEF CallsAreNumbered
<1>6. OneProcessEach'
  <2>1. \A u \in Threads : pc'[u] = "fork" => pc[u] = "fork" /\ call[u].peer >= 1
    BY <1>1 DEF CallsAreNumbered
  <2> QED
    BY <1>1, <1>2, <2>1 DEF OneProcessEach
<1>7. Pairs \subseteq Pairs'
  BY <1>2 DEF Pairs
<1>8. ToldByItsProcess' /\ ToldOnce'
  BY ZenonT(30), <1>1, <1>2, <1>7 DEF ToldByItsProcess, ToldOnce, Told
<1>9. PassedHaveAProcess' /\ DoneHaveAllProcesses'
  BY <1>1, <1>7 DEF PassedHaveAProcess, DoneHaveAllProcesses
<1> QED
  BY <1>3, <1>5, <1>6, <1>8, <1>9

LEMMA ReturnStep ==
  ASSUME IInv, NEW t \in Threads, Return(t)
  PROVE  IInv'
<1> USE PeerAssumption, PeersAreNat DEF IInv, Typed, OpNames
<1>1. /\ pc[t] = "done" /\ pc' = [pc EXCEPT ![t] = "idle"]
      /\ call' = [call EXCEPT ![t] = NoCall]
      /\ UNCHANGED <<calls, procs, inbox>>
  BY DEF Return
<1>2. Typed'
  BY <1>1 DEF NoCall
<1>3. \A u \in Threads : pc'[u] # "idle" => pc'[u] = pc[u] /\ call'[u] = call[u]
  BY <1>1
<1>4. CallsAreNumbered' /\ OneProcessEach'
  BY <1>1, <1>3 DEF CallsAreNumbered, OneProcessEach
<1>5. ToldByItsProcess' /\ ToldOnce'
  BY <1>1, PairsStay DEF ToldByItsProcess, ToldOnce, Told
<1>6. PassedHaveAProcess' /\ DoneHaveAllProcesses'
  BY <1>1, <1>3, PairsStay DEF PassedHaveAProcess, DoneHaveAllProcesses
<1> QED
  BY <1>2, <1>4, <1>5, <1>6

-----------------------------------------------------------------------------
\* The steps of the processes.

\* A process that gets to another point is still the process of its call and peer.
LEMMA GoesStep ==
  ASSUME IInv, NEW c \in procs, NEW point \in Points, Goes(c, point),
         UNCHANGED <<pc, call, calls>>,
         point = "send" => c.at = "connect",
         point # "connect"
  PROVE  /\ procs' \subseteq [id : Nat, peer : Int, op : OpNames, at : Points]
         /\ CallsAreNumbered' /\ OneProcessEach'
         /\ PassedHaveAProcess' /\ DoneHaveAllProcesses'
         /\ Pairs' = Pairs
         /\ \A d \in procs' : d.at \in {"connect", "send"} =>
              \E e \in procs : /\ e.id = d.id /\ e.peer = d.peer
                               /\ e.at \in {"connect", "send"}
                               /\ e = c => point = "send"
<1> USE PeerAssumption, PeersAreNat DEF IInv, Typed
<1> DEFINE new == [c EXCEPT !.at = point]
<1>1. /\ new \in [id : Nat, peer : Int, op : OpNames, at : Points]
      /\ new.id = c.id /\ new.peer = c.peer /\ new.at = point
  OBVIOUS
<1>2. procs' = (procs \ {c}) \union {new}
  BY DEF Goes
<1> HIDE DEF new
<1>3. Pairs' = Pairs
  BY <1>1, <1>2 DEF Pairs
<1>4. CallsAreNumbered'
  BY <1>1, <1>2 DEF CallsAreNumbered
<1>5. OneProcessEach'
  BY <1>1, <1>2 DEF OneProcessEach
<1>6. PassedHaveAProcess' /\ DoneHaveAllProcesses'
  BY <1>3 DEF PassedHaveAProcess, DoneHaveAllProcesses
<1> QED
  BY <1>1, <1>2, <1>3, <1>4, <1>5, <1>6

\* A process that goes on without sending tells nobody.
LEMMA QuietStep ==
  ASSUME IInv, NEW c \in procs, NEW point \in Points, Goes(c, point),
         UNCHANGED <<pc, call, calls, inbox>>,
         point = "send" => c.at = "connect",
         point # "connect"
  PROVE  IInv'
<1>1. /\ procs' \subseteq [id : Nat, peer : Int, op : OpNames, at : Points]
      /\ CallsAreNumbered' /\ OneProcessEach'
      /\ PassedHaveAProcess' /\ DoneHaveAllProcesses'
      /\ Pairs' = Pairs
      /\ \A d \in procs' : d.at \in {"connect", "send"} =>
           \E e \in procs : e.id = d.id /\ e.peer = d.peer /\ e.at \in {"connect", "send"}
  BY GoesStep
<1>2. Typed'
  BY <1>1 DEF IInv, Typed
<1>3. ToldByItsProcess'
  BY <1>1 DEF IInv, ToldByItsProcess, Told
<1>4. ToldOnce'
  BY DEF IInv, ToldOnce
<1> QED
  BY <1>1, <1>2, <1>3, <1>4 DEF IInv

LEMMA SendsStep ==
  ASSUME IInv, NEW c \in procs, Sends(c)
  PROVE  IInv'
<1> DEFINE p   == c.peer
           msg == [op |-> c.op, id |-> c.id]
<1>1. /\ c.at = "send" /\ Goes(c, AfterSend(c))
      /\ inbox' = [inbox EXCEPT ![p] = Append(inbox[p], msg)]
      /\ UNCHANGED <<pc, call, calls>>
  BY DEF Sends, Arrives
<1>2. AfterSend(c) \in {"recv", "exited"} /\ AfterSend(c) \in Points
  BY DEF AfterSend, Points
<1>3. /\ procs' \subseteq [id : Nat, peer : Int, op : OpNames, at : Points]
      /\ CallsAreNumbered' /\ OneProcessEach'
      /\ PassedHaveAProcess' /\ DoneHaveAllProcesses'
      /\ Pairs' = Pairs
      /\ \A d \in procs' : d.at \in {"connect", "send"} =>
           \E e \in procs \ {c} : e.id = d.id /\ e.peer = d.peer /\ e.at \in {"connect", "send"}
  BY <1>1, <1>2, GoesStep
<1>4. p \in Peers \ {0} /\ ~Told(p, c.id)
  BY <1>1 DEF IInv, OneProcessEach, ToldByItsProcess
<1>5. c.op \in OpNames /\ c.id \in Nat /\ c \in [id : Nat, peer : Int, op : OpNames, at : Points]
  BY DEF IInv, Typed
<1>6. /\ inbox[p] \in Seq([op : OpNames, id : Nat]) /\ msg \in [op : OpNames, id : Nat]
      /\ inbox \in [Peers -> Seq([op : OpNames, id : Nat])]
      /\ msg.id = c.id
  BY <1>4, <1>5 DEF IInv, Typed
<1> HIDE DEF msg
<1> DEFINE last == Len(inbox[p]) + 1
<1>7. \A i \in DOMAIN inbox'[p] :
        \/ i \in DOMAIN inbox[p] /\ inbox'[p][i] = inbox[p][i]
        \/ i = last /\ inbox'[p][i].id = c.id
  <2>1. inbox'[p] = Append(inbox[p], msg)
    BY <1>1, <1>4, <1>6
  <2>2. \A i \in 1..last : \/ i \in 1..Len(inbox[p]) /\ Append(inbox[p], msg)[i] = inbox[p][i]
                           \/ i = last /\ Append(inbox[p], msg)[i] = msg
    BY <1>6
  <2> QED
    BY <1>6, <2>1, <2>2
<1> HIDE DEF last
<1>8. \A q \in Peers : q # p => inbox'[q] = inbox[q]
  BY <1>1, <1>6
<1>9. Typed'
  <2>1. Append(inbox[p], msg) \in Seq([op : OpNames, id : Nat])
    BY <1>6
  <2>2. inbox' \in [Peers -> Seq([op : OpNames, id : Nat])]
    BY <1>1, <1>6, <2>1
  <2> QED
    BY <1>1, <1>3, <2>2 DEF IInv, Typed
<1>10. <<c.id, p>> \in Pairs
  BY DEF Pairs
<1>11. ToldByItsProcess'
  <2>1. ASSUME NEW q \in Peers, NEW i \in DOMAIN inbox'[q] PROVE <<inbox'[q][i].id, q>> \in Pairs
    <3>1. CASE q = p
      BY <1>4, <1>7, <1>10, <3>1 DEF IInv, ToldByItsProcess
    <3>2. CASE q # p
      BY <1>8, <3>2 DEF IInv, ToldByItsProcess
    <3> QED
      BY <3>1, <3>2
  <2>2. ASSUME NEW d \in procs', d.at \in {"connect", "send"} PROVE ~Told(d.peer, d.id)'
    <3>1. PICK e \in procs \ {c} : /\ e.id = d.id /\ e.peer = d.peer
                                   /\ e.at \in {"connect", "send"}
      BY <1>3, <2>2
    <3>2. ~Told(d.peer, d.id) /\ d.peer \in Peers
      BY <3>1 DEF IInv, ToldByItsProcess, OneProcessEach
    <3>3. d.peer = p => d.id # c.id
      BY <1>4, <3>1, PeersAreNat DEF IInv, OneProcessEach
    <3>4. ASSUME NEW i \in DOMAIN inbox'[d.peer] PROVE inbox'[d.peer][i].id # d.id
      <4>1. CASE d.peer = p
        BY <1>7, <3>2, <3>3, <4>1 DEF Told
      <4>2. CASE d.peer # p
        BY <1>8, <3>2, <4>2 DEF Told
      <4> QED
        BY <4>1, <4>2
    <3> QED
      BY <3>4 DEF Told
  <2> QED
    BY <1>3, <2>1, <2>2 DEF ToldByItsProcess
<1>12. ToldOnce'
  <2> SUFFICES ASSUME NEW q \in Peers, NEW i \in DOMAIN inbox'[q], NEW j \in DOMAIN inbox'[q],
                      inbox'[q][i].id = inbox'[q][j].id
               PROVE  i = j
    BY DEF ToldOnce
  <2>1. CASE q # p
    BY <1>8, <2>1 DEF IInv, ToldOnce
  <2>2. CASE q = p
    <3>1. \A k \in DOMAIN inbox[p] : inbox[p][k].id # c.id
      BY <1>4 DEF Told
    <3> QED
      BY <1>4, <1>7, <2>2, <3>1 DEF IInv, ToldOnce
  <2> QED
    BY <2>1, <2>2
<1> QED
  BY <1>3, <1>9, <1>11, <1>12 DEF IInv

LEMMA NextIInv == IInv /\ [Next]_vars => IInv'
<1> SUFFICES ASSUME IInv, [Next]_vars PROVE IInv'
  OBVIOUS
<1>1. ASSUME NEW t \in Threads, ForkFails(t) PROVE IInv'
  BY <1>1, PairsStay
  DEF ForkFails, IInv, Typed, CallsAreNumbered, OneProcessEach, ToldByItsProcess, ToldOnce, Told,
      PassedHaveAProcess, DoneHaveAllProcesses
<1>2. ASSUME NEW c \in procs, Child(c) PROVE IInv'
  <2> USE DEF Points
  <2>1. CASE Connects(c)
    BY <2>1, QuietStep DEF Connects
  <2>2. CASE Sends(c)
    BY <2>2, SendsStep
  <2>3. CASE SendsNothing(c)
    BY <2>3, QuietStep DEF SendsNothing, AfterSend
  <2>4. CASE Receives(c)
    BY <2>4, QuietStep DEF Receives
  <2>5. CASE Leaves(c)
    BY <2>5, QuietStep DEF Leaves
  <2> QED
    BY <1>2, <2>1, <2>2, <2>3, <2>4, <2>5 DEF Child
<1>3. CASE UNCHANGED vars
  BY <1>3, PairsStay
  DEF vars, IInv, Typed, CallsAreNumbered, OneProcessEach, ToldByItsProcess, ToldOnce, Told,
      PassedHaveAProcess, DoneHaveAllProcesses
<1> QED
  BY <1>1, <1>2, <1>3, CallStep, ForkPeerStep, ForkedStep, LocalStep, ReturnStep DEF Next, Step

LEMMA SpecIInv == Spec => []IInv
  BY InitIInv, NextIInv, PTL DEF Spec

-----------------------------------------------------------------------------
\* No call gets to a peer twice, for any number of threads, peers and calls.
THEOREM NobodyIsToldTwice == Spec => []ToldOnce
<1>1. IInv => ToldOnce
  BY DEF IInv
<1> QED
  BY <1>1, SpecIInv, PTL

\* Nothing is done here before each peer but the first of the vector has a process for it,
\* whatever fork(2) does (SyncFileAccessor.cpp:27-31, 152-173).
THEOREM PeersComeFirst == Spec => []NothingIsDoneSilently
<1>1. IInv => NothingIsDoneSilently
  BY ZenonT(30), PairsAreForked DEF IInv, DoneHaveAllProcesses, NothingIsDoneSilently
<1> QED
  BY <1>1, SpecIInv, PTL

-----------------------------------------------------------------------------
\* The process table.

\* What the members hold, and where the call of a thread that is in one came from.
Members ==
  /\ alive \in BOOLEAN /\ calls <= MaxCalls
  /\ \A t \in Threads : pc[t] # "idle" =>
       /\ call[t].op \in Ops /\ call[t].id >= 1
       /\ call[t].peer <= NumPeers \/ call[t].peer = 1
  /\ \A c \in procs : c.id >= 1

\* fork(2) fails when the table is full.
TableIsBounded == IsFiniteSet(procs) /\ Cardinality(procs) <= MaxProcs

\* i_write makes one process for each write, when its call gets to the accessor.
OneWriterEach ==
  /\ \A c, d \in procs : c.id = d.id /\ c.peer = -1 /\ d.peer = -1 => c = d
  /\ \A t \in Threads : pc[t] \in {"fork", "local"} =>
       \A c \in procs : c.id = call[t].id => c.peer # -1

TableInv == IInv /\ Members /\ TableIsBounded /\ OneWriterEach

LEMMA InitTableInv == Init => TableInv
<1> SUFFICES ASSUME Init PROVE TableInv
  OBVIOUS
<1>1. procs = {}
  BY DEF Init
<1>2. TableIsBounded
  BY <1>1, FS_EmptySet, PeerAssumption DEF TableIsBounded
<1> QED
  BY <1>1, <1>2, InitIInv, PeerAssumption DEF Init, TableInv, Members, OneWriterEach

\* A process that moves on keeps its place: its call and peer are in the table once.
LEMMA GoesKeepsTheTable ==
  ASSUME TableInv, NEW c \in procs, NEW point \in Points, Goes(c, point)
  PROVE  /\ IsFiniteSet(procs') /\ Cardinality(procs') = Cardinality(procs)
         /\ \A d \in procs' : \E e \in procs : d.id = e.id /\ d.peer = e.peer
         /\ OneWriterEach' \/ ~UNCHANGED <<pc, call>>
<1> DEFINE new == [c EXCEPT !.at = point]
<1>1. /\ new.id = c.id /\ new.peer = c.peer
      /\ procs' = (procs \ {c}) \union {new}
  BY DEF Goes, TableInv, IInv, Typed
<1> HIDE DEF new
<1>2. \A d \in procs : d.id = c.id /\ d.peer = c.peer => d = c
  BY DEF TableInv, IInv, OneProcessEach, OneWriterEach
<1>3. new \notin procs \ {c}
  BY <1>1, <1>2
<1>4. /\ IsFiniteSet(procs \ {c})
      /\ Cardinality(procs \ {c}) = Cardinality(procs) - 1
      /\ Cardinality(procs) \in Nat
  BY FS_RemoveElement, FS_CardinalityType DEF TableInv, TableIsBounded
<1>5. IsFiniteSet(procs') /\ Cardinality(procs') = Cardinality(procs \ {c}) + 1
  BY <1>1, <1>3, <1>4, FS_AddElement
<1>6. \A d \in procs' : \E e \in procs : d.id = e.id /\ d.peer = e.peer
  BY <1>1
<1>7. OneWriterEach' \/ ~UNCHANGED <<pc, call>>
  BY <1>1 DEF TableInv, OneWriterEach
<1> QED
  BY <1>4, <1>5, <1>6, <1>7

\* One process more, if there is room.
LEMMA ForkGrowsTheTable ==
  ASSUME TableIsBounded, Cardinality(procs) < MaxProcs, NEW new,
         procs' = procs \union {new}
  PROVE  TableIsBounded'
<1>1. IsFiniteSet(procs) /\ Cardinality(procs) \in Nat
  BY FS_CardinalityType DEF TableIsBounded
<1>2. /\ IsFiniteSet(procs \union {new})
      /\ Cardinality(procs \union {new}) \in {Cardinality(procs), Cardinality(procs) + 1}
  BY <1>1, FS_AddElement
<1> QED
  BY <1>1, <1>2, PeerAssumption DEF TableIsBounded

LEMMA TableStep ==
  ASSUME TableInv, [Next]_vars
  PROVE  Members' /\ TableIsBounded' /\ OneWriterEach'
<1> DEFINE Goal == Members' /\ TableIsBounded' /\ OneWriterEach'
<1>0. IsFiniteSet(procs) /\ Cardinality(procs) \in Nat
  BY FS_CardinalityType DEF TableInv, TableIsBounded
<1> USE PeerAssumption
<1>1. ASSUME UNCHANGED procs PROVE TableIsBounded'
  BY <1>0, <1>1 DEF TableInv, TableIsBounded
<1>2. ASSUME NEW t \in Threads, NEW op \in Ops, Call(t, op) PROVE Goal
  <2>1. /\ pc[t] = "idle" /\ calls' = calls + 1 /\ calls < MaxCalls
        /\ pc' = [pc EXCEPT ![t] = "fork"]
        /\ call' = [call EXCEPT ![t] = [op |-> op, id |-> calls + 1, peer |-> 1]]
        /\ UNCHANGED <<alive, procs>>
    BY <1>2 DEF Call
  <2>2. \A c \in procs : c.id <= calls
    BY DEF TableInv, IInv, CallsAreNumbered
  <2>3. Members'
    BY <2>1 DEF TableInv, IInv, Typed, Members
  <2>4. OneWriterEach'
    BY <2>1, <2>2 DEF TableInv, IInv, Typed, OneWriterEach
  <2> QED
    BY <1>1, <2>1, <2>3, <2>4
<1>3. ASSUME NEW t \in Threads, ForkPeer(t) PROVE Goal
  <2> DEFINE id == call[t].id
             to == call[t].peer
  <2>1. PICK new \in [id : Nat, peer : Int, op : OpNames, at : Points] :
          /\ new.id = id /\ new.peer = to
          /\ procs' = procs \union {new}
    <3>1. PICK point \in {"connect", "exited"} :
            procs' = procs \union {[id |-> id, peer |-> to, op |-> call[t].op, at |-> point]}
      BY <1>3 DEF ForkPeer
    <3>2. id \in Nat /\ to \in Int /\ call[t].op \in OpNames /\ point \in Points
      BY DEF TableInv, IInv, Typed, Points
    <3> QED
      BY <3>1, <3>2
  <2>2. /\ pc[t] = "fork" /\ to < NumPeers /\ Cardinality(procs) < MaxProcs
        /\ call' = [call EXCEPT ![t].peer = to + 1]
        /\ alive' \in BOOLEAN /\ UNCHANGED <<pc, calls>>
    BY <1>3 DEF ForkPeer, InLoop
  <2>3. id >= 1 /\ to >= 1 /\ to \in Nat
    BY <2>2 DEF TableInv, IInv, Typed, Members, CallsAreNumbered
  <2>4. \A u \in Threads : /\ call'[u].id = call[u].id /\ call'[u].op = call[u].op
                           /\ call'[u].peer = IF u = t THEN to + 1 ELSE call[u].peer
    BY <2>2 DEF TableInv, IInv, Typed
  <2> HIDE DEF id, to
  <2>5. Members'
    BY <2>1, <2>2, <2>3, <2>4 DEF TableInv, Members
  <2>6. OneWriterEach'
    BY <2>1, <2>2, <2>3, <2>4 DEF TableInv, OneWriterEach
  <2> QED
    BY <2>1, <2>2, <2>5, <2>6, ForkGrowsTheTable DEF TableInv
<1>4. ASSUME NEW t \in Threads, ForkFails(t) \/ Forked(t) PROVE Goal
  <2>1. /\ pc' = pc \/ (pc[t] = "fork" /\ pc' = [pc EXCEPT ![t] = "local"])
        /\ alive' \in {alive, FALSE}
        /\ UNCHANGED <<call, calls, procs>>
    BY <1>4 DEF ForkFails, Forked, InLoop
  <2> QED
    BY ZenonT(30), <1>1, <2>1 DEF TableInv, IInv, Typed, Members, OneWriterEach
<1>5. ASSUME NEW t \in Threads, Local(t) PROVE Goal
  <2> DEFINE new == [id |-> call[t].id, peer |-> -1, op |-> "write", at |-> "write"]
  <2>1. /\ pc[t] = "local" /\ pc' = [pc EXCEPT ![t] = "done"]
        /\ UNCHANGED <<alive, call, calls>>
        /\ \/ procs' = procs
           \/ Cardinality(procs) < MaxProcs /\ procs' = procs \union {new}
    BY <1>5 DEF Local
  <2>2. new.id = call[t].id /\ new.peer = -1 /\ call[t].id >= 1
    BY <2>1 DEF TableInv, Members
  <2> HIDE DEF new
  <2>3. Members'
    BY <2>1, <2>2 DEF TableInv, IInv, Typed, Members
  <2>4. \A u \in Threads : pc'[u] \in {"fork", "local"} =>
          u # t /\ pc[u] = pc'[u] /\ call[u].id # call[t].id
    BY <2>1 DEF TableInv, IInv, Typed, CallsAreNumbered
  <2>5. OneWriterEach'
    BY <2>1, <2>2, <2>4 DEF TableInv, OneWriterEach
  <2> QED
    BY <1>1, <2>1, <2>3, <2>5, ForkGrowsTheTable DEF TableInv
<1>6. ASSUME NEW t \in Threads, Return(t) PROVE Goal
  <2>1. /\ pc' = [pc EXCEPT ![t] = "idle"] /\ call' = [call EXCEPT ![t] = NoCall]
        /\ UNCHANGED <<alive, calls, procs>>
    BY <1>6 DEF Return
  <2>2. \A u \in Threads : pc'[u] # "idle" => pc'[u] = pc[u] /\ call'[u] = call[u]
    BY <2>1 DEF TableInv, IInv, Typed
  <2> QED
    BY <1>1, <2>1, <2>2 DEF TableInv, Members, OneWriterEach
<1>7. ASSUME NEW c \in procs, Child(c) PROVE Goal
  <2>1. UNCHANGED <<alive, pc, call, calls>> /\ \E point \in Points : Goes(c, point)
    BY <1>7
    DEF Child, Connects, Sends, SendsNothing, Receives, Leaves, AfterSend,
        Points
  <2>2. /\ IsFiniteSet(procs') /\ Cardinality(procs') = Cardinality(procs)
        /\ \A d \in procs' : \E e \in procs : d.id = e.id /\ d.peer = e.peer
        /\ OneWriterEach'
    BY <2>1, GoesKeepsTheTable
  <2>3. Members'
    BY <2>1, <2>2 DEF TableInv, Members
  <2> QED
    BY <1>0, <2>2, <2>3 DEF TableInv, TableIsBounded
<1>8. CASE UNCHANGED vars
  <2>1. UNCHANGED <<alive, pc, call, calls, procs>>
    BY <1>8 DEF vars
  <2> QED
    BY <1>1, <2>1 DEF TableInv, Members, OneWriterEach
<1> QED
  BY <1>2, <1>3, <1>4, <1>5, <1>6, <1>7, <1>8 DEF Next, Step

LEMMA SpecTableInv == Spec => []TableInv
<1>1. TableInv /\ [Next]_vars => TableInv'
  BY TableStep, NextIInv DEF TableInv
<1> QED
  BY <1>1, InitTableInv, PTL DEF Spec

\* Every variable has its type; there are never more processes than fork(2) allows, and a
\* message bears the number of a call that was made.
THEOREM PeersTypeCorrect == Spec => []TypeOK
<1>1. TableInv => TypeOK
  <2> SUFFICES ASSUME TableInv PROVE TypeOK
    OBVIOUS
  <2>1. ASSUME NEW p \in Peers, NEW i \in DOMAIN inbox[p] PROVE inbox[p][i].id \in 1..calls
    <3>1. <<inbox[p][i].id, p>> \in Pairs
      BY DEF TableInv, IInv, ToldByItsProcess
    <3>2. PICK c \in procs : c.id = inbox[p][i].id
      BY <3>1, PairsAreForked
    <3> QED
      BY <3>2 DEF TableInv, Members, IInv, Typed, CallsAreNumbered
  <2>2. ASSUME NEW t \in Threads, pc[t] # "idle"
        PROVE  /\ call[t].op \in Ops /\ call[t].id \in 1..calls
               /\ call[t].peer \in 1..NumPeers \union {1}
    BY <2>2, PeerAssumption DEF TableInv, Members, IInv, Typed, CallsAreNumbered
  <2> QED
    BY <2>1, <2>2, PeerAssumption DEF TableInv, Members, IInv, Typed, TableIsBounded, TypeOK
<1> QED
  BY <1>1, SpecTableInv, PTL

-----------------------------------------------------------------------------
\* The way of a call to its answer.

\* How many steps of its thread a call is away from its answer.
Distance(t) ==
  CASE pc[t] = "fork"  -> IF call[t].peer < NumPeers THEN NumPeers - call[t].peer + 2 ELSE 2
    [] pc[t] = "local" -> 1
    [] OTHER           -> 0

\* It is fewer after the step.
Closer(t) == Distance(t)' \in Nat /\ Distance(t)' < Distance(t)

\* Each step of a thread that is in a call brings it closer to its answer, or the server
\* goes down with it; what the other threads do and all processes makes no difference.
ComesCloser ==
  \A t \in Threads : pc[t] \in {"fork", "local"} =>
    IF Step(t) THEN ~alive' \/ Closer(t)
               ELSE UNCHANGED <<pc[t], call[t]>>

\* The other calls do not depend on the peers, with any number of them
\* (SyncFileAccessor.cpp:152-173): the half of AnsweredWithoutPeers that needs no fairness.
THEOREM CallsComeCloser == Spec => [][ComesCloser]_vars
<1>1. ASSUME IInv, [Next]_vars, NEW t \in Threads, pc[t] \in {"fork", "local"}
      PROVE  IF Step(t) THEN ~alive' \/ Closer(t)
                        ELSE UNCHANGED <<pc[t], call[t]>>
  <2>0. /\ pc \in [Threads -> {"idle", "fork", "local", "done"}]
        /\ call \in [Threads -> [op : OpNames, id : Nat, peer : Nat]]
        /\ NumPeers \in Nat
    BY <1>1, PeerAssumption DEF IInv, Typed
  <2>1. ASSUME NEW u \in Threads, Step(u) \/ \E op \in Ops : Call(u, op), u # t
        PROVE  UNCHANGED <<pc[t], call[t]>>
    BY <2>0, <2>1 DEF Step, ForkPeer, ForkFails, Forked, Local, Return, Call
  <2>2. ASSUME Step(t) PROVE ~alive' \/ Closer(t)
    <3>1. CASE ForkPeer(t)
      <4>1. /\ pc[t] = "fork" /\ pc'[t] = "fork" /\ call[t].peer < NumPeers
            /\ call'[t].peer = call[t].peer + 1 /\ call[t].peer \in Nat
        BY <2>0, <3>1 DEF ForkPeer, InLoop
      <4> QED
        BY <2>0, <4>1 DEF Closer, Distance
    <3>2. CASE Forked(t)
      <4>1. pc[t] = "fork" /\ ~(call[t].peer < NumPeers)
        BY <2>0, <3>2 DEF Forked
      <4>2. alive' = FALSE \/ pc'[t] = "local"
        BY <2>0, <3>2 DEF Forked
      <4> QED
        BY <4>1, <4>2 DEF Closer, Distance
    <3>3. CASE Local(t)
      <4>1. pc[t] = "local" /\ pc'[t] = "done"
        BY <2>0, <3>3 DEF Local
      <4> QED
        BY <4>1 DEF Closer, Distance
    <3> QED
      BY <1>1, <2>2, <3>1, <3>2, <3>3 DEF Step, ForkFails, Return
  <2>3. \A op \in Ops : ~Call(t, op)
    BY <1>1 DEF Call
  <2>4. ASSUME NEW c \in procs, Child(c) PROVE UNCHANGED <<pc, call>>
    BY <2>4 DEF Child, Connects, Sends, SendsNothing, Receives, Leaves
  <2>5. ASSUME ~Step(t) PROVE UNCHANGED <<pc[t], call[t]>>
    BY <1>1, <2>1, <2>3, <2>4, <2>5 DEF Next, vars
  <2> QED
    BY <2>2, <2>5
<1>2. IInv /\ [Next]_vars => [ComesCloser]_vars
  BY <1>1 DEF ComesCloser
<1> QED
  BY <1>2, SpecIInv, PTL DEF Spec
=============================================================================
