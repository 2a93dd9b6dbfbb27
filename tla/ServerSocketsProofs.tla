------------------------ MODULE ServerSocketsProofs ------------------------
(***************************************************************************)
(* For any servers, ports and number of descriptors: a server's socket is its     *)
(* own, a port serves one client, and only acceptSock loses sockets.             *)
(*                                                                           *)
(* The inductive invariant adds who has which socket at which point, that a port  *)
(* has one socket that is bound or listens, and that a port whose client was       *)
(* accepted still has that listening socket, which nobody has.                   *)
(*                                                                           *)
(* At the end: each step of a thread in startServer brings it closer to its end.*)
(***************************************************************************)
EXTENDS ServerSockets, FiniteSetTheorems, TLAPS

Connecting == {"bind", "listen"}

Kinds == {"free", "made", "bound", "listening", "client"}

Typed ==
  /\ pc \in [Servers -> {"idle", "bind", "listen", "recv", "process", "send", "exit"}]
  /\ conn \in [Servers -> {"none", "open", "gone"}]
  /\ port \in Ports
  /\ sock \in [Fds -> [is : Kinds, port : Ports \union {0}]]
  /\ sockfd \in [Servers -> Fds \union {Error}]
  /\ sd \in [Servers -> Fds \union {Error}]
  /\ accepted \in [Ports -> Nat]
  /\ \A fd \in Fds : IF sock[fd].is = "free" THEN sock[fd] = Free ELSE sock[fd].port \in Ports

\* What passivesockaux has is made or bound, and becomes the server's when it listens.
SocketOfThePoint ==
  \A s \in Servers :
    /\ sd[s] # Error <=> pc[s] \in Connecting
    /\ pc[s] = "bind" => sock[sd[s]].is = "made"
    /\ pc[s] = "listen" => sock[sd[s]].is = "bound"
    /\ pc[s] \in Connecting => sockfd[s] = Error

NobodyShares ==
  \A s, t \in Servers : s # t /\ sd[s] # Error => sd[t] # sd[s]

Passive(fd) == sock[fd].is \in {"bound", "listening"}

OnePassivePerPort ==
  \A c, d \in Fds : Passive(c) /\ Passive(d) /\ sock[c].port = sock[d].port => c = d

\* The first accept at a port loses its listening socket.
AcceptedLeavesLost ==
  \A p \in Ports :
    /\ accepted[p] <= 1
    /\ accepted[p] = 1 =>
         \E fd \in Lost : sock[fd].is = "listening" /\ sock[fd].port = p

IInv ==
  /\ Typed /\ SocketOfThePoint /\ HoldsItsOwn /\ NobodyShares
  /\ OnePassivePerPort /\ AcceptedLeavesLost

LEMMA FdsAreNat == Fds \subseteq Nat /\ Error \notin Fds
  BY SocketAssumption DEF Fds, Error

LEMMA ZeroOrOne == \A n \in Nat : n <= 1 => n = 0 \/ n = 1
  OBVIOUS

LEMMA InitIInv == Init => IInv
  BY SocketAssumption, FdsAreNat
  DEF Init, LoopInit, IInv, Typed, SocketOfThePoint, HoldsItsOwn, NobodyShares,
      OnePassivePerPort, AcceptedLeavesLost, Passive, Has, Free, Kinds, Connecting

\* What start and the clients do leaves the sockets alone.
LEMMA LoopStep ==
  ASSUME Typed, LoopNext
  PROVE  /\ pc' \in [Servers -> {"idle", "bind", "listen", "recv", "process", "send", "exit"}]
         /\ conn' \in [Servers -> {"none", "open", "gone"}]
         /\ \A s \in Servers : /\ pc[s] \in Connecting \/ pc'[s] \in Connecting => pc'[s] = pc[s]
                               /\ conn[s] = "none" <=> conn'[s] = "none"
<1> USE DEF Typed, Connecting, At, GoTo
<1>1. ASSUME NEW s \in Servers, StartServer(s) \/ Serve(s)
      PROVE  conn' = conn /\ \E p \in {"idle", "recv", "process", "send", "exit"} :
               (pc[s] \notin Connecting /\ pc' = [pc EXCEPT ![s] = p]) \/ pc' = pc
  BY <1>1
  DEF StartServer, Serve, Receive, ReceiveNothing, ProcessAnswers, Process, SendAnswer,
      SendKills, StopServer
<1>2. ASSUME NEW s \in Servers, ClientSends(s) \/ ClientLeaves(s)
      PROVE  pc' = pc /\ (conn' = conn \/ (conn[s] = "open" /\ conn' = [conn EXCEPT ![s] = "gone"]))
  BY <1>2 DEF ClientSends, ClientLeaves
<1> QED
  BY <1>1, <1>2 DEF LoopNext

LEMMA NextIInv == IInv /\ [Next]_vars => IInv'
<1> SUFFICES ASSUME IInv, [Next]_vars PROVE IInv'
  OBVIOUS
<1> USE FdsAreNat DEF IInv, Typed, SocketOfThePoint, HoldsItsOwn, NobodyShares, Has, Kinds,
        Connecting
<1>1. CASE LoopNext /\ UNCHANGED sockets
  <2>1. Lost' = Lost
    BY <1>1 DEF Lost, sockets
  <2> QED
    BY <1>1, <2>1, LoopStep
    DEF sockets, OnePassivePerPort, Passive, AcceptedLeavesLost
<1>2. ASSUME NEW s \in Servers, MakeSocket(s) PROVE IInv'
  <2> USE <1>2 DEF MakeSocket, At, GoTo
  <2>1. PICK fd \in Fds : /\ sock[fd] = Free
                          /\ sock' = [sock EXCEPT ![fd] = [is |-> "made", port |-> port]]
                          /\ sd' = [sd EXCEPT ![s] = fd]
    BY DEF NextFd, getPort
  <2>2. /\ \A t \in Servers : sockfd[t] # fd /\ sd[t] # fd
        /\ sd[s] = Error
    BY <2>1 DEF Free
  <2>3. (Typed /\ SocketOfThePoint /\ HoldsItsOwn /\ NobodyShares)'
    BY <2>1, <2>2 DEF Free
  <2>4. OnePassivePerPort'
    BY <2>1 DEF OnePassivePerPort, Passive
  <2>5. \A lost \in Lost : lost # fd => lost \in Lost'
    BY <2>1 DEF Lost
  <2> QED
    BY <2>1, <2>3, <2>4, <2>5 DEF AcceptedLeavesLost, Free, Lost
<1>3. ASSUME NEW s \in Servers, BindSocket(s) PROVE IInv'
  <2> USE <1>3 DEF BindSocket, At, GoTo
  <2>1. sd[s] \in Fds /\ sock[sd[s]].is = "made"
    OBVIOUS
  <2>2. sock' = [sock EXCEPT ![sd[s]].is = "bound"] /\ \A t \in Servers : sockfd[t] # sd[s]
    BY <2>1
  <2>3. (Typed /\ SocketOfThePoint /\ HoldsItsOwn /\ NobodyShares)'
    BY <2>1, <2>2
  <2>4. OnePassivePerPort'
    BY <2>1, <2>2 DEF OnePassivePerPort, Passive, Taken
  <2>5. \A lost \in Lost : lost \in Lost' /\ lost # sd[s]
    BY <2>1, <2>2 DEF Lost
  <2> QED
    BY <2>1, <2>2, <2>3, <2>4, <2>5 DEF AcceptedLeavesLost, Lost
<1>4. ASSUME NEW s \in Servers, PassiveFails(s) PROVE IInv'
  <2> USE <1>4 DEF PassiveFails, Returns, GoTo
  <2>1. /\ sd[s] \in Fds
        /\ sock' = [sock EXCEPT ![sd[s]] = Free]
        /\ \A t \in Servers : sockfd[t] # sd[s]
    OBVIOUS
  <2>3. (Typed /\ SocketOfThePoint /\ HoldsItsOwn /\ NobodyShares)'
    BY <2>1 DEF Free
  <2>4. OnePassivePerPort'
    BY <2>1 DEF OnePassivePerPort, Passive, Free
  <2>5. \A lost \in Lost : lost \in Lost' /\ lost # sd[s]
    BY <2>1 DEF Lost
  <2> QED
    BY <2>1, <2>3, <2>4, <2>5 DEF AcceptedLeavesLost, Lost
<1>5. ASSUME NEW s \in Servers, ListenSocket(s) PROVE IInv'
  <2> USE <1>5 DEF ListenSocket, Returns, At, GoTo
  <2>1. sd[s] \in Fds /\ sock[sd[s]].is = "bound"
    OBVIOUS
  <2>2. /\ sock' = [sock EXCEPT ![sd[s]].is = "listening"]
        /\ sockfd' = [sockfd EXCEPT ![s] = sd[s]]
        /\ \A t \in Servers : sockfd[t] # sd[s]
    BY <2>1
  <2>3. (Typed /\ SocketOfThePoint /\ HoldsItsOwn /\ NobodyShares)'
    BY <2>1, <2>2
  <2>4. OnePassivePerPort'
    BY <2>1, <2>2 DEF OnePassivePerPort, Passive
  <2>5. \A lost \in Lost : lost \in Lost' /\ lost # sd[s]
    BY <2>1, <2>2 DEF Lost
  <2> QED
    BY <2>1, <2>2, <2>3, <2>4, <2>5 DEF AcceptedLeavesLost, Lost
<1>6. ASSUME NEW s \in Servers, Accept(s) PROVE IInv'
  <2> USE <1>6 DEF Accept, At
  <2> DEFINE from == sockfd[s]
             p    == sock[from].port
  <2>1. from \in Fds /\ sock[from].is = "listening" /\ p \in Ports
    BY ZenonT(30)
  <2>2. PICK fd \in Fds : /\ sock[fd] = Free
                          /\ sock' = [sock EXCEPT ![fd] = [is |-> "client", port |-> p]]
                          /\ sockfd' = [sockfd EXCEPT ![s] = fd]
    BY DEF NextFd
  <2>3. fd # from /\ \A t \in Servers : sockfd[t] # fd /\ sd[t] # fd
    BY <2>1, <2>2 DEF Free
  <2>4. accepted' = [accepted EXCEPT ![p] = @ + 1]
    OBVIOUS
  <2>5. (Typed /\ SocketOfThePoint /\ HoldsItsOwn /\ NobodyShares)'
    BY <2>1, <2>2, <2>3, <2>4 DEF Free
  <2>6. OnePassivePerPort'
    BY <2>2 DEF OnePassivePerPort, Passive
  <2>7. \A lost \in Lost : lost \in Lost' /\ lost # fd
    BY <2>2, <2>3 DEF Lost, Free
  <2>8. accepted[p] = 0
    <3>1. ~\E lost \in Lost : sock[lost].is = "listening" /\ sock[lost].port = p
      BY <2>1 DEF OnePassivePerPort, Passive, Lost
    <3>2. accepted[p] \in Nat /\ accepted[p] <= 1 /\ accepted[p] # 1
      BY <2>1, <3>1 DEF AcceptedLeavesLost
    <3> QED
      BY <3>2, ZeroOrOne
  <2>9. from \in Lost'
    BY <2>1, <2>2, <2>3 DEF Lost, Free
  <2>10. sock'[from] = sock[from] /\ accepted'[p] = 1
    BY <2>1, <2>2, <2>3, <2>4, <2>8
  <2>11. AcceptedLeavesLost'
    <3> SUFFICES ASSUME NEW q \in Ports
                 PROVE  /\ accepted'[q] <= 1
                        /\ accepted'[q] = 1 =>
                             \E lost \in Lost' : sock'[lost].is = "listening" /\ sock'[lost].port = q
      BY DEF AcceptedLeavesLost
    <3>1. CASE q = p
      BY <3>1, <2>1, <2>9, <2>10
    <3>2. CASE q # p
      <4>1. accepted'[q] = accepted[q]
        BY <3>2, <2>1, <2>4
      <4>2. \A lost \in Lost : sock'[lost] = sock[lost]
        BY <2>2, <2>7 DEF Lost
      <4> QED
        BY <4>1, <4>2, <2>7 DEF AcceptedLeavesLost
    <3> QED
      BY <3>1, <3>2
  <2> QED
    BY <2>5, <2>6, <2>11
<1>7. ASSUME NEW s \in Servers, AcceptFails(s) PROVE IInv'
  <2> USE <1>7 DEF AcceptFails, At
  <2>1. (Typed /\ SocketOfThePoint /\ HoldsItsOwn /\ NobodyShares)'
    OBVIOUS
  <2>2. Lost \subseteq Lost'
    BY DEF Lost
  <2> QED
    BY <2>1, <2>2 DEF OnePassivePerPort, Passive, AcceptedLeavesLost, Lost
<1>8. ASSUME NEW s \in Servers, Destroy(s) PROVE IInv'
  <2> USE <1>8 DEF Destroy, At
  <2>1. /\ sockfd[s] \in Fds
        /\ sock' = [sock EXCEPT ![sockfd[s]] = Free]
        /\ \A t \in Servers : sd[t] # sockfd[s]
    OBVIOUS
  <2>2. (Typed /\ SocketOfThePoint /\ HoldsItsOwn /\ NobodyShares)'
    BY <2>1 DEF Free
  <2>3. OnePassivePerPort'
    BY <2>1 DEF OnePassivePerPort, Passive, Free
  <2>4. \A lost \in Lost : lost \in Lost' /\ lost # sockfd[s]
    BY <2>1 DEF Lost
  <2> QED
    BY <2>1, <2>2, <2>3, <2>4 DEF AcceptedLeavesLost, Lost
<1>9. ASSUME NEW n \in Ports, SetPort(n) PROVE IInv'
  BY <1>9 DEF SetPort, loop, OnePassivePerPort, Passive, AcceptedLeavesLost, Lost
<1>10. CASE UNCHANGED vars
  BY <1>10 DEF vars, loop, sockets, OnePassivePerPort, Passive, AcceptedLeavesLost, Lost
<1> QED
  BY <1>1, <1>2, <1>3, <1>4, <1>5, <1>6, <1>7, <1>8, <1>9, <1>10 DEF Next, SocketStep

LEMMA SpecIInv == Spec => []IInv
  BY InitIInv, NextIInv, PTL DEF Spec

\* Whatever order the servers' calls come in: no destructor and no acceptSock touches a
\* socket of another server (Server.cpp:179, 193, 203).
THEOREM SocketsAreOwn == Spec => []HoldsItsOwn
<1>1. IInv => HoldsItsOwn
  BY DEF IInv
<1> QED
  BY <1>1, SpecIInv, PTL

\* However many servers and descriptors there are, a port gets one client: acceptSock
\* loses the only socket that listens there, open (Server.cpp:193).
THEOREM OneClientPerPort == Spec => []PortServesOneClient
<1>1. IInv => PortServesOneClient
  BY DEF IInv, AcceptedLeavesLost, PortServesOneClient
<1> QED
  BY <1>1, SpecIInv, PTL

LEMMA StepLoses ==
  ASSUME IInv, [Next]_vars, NEW fd \in Lost', fd \notin Lost
  PROVE  \E s \in Servers : Accept(s) \/ AcceptFails(s)
<1> USE FdsAreNat DEF IInv, Typed, SocketOfThePoint, HoldsItsOwn, NobodyShares, Has, Kinds,
        Connecting, Lost
<1>1. CASE LoopNext /\ UNCHANGED sockets
  BY <1>1 DEF sockets
<1>2. ASSUME NEW s \in Servers, MakeSocket(s) PROVE FALSE
  BY <1>2 DEF MakeSocket, At, GoTo, NextFd
<1>3. ASSUME NEW s \in Servers, BindSocket(s) PROVE FALSE
  BY <1>3 DEF BindSocket, At, GoTo
<1>4. ASSUME NEW s \in Servers, PassiveFails(s) PROVE FALSE
  BY <1>4 DEF PassiveFails, Returns, GoTo, Free
<1>5. ASSUME NEW s \in Servers, ListenSocket(s) PROVE FALSE
  BY <1>5 DEF ListenSocket, Returns, At, GoTo
<1>6. ASSUME NEW s \in Servers, Destroy(s) PROVE FALSE
  BY <1>6 DEF Destroy, At, Free
<1>7. ASSUME NEW n \in Ports, SetPort(n) PROVE FALSE
  BY <1>7 DEF SetPort, loop
<1>8. CASE UNCHANGED vars
  BY <1>8 DEF vars, sockets
<1> QED
  BY <1>1, <1>2, <1>3, <1>4, <1>5, <1>6, <1>7, <1>8 DEF Next, SocketStep

\* Only acceptSock loses a socket; passivesockaux and the destructor close what they give
\* up (tcp-utils.cpp:119-127, Server.cpp:200-205).
THEOREM AcceptSockLoses == Spec => OnlyAcceptLoses
<1>1. IInv /\ [Next]_vars
        => [\A fd \in Lost' \ Lost : \E s \in Servers : Accept(s) \/ AcceptFails(s)]_vars
  BY StepLoses
<1> QED
  BY <1>1, SpecIInv, PTL DEF Spec, OnlyAcceptLoses

-----------------------------------------------------------------------------
\* What is about to be sent was made of a message.
AnswersAreMessages ==
  /\ DOMAIN answer = Servers
  /\ \A s \in Servers : pc[s] = "send" =>
       \E m \in Messages : answer[s] = [own |-> toCString(m), size |-> getMessageSize(m)]

LEMMA AnswerStep == Typed /\ AnswersAreMessages /\ [Next]_vars => AnswersAreMessages'
<1> SUFFICES ASSUME Typed, AnswersAreMessages, [Next]_vars PROVE AnswersAreMessages'
  OBVIOUS
<1>0. DOMAIN pc = Servers
  BY DEF Typed
<1> USE DEF At, GoTo
<1>1. ASSUME NEW s \in Servers, ProcessAnswers(s) PROVE AnswersAreMessages'
  <2>1. PICK m \in Messages :
          answer' = [answer EXCEPT ![s] = [own |-> toCString(m), size |-> getMessageSize(m)]]
    BY <1>1 DEF ProcessAnswers
  <2>2. pc' = [pc EXCEPT ![s] = "send"]
    BY <1>1 DEF ProcessAnswers
  <2> HIDE DEF At, GoTo
  <2> QED
    BY <1>0, <2>1, <2>2 DEF AnswersAreMessages
<1>2. ASSUME NEW s \in Servers, SendAnswer(s) PROVE AnswersAreMessages'
  BY <1>0, <1>2 DEF SendAnswer, AnswersAreMessages
<1>3. ASSUME answer' = answer,
             \/ pc' = pc
             \/ \E s \in Servers : \E p : p # "send" /\ pc' = [pc EXCEPT ![s] = p]
      PROVE  AnswersAreMessages'
  BY <1>0, <1>3 DEF AnswersAreMessages
<1>4. ASSUME NEW s \in Servers,
             \/ StartServer(s) \/ Receive(s) \/ ReceiveNothing(s) \/ Process(s) \/ SendKills(s)
             \/ StopServer(s) \/ ClientSends(s) \/ ClientLeaves(s)
      PROVE  AnswersAreMessages'
  BY <1>3, <1>4
  DEF StartServer, Receive, ReceiveNothing, Process, SendKills, StopServer, ClientSends,
      ClientLeaves
<1>5. ASSUME NEW s \in Servers, SocketStep(s) PROVE AnswersAreMessages'
  BY <1>3, <1>5
  DEF SocketStep, MakeSocket, BindSocket, PassiveFails, ListenSocket, Returns, Accept,
      AcceptFails, Destroy
<1>6. CASE UNCHANGED vars \/ \E n \in Ports : SetPort(n)
  BY <1>3, <1>6 DEF vars, SetPort, loop
<1> QED
  BY <1>1, <1>2, <1>4, <1>5, <1>6 DEF Next, LoopNext, Serve

\* Whatever the answer: all of its status is sent, and as much from behind the buffer as
\* code and text are long (Server.cpp:47-54, 118-122).
THEOREM AnswersHoldTheirStatus == Spec => []StatusArrivesWhole
<1>1. Init => AnswersAreMessages
  BY DEF Init, LoopInit, AnswersAreMessages
<1>2. AnswersAreMessages => StatusArrivesWhole
  <2> SUFFICES ASSUME AnswersAreMessages, NEW s \in Servers, pc[s] = "send"
               PROVE  answer[s].own <= answer[s].size /\ answer[s].size - answer[s].own >= 3
    BY DEF StatusArrivesWhole
  <2>1. PICK m \in Messages : answer[s] = [own |-> toCString(m), size |-> getMessageSize(m)]
    BY DEF AnswersAreMessages
  <2>2. m.digits \in Nat \ {0} /\ m.length \in Nat /\ statusToString[m.status] \in Nat
    <3>1. /\ m.status \in DOMAIN statusToString
          /\ m.digits \in CodeDigits /\ m.length \in DataLengths
      BY DEF Messages
    <3>2. statusToString[m.status] \in Nat
      BY <3>1 DEF statusToString
    <3> QED
      BY <3>1, <3>2, ServerAssumption
  <2>3. /\ answer[s].own = statusToString[m.status] + 1
        /\ answer[s].size = statusToString[m.status] + 1 + m.digits + 1 + m.length + 1
    BY <2>1 DEF toCString, getMessageSize
  <2> QED
    BY <2>2, <2>3
<1>3. IInv => Typed
  BY DEF IInv
<1> QED
  BY <1>1, <1>2, <1>3, AnswerStep, SpecIInv, PTL DEF Spec
-----------------------------------------------------------------------------
\* The count of running servers, and type correctness.

\* What the members of the loop hold.
Members ==
  /\ alive \in BOOLEAN
  /\ requests \in [Servers -> 0..MaxRequests]
  /\ unread \in [Servers -> Nat] /\ \A s \in Servers : unread[s] <= requests[s]
  /\ answer \in [Servers -> [own : Nat, size : Nat]]

\* The servers whose threads are in startServer.
InStartServer == {s \in Servers : pc[s] \in {"recv", "process", "send", "exit"}}

\* serverNum is the number of servers that run, in whatever order they start and stop.
ServersAreCounted == serverNum = Cardinality(InStartServer)

LEMMA SizesAreNat ==
  ASSUME NEW m \in Messages
  PROVE  toCString(m) \in Nat /\ getMessageSize(m) \in Nat
<1>1. m.digits \in Nat /\ m.length \in Nat /\ m.status \in DOMAIN statusToString
  BY ServerAssumption DEF Messages
<1>2. statusToString[m.status] \in Nat
  BY <1>1 DEF statusToString
<1> QED
  BY <1>1, <1>2 DEF toCString, getMessageSize

LEMMA MembersStep == Members /\ [Next]_vars => Members'
<1> SUFFICES ASSUME Members, [Next]_vars PROVE Members'
  OBVIOUS
<1> USE ServerAssumption DEF Members
<1>1. ASSUME NEW s \in Servers, Receive(s) PROVE Members'
  <2>1. PICK n \in 0..(unread[s] - 1) : unread' = [unread EXCEPT ![s] = n]
    BY <1>1 DEF Receive
  <2>2. alive' \in BOOLEAN /\ UNCHANGED <<requests, answer>>
    BY <1>1 DEF Receive
  <2> QED
    BY <2>1, <2>2
<1>2. ASSUME NEW s \in Servers, ProcessAnswers(s) PROVE Members'
  <2>1. PICK m \in Messages :
          answer' = [answer EXCEPT ![s] = [own |-> toCString(m), size |-> getMessageSize(m)]]
    BY <1>2 DEF ProcessAnswers
  <2>2. alive' \in BOOLEAN /\ UNCHANGED <<requests, unread>>
    BY <1>2 DEF ProcessAnswers
  <2>3. [own |-> toCString(m), size |-> getMessageSize(m)] \in [own : Nat, size : Nat]
    BY SizesAreNat
  <2> QED
    BY <2>1, <2>2, <2>3
<1>3. ASSUME NEW s \in Servers,
             StartServer(s) \/ ReceiveNothing(s) \/ Process(s) \/ StopServer(s)
      PROVE  Members'
  BY <1>3 DEF StartServer, ReceiveNothing, Process, StopServer
<1>4. ASSUME NEW s \in Servers, SendAnswer(s) \/ SendKills(s) PROVE Members'
  <2>1. NoAnswer \in [own : Nat, size : Nat]
    BY DEF NoAnswer
  <2> QED
    BY <1>4, <2>1 DEF SendAnswer, SendKills
<1>5. ASSUME NEW s \in Servers, ClientSends(s) PROVE Members'
  <2>1. /\ requests[s] < MaxRequests
        /\ requests' = [requests EXCEPT ![s] = requests[s] + 1]
        /\ unread' = [unread EXCEPT ![s] = unread[s] + 1]
        /\ UNCHANGED <<alive, answer>>
    BY <1>5 DEF ClientSends
  <2>2. requests' \in [Servers -> 0..MaxRequests] /\ unread' \in [Servers -> Nat]
    BY <2>1
  <2>3. \A t \in Servers : unread'[t] <= requests'[t]
    BY <2>1
  <2> QED
    BY <2>1, <2>2, <2>3
<1>6. ASSUME NEW s \in Servers, ClientLeaves(s) PROVE Members'
  BY <1>6 DEF ClientLeaves
<1>7. ASSUME NEW s \in Servers, SocketStep(s) PROVE Members'
  <2>1. CASE AcceptFails(s) \/ Destroy(s)
    BY <2>1 DEF AcceptFails, Destroy
  <2>2. CASE ~(AcceptFails(s) \/ Destroy(s))
    BY <1>7, <2>2
    DEF SocketStep, MakeSocket, BindSocket, PassiveFails, ListenSocket, Returns, Accept
  <2> QED
    BY <2>1, <2>2
<1>8. CASE UNCHANGED vars \/ \E n \in Ports : SetPort(n)
  BY <1>8 DEF vars, SetPort, loop
<1> QED
  BY <1>1, <1>2, <1>3, <1>4, <1>5, <1>6, <1>7, <1>8 DEF Next, LoopNext, Serve

LEMMA CountStep == IInv /\ ServersAreCounted /\ [Next]_vars => ServersAreCounted'
<1> SUFFICES ASSUME IInv, ServersAreCounted, [Next]_vars PROVE ServersAreCounted'
  OBVIOUS
<1> USE DEF ServersAreCounted, At, GoTo
<1>0. /\ pc \in [Servers -> {"idle", "bind", "listen", "recv", "process", "send", "exit"}]
      /\ IsFiniteSet(InStartServer)
  BY ServerAssumption, FS_Subset DEF IInv, Typed, InStartServer
<1>1. ASSUME NEW s \in Servers, StartServer(s) PROVE ServersAreCounted'
  <2>1. s \notin InStartServer /\ InStartServer' = InStartServer \union {s}
    BY <1>0, <1>1 DEF StartServer, InStartServer
  <2>2. serverNum' = serverNum + 1
    BY <1>1 DEF StartServer
  <2> QED
    BY <1>0, <2>1, <2>2, FS_AddElement
<1>2. ASSUME NEW s \in Servers, StopServer(s) PROVE ServersAreCounted'
  <2>1. s \in InStartServer /\ InStartServer' = InStartServer \ {s}
    BY <1>0, <1>2 DEF StopServer, InStartServer
  <2>2. serverNum' = serverNum - 1
    BY <1>2 DEF StopServer
  <2> QED
    BY <1>0, <2>1, <2>2, FS_RemoveElement
<1>3. ASSUME UNCHANGED <<pc, serverNum>> PROVE ServersAreCounted'
  BY <1>3 DEF InStartServer
<1>4. ASSUME NEW s \in Servers, Serve(s), ~StopServer(s) PROVE ServersAreCounted'
  <2>1. /\ serverNum' = serverNum /\ s \in InStartServer
        /\ pc' = pc \/ \E p \in {"recv", "process", "send", "exit"} : pc' = [pc EXCEPT ![s] = p]
    BY <1>4
    DEF Serve, Receive, ReceiveNothing, ProcessAnswers, Process, SendAnswer, SendKills,
        InStartServer
  <2>2. InStartServer' = InStartServer
    BY <1>0, <2>1 DEF InStartServer
  <2> QED
    BY <2>1, <2>2
<1>5. ASSUME NEW s \in Servers, SocketStep(s) PROVE ServersAreCounted'
  <2>1. /\ serverNum' = serverNum /\ s \notin InStartServer
        /\ pc' = pc \/ \E p \in {"idle", "bind", "listen"} : pc' = [pc EXCEPT ![s] = p]
    BY <1>5
    DEF SocketStep, MakeSocket, BindSocket, PassiveFails, ListenSocket, Returns, Accept,
        AcceptFails, Destroy, InStartServer
  <2>2. InStartServer' = InStartServer
    BY <1>0, <2>1 DEF InStartServer
  <2> QED
    BY <2>1, <2>2
<1>6. ASSUME NEW s \in Servers, ClientSends(s) \/ ClientLeaves(s) PROVE ServersAreCounted'
  BY <1>3, <1>6 DEF ClientSends, ClientLeaves
<1>7. CASE UNCHANGED vars \/ \E n \in Ports : SetPort(n)
  BY <1>3, <1>7 DEF vars, SetPort, loop
<1> QED
  BY <1>1, <1>2, <1>4, <1>5, <1>6, <1>7 DEF Next, LoopNext

LEMMA SpecCounted == Spec => [](IInv /\ Members /\ ServersAreCounted)
<1>1. Init => Members /\ ServersAreCounted
  <2> SUFFICES ASSUME Init PROVE Members /\ ServersAreCounted
    OBVIOUS
  <2>1. InStartServer = {}
    BY DEF Init, LoopInit, InStartServer
  <2> QED
    BY <2>1, FS_EmptySet, ServerAssumption
    DEF Init, LoopInit, Members, ServersAreCounted, NoAnswer
<1> QED
  BY <1>1, MembersStep, CountStep, SpecIInv, PTL DEF Spec

\* For any number of servers, serverNum counts those that are in startServer: no start,
\* however it ends, leaves the count too high or too low (Server.cpp:165-173, 207-211).
THEOREM RunningServersAreCounted == Spec => []ServersAreCounted
  BY SpecCounted, PTL

\* The variables of the loop keep their types; serverNum is at most the number of servers.
THEOREM ServersTypeCorrect == Spec => []TypeOK
<1>1. IInv /\ Members /\ ServersAreCounted => TypeOK
  <2> SUFFICES ASSUME IInv, Members, ServersAreCounted PROVE TypeOK
    OBVIOUS
  <2>1. /\ Cardinality(Servers) \in Nat
        /\ Cardinality(InStartServer) \in 0..Cardinality(Servers)
    BY ServerAssumption, FS_CardinalityType, FS_Subset DEF InStartServer
  <2>2. \A s \in Servers : unread[s] \in 0..requests[s] /\ answer[s].size \in Nat
    BY ServerAssumption DEF Members
  <2> QED
    BY <2>1, <2>2 DEF IInv, Typed, Members, ServersAreCounted, TypeOK
<1> QED
  BY <1>1, SpecCounted, PTL
-----------------------------------------------------------------------------
\* How start comes to its end.

\* How far a server is from the end of start, if its client falls silent: a round of the
\* loop takes some of what is unread, and then only has a few steps to go.
Remaining(s) ==
  CASE pc[s] = "process" -> 5 * unread[s] + 4
    [] pc[s] = "send"    -> 5 * unread[s] + 3
    [] pc[s] = "recv"    -> 5 * unread[s] + 2
    [] pc[s] = "exit"    -> 1
    [] OTHER             -> 0

\* A server in startServer comes nearer to the end with each step of its own, or the process
\* goes down with it, and nobody but its client takes it further away.
ComesToItsEnd ==
  \A s \in InStartServer :
    /\ Remaining(s)' \in Nat
    /\ Serve(s) => ~alive' \/ Remaining(s)' < Remaining(s)
    /\ Remaining(s)' <= Remaining(s) \/ ClientSends(s)

\* With any number of servers that come and go, and whatever parts of its requests recv gives
\* and the answers do (Server.cpp:130-163): the half of StartReturns that needs no fairness.
THEOREM StartComesToItsEnd == Spec => [][ComesToItsEnd]_vars
<1>1. ASSUME Typed, Members, Members', [Next]_vars, NEW s \in InStartServer
      PROVE  /\ Remaining(s)' \in Nat
             /\ Serve(s) => ~alive' \/ Remaining(s)' < Remaining(s)
             /\ Remaining(s)' <= Remaining(s) \/ ClientSends(s)
  <2>0. /\ s \in Servers /\ pc[s] \in {"recv", "process", "send", "exit"}
        /\ DOMAIN pc = Servers /\ DOMAIN unread = Servers
        /\ unread[s] \in Nat /\ unread'[s] \in Nat
    BY <1>1 DEF InStartServer, Typed, Members
  <2>1. Remaining(s) \in Nat /\ Remaining(s)' \in Nat
    BY <2>0 DEF Remaining
  <2>2. ASSUME pc'[s] = pc[s], unread'[s] <= unread[s] PROVE Remaining(s)' <= Remaining(s)
    BY <2>0, <2>2 DEF Remaining
  <2>3. ASSUME Serve(s) PROVE ~alive' \/ Remaining(s)' < Remaining(s)
    <3>1. CASE Receive(s)
      <4>1. pc[s] = "recv" /\ pc'[s] = "process"
        BY <2>0, <3>1 DEF Receive, At, GoTo
      <4>2. unread'[s] < unread[s]
        BY <2>0, <3>1 DEF Receive
      <4> QED
        BY <2>0, <4>1, <4>2 DEF Remaining
    <3>2. CASE ReceiveNothing(s) \/ ProcessAnswers(s) \/ Process(s) \/ SendAnswer(s) \/ StopServer(s)
      <4>1. /\ unread' = unread
            /\ \/ pc[s] = "recv" /\ pc'[s] = "exit"
               \/ pc[s] = "process" /\ pc'[s] \in {"send", "recv", "exit"}
               \/ pc[s] = "send" /\ pc'[s] \in {"recv", "exit"}
               \/ pc[s] = "exit" /\ pc'[s] = "idle"
        BY <2>0, <3>2
        DEF ReceiveNothing, ProcessAnswers, Process, SendAnswer, StopServer, At, GoTo
      <4> QED
        BY <2>0, <4>1 DEF Remaining
    <3>3. CASE SendKills(s)
      BY <3>3 DEF SendKills
    <3> QED
      BY <2>3, <3>1, <3>2, <3>3 DEF Serve
  <2>4. Remaining(s)' <= Remaining(s) \/ ClientSends(s)
    <3>1. CASE Serve(s)
      <4>1. CASE SendKills(s)
        BY <2>2, <2>0, <4>1 DEF SendKills
      <4>2. CASE Receive(s)
        <5>1. pc[s] = "recv" /\ pc'[s] = "process"
          BY <2>0, <4>2 DEF Receive, At, GoTo
        <5>2. unread'[s] < unread[s]
          BY <2>0, <4>2 DEF Receive
        <5> QED
          BY <2>0, <5>1, <5>2 DEF Remaining
      <4>3. CASE ~SendKills(s) /\ ~Receive(s)
        BY <2>0, <3>1, <4>3
        DEF Serve, Remaining, ReceiveNothing, ProcessAnswers, Process, SendAnswer, StopServer,
            At, GoTo
      <4> QED
        BY <4>1, <4>2, <4>3
    <3>2. ASSUME NEW u \in Servers, u # s, Serve(u) \/ ClientSends(u) \/ ClientLeaves(u)
          PROVE  pc'[s] = pc[s] /\ unread'[s] = unread[s]
      BY <2>0, <3>2
      DEF Serve, Receive, ReceiveNothing, ProcessAnswers, Process, SendAnswer, SendKills,
          StopServer, GoTo, ClientSends, ClientLeaves
    <3>3. CASE ClientLeaves(s)
      <4>1. pc' = pc /\ unread'[s] \in {0, unread[s]}
        BY <2>0, <3>3 DEF ClientLeaves
      <4> QED
        BY <2>0, <2>2, <4>1
    <3>4. ASSUME NEW u \in Servers, StartServer(u) \/ SocketStep(u)
          PROVE  pc'[s] = pc[s] /\ unread'[s] = unread[s]
      <4>1. u # s
        BY <2>0, <3>4
        DEF StartServer, SocketStep, MakeSocket, BindSocket, PassiveFails, ListenSocket,
            Accept, AcceptFails, Destroy, At
      <4> QED
        BY <2>0, <3>4, <4>1
        DEF StartServer, SocketStep, MakeSocket, BindSocket, PassiveFails, ListenSocket,
            Returns, Accept, AcceptFails, Destroy, GoTo
    <3>5. ASSUME UNCHANGED vars \/ \E n \in Ports : SetPort(n)
          PROVE  pc'[s] = pc[s] /\ unread'[s] = unread[s]
      BY <3>5 DEF vars, loop, SetPort
    <3> QED
      BY <1>1, <2>0, <2>2, <3>1, <3>2, <3>3, <3>4, <3>5 DEF Next, LoopNext
  <2> QED
    BY <2>1, <2>3, <2>4
<1>2. IInv /\ Members /\ Members' /\ [Next]_vars => [ComesToItsEnd]_vars
  BY <1>1 DEF IInv, ComesToItsEnd
<1> QED
  BY <1>2, SpecCounted, PTL DEF Spec
=============================================================================
