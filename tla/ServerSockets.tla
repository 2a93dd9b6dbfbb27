--------------------------- MODULE ServerSockets ---------------------------
(***************************************************************************)
(* Server.cpp with tcp-utils.cpp: where a server has its client from.  Its       *)
(* getPassiveSock makes a listening socket of the port of its class, acceptSock   *)
(* puts the client's socket in its place, and the destructor closes what there    *)
(* then is.  The order of the calls is the caller's, who is not written yet: any.   *)
(* An object that is gone makes room for another one with the same name.         *)
(*                                                                           *)
(* The kernel gives the lowest free descriptor, and refuses to bind a port on     *)
(* which any socket is, a client's too, as none has SO_REUSEADDR.                *)
(***************************************************************************)
EXTENDS ServerLoop

CONSTANTS
  Ports,   \* what FileServ::setPort is given
  MaxFd    \* the last descriptor the process may have

ASSUME SocketAssumption == Ports # {} /\ MaxFd \in Nat

VARIABLES
  port,      \* the port of the class
  sock,      \* the kernel's sockets, by descriptor
  sockfd,    \* the member of each server: a descriptor, or a negative number
  sd,        \* passivesockaux's socket
  accepted   \* how many clients were accepted at each port

sockets == <<port, sock, sockfd, sd, accepted>>
vars    == <<loop, sockets>>

Fds == 0..MaxFd
Error == -1       \* also err_sock, err_bind and err_listen

Free == [is |-> "free", port |-> 0]

\* The state of the socket that s has, if any.
Has(s) == IF sockfd[s] = Error THEN "none" ELSE sock[sockfd[s]].is

\* A socket takes the lowest free descriptor, if there is one.
NextFd(fd) == sock[fd] = Free /\ \A n \in 0..(fd - 1) : sock[n] # Free

-----------------------------------------------------------------------------
\* The port.

getPort == port

SetPort(n) ==
  /\ alive
  /\ port' = n
  /\ UNCHANGED <<loop, sock, sockfd, sd, accepted>>

-----------------------------------------------------------------------------
\* getPassiveSock, which does nothing if there is a socket, and passivesockaux.

MakeSocket(s) ==
  /\ At(s, "idle") /\ sockfd[s] = Error
  /\ \E fd \in Fds :
       /\ NextFd(fd)
       /\ sock' = [sock EXCEPT ![fd] = [is |-> "made", port |-> getPort]]
       /\ sd' = [sd EXCEPT ![s] = fd]
  /\ GoTo(s, "bind")
  /\ UNCHANGED <<alive, serverNum, conn, requests, unread, answer, port, sockfd, accepted>>

\* passivesockaux returns r.
Returns(s, r) ==
  /\ sockfd' = [sockfd EXCEPT ![s] = r]
  /\ sd' = [sd EXCEPT ![s] = Error]
  /\ GoTo(s, "idle")
  /\ UNCHANGED <<alive, serverNum, conn, requests, unread, answer, port, accepted>>

Taken(p) == \E fd \in Fds : sock[fd].is \notin {"free", "made"} /\ sock[fd].port = p

BindSocket(s) ==
  /\ At(s, "bind")
  /\ ~Taken(sock[sd[s]].port)
  /\ sock' = [sock EXCEPT ![sd[s]].is = "bound"]
  /\ GoTo(s, "listen")
  /\ UNCHANGED <<alive, serverNum, conn, requests, unread, answer, port, sockfd, sd, accepted>>

\* A slip: the socket is closed, and its number returned.
PassiveFailsStale(s) ==
  /\ alive /\ pc[s] \in {"bind", "listen"}
  /\ sock' = [sock EXCEPT ![sd[s]] = Free]
  /\ Returns(s, sd[s])

\* A slip: the socket is not closed.
PassiveFailsOpen(s) ==
  /\ alive /\ pc[s] \in {"bind", "listen"}
  /\ Returns(s, Error)
  /\ UNCHANGED sock

\* bind finds the port taken, here or by another process, or listen fails.
PassiveFails(s) ==
  /\ alive /\ pc[s] \in {"bind", "listen"}
  /\ sock' = [sock EXCEPT ![sd[s]] = Free]
  /\ Returns(s, Error)

ListenSocket(s) ==
  /\ At(s, "listen")
  /\ sock' = [sock EXCEPT ![sd[s]].is = "listening"]
  /\ Returns(s, sd[s])

-----------------------------------------------------------------------------
\* acceptSock.  Whatever accept returns replaces the listening socket.

\* A slip, or the repair: the listening socket is closed.
AcceptClosing(s) ==
  /\ At(s, "idle") /\ Has(s) = "listening"
  /\ sock' = [sock EXCEPT ![sockfd[s]].is = "client"]
  /\ conn' = [conn EXCEPT ![s] = "open"]
  /\ accepted' = [accepted EXCEPT ![sock[sockfd[s]].port] = @ + 1]
  /\ UNCHANGED <<alive, pc, serverNum, requests, unread, answer, port, sockfd, sd>>

Accept(s) ==
  /\ At(s, "idle") /\ Has(s) = "listening"
  /\ \E fd \in Fds :
       /\ NextFd(fd)
       /\ sock' = [sock EXCEPT ![fd] = [is |-> "client", port |-> sock[sockfd[s]].port]]
       /\ sockfd' = [sockfd EXCEPT ![s] = fd]
  /\ conn' = [conn EXCEPT ![s] = "open"]
  /\ accepted' = [accepted EXCEPT ![sock[sockfd[s]].port] = @ + 1]
  /\ UNCHANGED <<alive, pc, serverNum, requests, unread, answer, port, sd>>

\* The socket is a client's, there is no descriptor for another one, a signal interrupts
\* accept, or the client is gone before it is accepted.
AcceptFails(s) ==
  /\ At(s, "idle") /\ sockfd[s] # Error
  /\ sockfd' = [sockfd EXCEPT ![s] = Error]
  /\ conn' = [conn EXCEPT ![s] = "none"]
  /\ unread' = [unread EXCEPT ![s] = 0]
  /\ UNCHANGED <<alive, pc, serverNum, requests, answer, port, sock, sd, accepted>>

\* The destructor; the next server begins.
Destroy(s) ==
  /\ At(s, "idle") /\ sockfd[s] # Error
  /\ sock' = [sock EXCEPT ![sockfd[s]] = Free]
  /\ sockfd' = [sockfd EXCEPT ![s] = Error]
  /\ conn' = [conn EXCEPT ![s] = "none"]
  /\ unread' = [unread EXCEPT ![s] = 0]
  /\ UNCHANGED <<alive, pc, serverNum, requests, answer, port, sd, accepted>>

-----------------------------------------------------------------------------
Init ==
  /\ LoopInit
  /\ port \in Ports
  /\ sock = [fd \in Fds |-> Free]
  /\ sockfd = [s \in Servers |-> Error]
  /\ sd = [s \in Servers |-> Error]
  /\ accepted = [p \in Ports |-> 0]

SocketStep(s) ==
  \/ MakeSocket(s) \/ BindSocket(s) \/ PassiveFails(s) \/ ListenSocket(s)
  \/ Accept(s) \/ AcceptFails(s) \/ Destroy(s)

Next ==
  \/ LoopNext /\ UNCHANGED sockets
  \/ \E s \in Servers : SocketStep(s)
  \/ \E n \in Ports : SetPort(n)

Spec == Init /\ [][Next]_vars

\* A thread that is in startServer runs, but for one in a write that Blocks.
FairSpec ==
  Spec /\ \A s \in Servers : WF_vars(~Blocks(s) /\ Serve(s) /\ UNCHANGED sockets)

-----------------------------------------------------------------------------
\* Properties.

\* The descriptor that a server has is an open socket, of the right kind, and no other
\* server's: its destructor closes nobody else's (Server.cpp:179, 193, 203).
HoldsItsOwn ==
  /\ \A s \in Servers : Has(s) \in {"none", "listening", "client"}
  /\ \A s, t \in Servers : sockfd[s] # Error /\ s # t => sockfd[t] # sockfd[s]
  /\ \A s \in Servers : conn[s] # "none" <=> Has(s) = "client"

\* A port serves one client in the life of the process: acceptSock loses the listening
\* socket without closing it, so that nobody accepts the next, and the port cannot be
\* bound again (Server.cpp:193, tcp-utils.cpp:119).
PortServesOneClient == \A p \in Ports : accepted[p] <= 1

\* The sockets that nobody can close any more.
Lost == {fd \in Fds : sock[fd] # Free /\ \A s \in Servers : fd \notin {sockfd[s], sd[s]}}

\* Only acceptSock loses sockets: no failure of passivesockaux, no destructor and no end
\* of start does, in whatever order they come (tcp-utils.cpp:119-127, Server.cpp:200-205).
OnlyAcceptLoses ==
  [][\A fd \in Lost' \ Lost : \E s \in Servers : Accept(s) \/ AcceptFails(s)]_vars

=============================================================================
