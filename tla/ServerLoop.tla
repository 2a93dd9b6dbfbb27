----------------------------- MODULE ServerLoop -----------------------------
(***************************************************************************)
(* Server.cpp: a server's thread counts itself, serves its client until that    *)
(* falls silent or is gone, and leaves the count.  A round of start takes what    *)
(* recv gives, lets processData (virtual, and defined nowhere) make an answer of  *)
(* it or none, and sends the answer.  Of an answer matters how long its parts are. *)
(* ServerSockets says where a server has its client from.                        *)
(***************************************************************************)
EXTENDS Integers, FiniteSets

CONSTANTS
  Servers,      \* the servers, each with its thread and its client
  CodeDigits,   \* how many digits, with the sign, the codes of answers have
  DataLengths,  \* how long their texts are
  SendSpace,    \* how much a socket takes that poll calls writable, if nobody reads
  MaxRequests   \* bound: what the clients of a server send

ASSUME ServerAssumption ==
  /\ IsFiniteSet(Servers)
  /\ CodeDigits \subseteq Nat \ {0} /\ DataLengths \subseteq Nat
  /\ SendSpace \in Nat /\ MaxRequests \in Nat

VARIABLES
  alive,      \* FALSE once the process is gone
  pc,         \* each server's point
  serverNum,  \* the count of running servers
  conn,       \* the client of each server: "none", "open" or "gone"
  requests,   \* how many requests the clients of each server sent
  unread,     \* how many of them recv has yet to give
  answer      \* the answer that each server is about to send

loop == <<alive, pc, serverNum, conn, requests, unread, answer>>

At(s, p) == alive /\ pc[s] = p
GoTo(s, p) == pc' = [pc EXCEPT ![s] = p]

\* startServer, up to its call of start.
StartServer(s) ==
  /\ At(s, "idle")
  /\ serverNum' = serverNum + 1
  /\ GoTo(s, "recv")
  /\ UNCHANGED <<alive, conn, requests, unread, answer>>

\* poll finds data, and recv gives any part of what there is.  The buffer is one char,
\* so that recv writes behind it: the process may not survive that.
Receive(s) ==
  /\ At(s, "recv")
  /\ \E n \in 0..(unread[s] - 1) : unread' = [unread EXCEPT ![s] = n]
  /\ alive' \in BOOLEAN
  /\ GoTo(s, "process")
  /\ UNCHANGED <<serverNum, conn, requests, answer>>

\* A slip: recv's 0 for a client that has gone is taken for data.
ReceiveNothingGoesOn(s) ==
  /\ At(s, "recv")
  /\ unread[s] = 0
  /\ GoTo(s, IF conn[s] = "gone" THEN "process" ELSE "exit")
  /\ UNCHANGED <<alive, serverNum, conn, requests, unread, answer>>

\* The 30 ms are over, or the client is gone and recv gives 0 or -1.
ReceiveNothing(s) ==
  /\ At(s, "recv")
  /\ unread[s] = 0
  /\ GoTo(s, "exit")
  /\ UNCHANGED <<alive, serverNum, conn, requests, unread, answer>>

-----------------------------------------------------------------------------
\* The answers.

\* How long the name of each status is.
statusToString == [OK |-> 2, ERR |-> 3, FAIL |-> 4, SYNC_FAIL |-> 9, SYNC_READ |-> 9,
                   SYNC_WRITE |-> 10, SYNC_SEEK |-> 9, SYNC_CLOSE |-> 10, SYNC_OPEN |-> 9]

Messages == [status : DOMAIN statusToString, digits : CodeDigits, length : DataLengths]

\* A slip: the status is forgotten.
getMessageSizeOfRest(m) == 1 + m.digits + 1 + m.length + 1

\* The status, a space, the code, a space, the text and a NUL.
getMessageSize(m) == statusToString[m.status] + 1 + m.digits + 1 + m.length + 1

\* What toCString puts at the start of its buffer of one char: the status and a NUL, for
\* the sums with the code and the text are thrown away.
toCString(m) == statusToString[m.status] + 1

NoAnswer == [own |-> 0, size |-> 0]

\* processData makes a message, of which toCString writes more than its buffer holds, ...
ProcessAnswers(s) ==
  /\ At(s, "process")
  /\ \E m \in Messages :
       answer' = [answer EXCEPT ![s] = [own |-> toCString(m), size |-> getMessageSize(m)]]
  /\ alive' \in BOOLEAN
  /\ GoTo(s, "send")
  /\ UNCHANGED <<serverNum, conn, requests, unread>>

\* ... no message of the request, or one without data, for which toCString has no string.
Process(s) ==
  /\ At(s, "process")
  /\ \E p \in {"recv", "exit"} : GoTo(s, p)
  /\ UNCHANGED <<alive, serverNum, conn, requests, unread, answer>>

\* The socket blocks: a write of more than it takes waits for the client to read.
Blocks(s) == pc[s] = "send" /\ answer[s].size > SendSpace /\ conn[s] = "open"

\* non_blocking_send: the answer is written (or, if poll reports an error instead of
\* POLLOUT, dropped without one), or there is no room for it within 30 ms.  What Blocks is
\* done when the client reads, which it need not.
SendAnswer(s) ==
  /\ At(s, "send")
  /\ \E p \in {"recv", "exit"} : GoTo(s, p)
  /\ answer' = [answer EXCEPT ![s] = NoAnswer]
  /\ UNCHANGED <<alive, serverNum, conn, requests, unread>>

\* SIGPIPE, which nobody catches, if the client is gone.
SendKills(s) ==
  /\ At(s, "send")
  /\ conn[s] = "gone"
  /\ alive' = FALSE
  /\ UNCHANGED <<pc, serverNum, conn, requests, unread, answer>>

\* start returns to startServer; the broadcast of decrementServerNum has no waiter.
StopServer(s) ==
  /\ At(s, "exit")
  /\ serverNum' = serverNum - 1
  /\ GoTo(s, "idle")
  /\ UNCHANGED <<alive, conn, requests, unread, answer>>

ClientSends(s) ==
  /\ conn[s] = "open" /\ requests[s] < MaxRequests
  /\ requests' = [requests EXCEPT ![s] = @ + 1]
  /\ unread' = [unread EXCEPT ![s] = @ + 1]
  /\ UNCHANGED <<alive, pc, serverNum, conn, answer>>

\* A client that breaks its connection off takes what is unread along.
ClientLeaves(s) ==
  /\ conn[s] = "open"
  /\ conn' = [conn EXCEPT ![s] = "gone"]
  /\ \E n \in {0, unread[s]} : unread' = [unread EXCEPT ![s] = n]
  /\ UNCHANGED <<alive, pc, serverNum, requests, answer>>

LoopInit ==
  /\ alive = TRUE
  /\ pc = [s \in Servers |-> "idle"]
  /\ serverNum = 0
  /\ conn = [s \in Servers |-> "none"]
  /\ requests = [s \in Servers |-> 0]
  /\ unread = [s \in Servers |-> 0]
  /\ answer = [s \in Servers |-> NoAnswer]

\* What the thread of a server does once it is in startServer.
Serve(s) ==
  \/ Receive(s) \/ ReceiveNothing(s) \/ ProcessAnswers(s) \/ Process(s)
  \/ SendAnswer(s) \/ SendKills(s) \/ StopServer(s)

LoopNext == \E s \in Servers : StartServer(s) \/ Serve(s) \/ ClientSends(s) \/ ClientLeaves(s)

-----------------------------------------------------------------------------
\* Properties.

\* Every variable has its type.
TypeOK ==
  /\ alive \in BOOLEAN
  /\ pc \in [Servers -> {"idle", "bind", "listen", "recv", "process", "send", "exit"}]
  /\ serverNum \in 0..Cardinality(Servers)
  /\ conn \in [Servers -> {"none", "open", "gone"}]
  /\ requests \in [Servers -> 0..MaxRequests]
  /\ \A s \in Servers : unread[s] \in 0..requests[s] /\ answer[s].size \in Nat

\* What is sent holds the status and its NUL whatever the answer, but neither code nor
\* text: as many bytes as those have come from behind the buffer (Server.cpp:47-54, 118-122).
StatusArrivesWhole ==
  \A s \in Servers :
    pc[s] = "send" => /\ answer[s].own <= answer[s].size
                      /\ answer[s].size - answer[s].own >= 3

\* Whatever the client does, start returns once that has no more to say (Server.cpp:66-71,
\* 145-158), unless it is in a write of more than the socket takes (line 105), which lasts
\* until the client reads or leaves.
StartReturns ==
  \A s \in Servers : pc[s] = "recv" ~> pc[s] = "idle" \/ ~alive \/ Blocks(s)

=============================================================================
