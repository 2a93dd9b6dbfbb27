------------------------------ MODULE MainLoop ------------------------------
(***************************************************************************)
(* main.cpp: main reads its options, makes a listening socket for the shell    *)
(* and one for the files, and accepts clients on both for ever.  What is to      *)
(* happen with a client is a comment in the code (`handle shell'), so that its   *)
(* socket is neither used nor closed, and its number is overwritten by the next. *)
(*                                                                           *)
(* The ports are left out: as no client is served, it makes no difference to the   *)
(* loop which service a client meant.  (htons takes an option modulo 65536, and    *)
(* `SO_REUSEADDR | SO_REUSEPORT' is 2 | 15, SO_REUSEPORT alone, so both sockets     *)
(* may have one port; the kernel then chooses the socket.)                       *)
(*                                                                           *)
(* select calls a socket readable that has a client in its queue or does not      *)
(* listen.                                                                     *)
(***************************************************************************)
EXTENDS Integers, Sequences

CONSTANTS
  Clients,
  Backlogs,    \* the values of option -T, with the default, as listen takes them: a
               \* negative number is a queue without end to it
  MaxUsed,     \* how many descriptors the process may have
  MaxOptions   \* bound: options on the command line

ASSUME MainAssumption ==
  /\ 20 \in Backlogs /\ Backlogs \subseteq Nat
  /\ MaxUsed \in Nat \ {0, 1} /\ MaxOptions \in Nat

VARIABLES
  pc,          \* main's point
  options,     \* how many options were read
  max_thread,
  listening,   \* the services whose sockets listen
  read_fds,    \* the services whose sockets select found readable
  addrFits,    \* whether the uninitialised addr_size is one that accept takes
  used,        \* descriptors in use
  queue,       \* the connections that each listening socket has
  client       \* what became of each client

config == <<options, max_thread>>
net    == <<queue, client>>
vars   == <<pc, config, listening, read_fds, addrFits, used, net>>

Services == {"shell", "file"}

At(p) == pc = p
GoTo(p) == pc' = p

-----------------------------------------------------------------------------
\* The options.

\* -T sets max_thread; the other options set a port or what nothing reads.
ReadOption ==
  /\ At("options") /\ options < MaxOptions
  /\ max_thread' \in Backlogs \union {max_thread}
  /\ options' = options + 1
  /\ UNCHANGED <<pc, listening, read_fds, addrFits, used, net>>

\* An option that getopt does not know, and -p, which falls through to the same text.
Usage ==
  /\ At("options")
  /\ GoTo("exit")
  /\ UNCHANGED <<config, listening, read_fds, addrFits, used, net>>

-----------------------------------------------------------------------------
\* The sockets.

\* socket and setsockopt, for both; after a failure the program ends.
MakeSockets ==
  /\ At("options")
  /\ \/ GoTo("bind") /\ used' = used + 2
     \/ GoTo("exit") /\ UNCHANGED used
  /\ UNCHANGED <<config, listening, read_fds, addrFits, net>>

\* Both are bound before either result is looked at.  Another process may have a port.
Bind ==
  /\ At("bind")
  /\ GoTo("listen") \/ GoTo("exit")
  /\ UNCHANGED <<config, listening, read_fds, addrFits, used, net>>

\* A socket that fails to listen is passed over in silence.
Listen ==
  /\ At("listen")
  /\ listening' \in SUBSET Services
  /\ GoTo("select")
  /\ UNCHANGED <<config, read_fds, addrFits, used, net>>

-----------------------------------------------------------------------------
\* The loop.

Readable == {s \in Services : queue[s] # <<>> \/ s \notin listening}

Select ==
  /\ At("select")
  /\ Readable # {}
  /\ read_fds' = Readable
  /\ GoTo("shell")
  /\ UNCHANGED <<config, listening, addrFits, used, net>>

SelectFails ==
  /\ At("select")
  /\ GoTo("exit")
  /\ UNCHANGED <<config, listening, read_fds, addrFits, used, net>>

Full == used >= MaxUsed

\* The point after the test of a socket.  The slip: the second `if' is an `else if'.
AfterElse(s) == IF s \in read_fds THEN "select" ELSE "file"
After(s) == IF s = "shell" THEN "file" ELSE "select"

\* What one more client costs.  The repair: its descriptor is closed again.
CostClosed == 0
Cost == 1

\* accept takes the first connection.  If it cannot write the client's address, it
\* closes the connection again; the client may have left long before.
Accept(s) ==
  LET fate == IF addrFits THEN "served" ELSE "dropped"
  IN  /\ At(s) /\ s \in read_fds
      /\ s \in listening /\ ~Full
      /\ queue' = [queue EXCEPT ![s] = Tail(@)]
      /\ client' = [client EXCEPT ![Head(queue[s])] = IF @ = "waits" THEN fate ELSE @]
      /\ used' = IF addrFits THEN used + Cost ELSE used
      /\ GoTo(After(s))
      /\ UNCHANGED <<config, listening, read_fds, addrFits>>

\* accept finds no descriptor for the client, or its socket does not listen; or select
\* did not name it.
PassBy(s) ==
  /\ At(s)
  /\ s \notin read_fds \/ s \notin listening \/ Full
  /\ GoTo(After(s))
  /\ UNCHANGED <<config, listening, read_fds, addrFits, used, net>>

-----------------------------------------------------------------------------
\* The clients.

Queued(c, s) == \E i \in DOMAIN queue[s] : queue[s][i] = c

\* A client reaches a socket that listens.
Connect(c) ==
  /\ pc # "exit"
  /\ client[c] = "away" /\ \A s \in Services : ~Queued(c, s)
  /\ \E s \in listening :
       /\ Len(queue[s]) <= max_thread
       /\ queue' = [queue EXCEPT ![s] = Append(@, c)]
  /\ client' = [client EXCEPT ![c] = "waits"]
  /\ UNCHANGED <<pc, config, listening, read_fds, addrFits, used>>

\* Main does not notice: the connection stays in its queue, or keeps its descriptor.
Leave(c) ==
  /\ client[c] # "away"
  /\ client' = [client EXCEPT ![c] = "away"]
  /\ UNCHANGED <<pc, config, listening, read_fds, addrFits, used, queue>>

-----------------------------------------------------------------------------
Init ==
  /\ pc = "options" /\ options = 0
  /\ max_thread = 20
  /\ listening = {} /\ read_fds = {}
  /\ addrFits \in BOOLEAN
  /\ used = 0
  /\ queue = [s \in Services |-> <<>>]
  /\ client = [c \in Clients |-> "away"]

SetUp == ReadOption \/ Usage \/ MakeSockets \/ Bind \/ Listen

Loop == Select \/ SelectFails \/ \E s \in Services : Accept(s) \/ PassBy(s)

Next ==
  \/ SetUp \/ Loop
  \/ \E c \in Clients : Connect(c) \/ Leave(c)

Spec == Init /\ [][Next]_vars

\* Main runs.  Clients that were accepted or dropped leave in the end, and come again.
FairSpec ==
  /\ Spec
  /\ WF_vars(SetUp) /\ WF_vars(Loop)
  /\ \A c \in Clients : WF_vars(Connect(c))
  /\ \A c \in Clients : WF_vars(client[c] \in {"served", "dropped"} /\ Leave(c))

-----------------------------------------------------------------------------
\* Properties.

\* Every variable has its type.
TypeOK ==
  /\ pc \in {"options", "bind", "listen", "select", "exit"} \union Services
  /\ options \in 0..MaxOptions
  /\ max_thread \in Backlogs
  /\ listening \subseteq Services /\ read_fds \subseteq Services
  /\ addrFits \in BOOLEAN
  /\ used \in 0..MaxUsed
  /\ client \in [Clients -> {"away", "waits", "served", "dropped"}]
  /\ \A s \in Services :
       /\ queue[s] \in Seq(Clients)
       /\ s \notin listening => queue[s] = <<>>

\* Each connection is taken out of its queue, however much the other socket has to do
\* and if that one failed to listen, as long as there are descriptors (main.cpp:195-203).
EveryClientIsTaken ==
  \A c \in Clients, s \in Services :
    Queued(c, s) ~> ~Queued(c, s) \/ Full \/ pc = "exit"

\* Nothing closes what accept returned (main.cpp:196-202): clients that come and go, one
\* after the other, use up the descriptors, and main then spins around the next in the queue.
RunsOutOfDescriptors ==
  <>[](Full \/ pc = "exit" \/ ~addrFits \/ listening = {})

=============================================================================
