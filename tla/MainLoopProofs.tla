--------------------------- MODULE MainLoopProofs ---------------------------
(***************************************************************************)
(* For any clients, backlogs and descriptors: the turn of a client in a queue comes, *)
(* whatever goes on at the other socket, as long as there are descriptors.         *)
(*                                                                           *)
(* The inductive invariant says that nobody connects before main listens, and that   *)
(* what select found in a queue is still there when accept comes to it.             *)
(***************************************************************************)
EXTENDS MainLoop, TLAPS

Typed ==
  /\ listening \subseteq Services
  /\ queue \in [Services -> Seq(Clients)]

NobodyIsEarly ==
  pc \in {"options", "bind", "listen"} =>
    listening = {} /\ \A s \in Services : queue[s] = <<>>

\* What select found in a queue is there when accept comes to it.
FoundIsThere ==
  /\ pc = "shell" => \A s \in read_fds \intersect listening : queue[s] # <<>>
  /\ pc = "file" => ("file" \in read_fds \intersect listening => queue["file"] # <<>>)

IInv == Typed /\ NobodyIsEarly /\ FoundIsThere

LEMMA InitIInv == Init => IInv
  BY DEF Init, IInv, Typed, NobodyIsEarly, FoundIsThere

\* What is left of a queue when its first connection is taken.
LEMMA TailOf ==
  ASSUME NEW S, NEW q \in Seq(S), q # <<>>
  PROVE  Tail(q) \in Seq(S) /\ Head(q) \in S
  OBVIOUS

LEMMA AppendTo ==
  ASSUME NEW S, NEW q \in Seq(S), NEW e \in S
  PROVE  Append(q, e) \in Seq(S) /\ Append(q, e) # <<>>
<1>1. Append(q, e) \in Seq(S) /\ Len(Append(q, e)) = Len(q) + 1
  OBVIOUS
<1>2. Len(<<>>) = 0 /\ Len(q) + 1 # 0
  OBVIOUS
<1> QED
  BY <1>1, <1>2

LEMMA NextIInv == IInv /\ [Next]_vars => IInv'
<1> SUFFICES ASSUME IInv, [Next]_vars PROVE IInv'
  OBVIOUS
<1> USE DEF IInv
<1>1. CASE ReadOption \/ Usage \/ MakeSockets \/ Bind
  <2>1. /\ UNCHANGED <<listening, queue>>
        /\ pc \in {"options", "bind", "listen"} /\ pc' \notin Services
    BY <1>1 DEF ReadOption, Usage, MakeSockets, Bind, At, GoTo, Services, net
  <2> QED
    BY <2>1 DEF Typed, NobodyIsEarly, FoundIsThere, Services
<1>2. CASE Listen
  BY <1>2 DEF Listen, At, GoTo, net, Typed, NobodyIsEarly, FoundIsThere
<1>3. CASE Select \/ SelectFails \/ \E s \in Services : PassBy(s)
  <2>1. UNCHANGED <<listening, queue>> /\ pc' \notin {"options", "bind", "listen"}
    BY <1>3 DEF Select, SelectFails, PassBy, At, GoTo, After, net
  <2>2. FoundIsThere'
    <3>1. CASE Select
      BY <3>1 DEF Select, GoTo, Readable, FoundIsThere, Typed, net
    <3>2. CASE SelectFails \/ \E s \in Services : PassBy(s)
      BY <3>2 DEF SelectFails, PassBy, At, GoTo, After, FoundIsThere, Services, net
    <3> QED
      BY <1>3, <3>1, <3>2
  <2> QED
    BY <2>1, <2>2 DEF Typed, NobodyIsEarly
<1>4. ASSUME NEW s \in Services, Accept(s) PROVE IInv'
  <2>1. /\ UNCHANGED <<listening, read_fds>> /\ pc = s /\ pc' = After(s)
        /\ queue' = [queue EXCEPT ![s] = Tail(queue[s])]
    BY <1>4 DEF Accept, At, GoTo
  <2>2. queue[s] # <<>> /\ queue[s] \in Seq(Clients)
    BY <1>4 DEF Accept, At, FoundIsThere, Services, Typed
  <2>3. Typed'
    BY <2>1, <2>2, TailOf DEF Typed
  <2>4. NobodyIsEarly'
    BY <2>1 DEF After, NobodyIsEarly, Services
  <2>5. FoundIsThere'
    BY <2>1 DEF After, FoundIsThere, Services, Typed
  <2> QED
    BY <2>3, <2>4, <2>5
<1>5. ASSUME NEW c \in Clients, Connect(c) PROVE IInv'
  <2>1. PICK s \in listening : queue' = [queue EXCEPT ![s] = Append(queue[s], c)]
    BY <1>5 DEF Connect
  <2>2. UNCHANGED <<pc, listening, read_fds>> /\ s \in Services
    BY <1>5 DEF Connect, Typed
  <2>3. Append(queue[s], c) \in Seq(Clients) /\ Append(queue[s], c) # <<>>
    BY <2>2, AppendTo DEF Typed
  <2>4. Typed' /\ FoundIsThere'
    BY <2>1, <2>2, <2>3 DEF Typed, FoundIsThere
  <2>5. NobodyIsEarly'
    BY <2>1, <2>2 DEF NobodyIsEarly
  <2> QED
    BY <2>4, <2>5
<1>6. CASE UNCHANGED vars \/ \E c \in Clients : Leave(c)
  <2>1. UNCHANGED <<pc, listening, read_fds, queue>>
    BY <1>6 DEF Leave, vars, net
  <2> QED
    BY <2>1 DEF Typed, NobodyIsEarly, FoundIsThere
<1> QED
  BY <1>1, <1>2, <1>3, <1>4, <1>5, <1>6 DEF Next, SetUp, Loop

-----------------------------------------------------------------------------
\* Type correctness.  That no more descriptors are in use than there are needs that none
\* is while the options are read.

Members ==
  /\ pc \in {"options", "bind", "listen", "select", "exit", "shell", "file"}
  /\ options \in 0..MaxOptions
  /\ max_thread \in Backlogs
  /\ read_fds \subseteq Services /\ addrFits \in BOOLEAN
  /\ used \in 0..MaxUsed /\ (pc = "options" => used = 0)
  /\ client \in [Clients -> {"away", "waits", "served", "dropped"}]

\* Nobody is in the queue of a socket that does not listen.
NobodyWaitsInVain == \A s \in Services : s \notin listening => queue[s] = <<>>

TypeInv == IInv /\ Members /\ NobodyWaitsInVain

LEMMA InitTypeInv == Init => TypeInv
  BY InitIInv, MainAssumption DEF Init, TypeInv, Members, NobodyWaitsInVain, Services

LEMMA MembersStep == TypeInv /\ [Next]_vars => Members'
<1> SUFFICES ASSUME TypeInv, [Next]_vars PROVE Members'
  OBVIOUS
<1> USE MainAssumption DEF TypeInv, Members, At, GoTo, config, net
<1>1. CASE ReadOption
  BY <1>1 DEF ReadOption
<1>2. CASE Usage \/ MakeSockets \/ Bind
  BY <1>2 DEF Usage, MakeSockets, Bind
<1>3. CASE Listen
  BY <1>3 DEF Listen
<1>4. CASE Select \/ SelectFails
  BY <1>4 DEF Select, SelectFails, Readable
<1>5. ASSUME NEW s \in Services, PassBy(s) PROVE Members'
  BY <1>5 DEF PassBy, After, Services
<1>6. ASSUME NEW s \in Services, Accept(s) PROVE Members'
  <2>1. queue[s] # <<>> /\ queue[s] \in Seq(Clients)
    BY <1>6 DEF Accept, IInv, FoundIsThere, Services, Typed
  <2> DEFINE c    == Head(queue[s])
             fate == IF addrFits THEN "served" ELSE "dropped"
  <2>2. c \in Clients
    BY <2>1, TailOf
  <2>3. /\ client' = [client EXCEPT ![c] = IF @ = "waits" THEN fate ELSE @]
        /\ used < MaxUsed /\ used' \in {used, used + 1}
        /\ pc' \in {"file", "select"}
        /\ UNCHANGED <<options, max_thread, read_fds, addrFits>>
    BY <1>6 DEF Accept, Full, Cost, After
  <2> HIDE DEF c
  <2>4. client' \in [Clients -> {"away", "waits", "served", "dropped"}]
    BY <2>2, <2>3
  <2>5. used' \in 0..MaxUsed
    BY <2>3
  <2> QED
    BY <2>3, <2>4, <2>5
<1>7. ASSUME NEW c \in Clients, Connect(c) PROVE Members'
  BY <1>7 DEF Connect
<1>8. ASSUME NEW c \in Clients, Leave(c) PROVE Members'
  BY <1>8 DEF Leave
<1>9. CASE UNCHANGED vars
  BY <1>9 DEF vars
<1> QED
  BY <1>1, <1>2, <1>3, <1>4, <1>5, <1>6, <1>7, <1>8, <1>9 DEF Next, SetUp, Loop

LEMMA QueueStep == TypeInv /\ [Next]_vars => NobodyWaitsInVain'
<1> SUFFICES ASSUME TypeInv, [Next]_vars PROVE NobodyWaitsInVain'
  OBVIOUS
<1> USE DEF TypeInv, NobodyWaitsInVain, At, GoTo, config, net
<1>1. CASE Listen
  <2>1. \A s \in Services : queue[s] = <<>>
    BY <1>1 DEF Listen, IInv, NobodyIsEarly
  <2> QED
    BY <1>1, <2>1 DEF Listen
<1>2. ASSUME NEW s \in Services, Accept(s) PROVE NobodyWaitsInVain'
  <2>1. /\ s \in listening /\ UNCHANGED listening
        /\ queue' = [queue EXCEPT ![s] = Tail(queue[s])]
    BY <1>2 DEF Accept
  <2> QED
    BY <2>1 DEF IInv, Typed
<1>3. ASSUME NEW c \in Clients, Connect(c) PROVE NobodyWaitsInVain'
  <2>1. PICK s \in listening : queue' = [queue EXCEPT ![s] = Append(queue[s], c)]
    BY <1>3 DEF Connect
  <2>2. UNCHANGED listening
    BY <1>3 DEF Connect
  <2> QED
    BY <2>1, <2>2 DEF IInv, Typed
<1>4. ASSUME UNCHANGED <<listening, queue>> PROVE NobodyWaitsInVain'
  BY <1>4
<1>5. ReadOption \/ Usage \/ MakeSockets \/ Bind => UNCHANGED <<listening, queue>>
  BY DEF ReadOption, Usage, MakeSockets, Bind
<1>6. Select \/ SelectFails \/ (\E s \in Services : PassBy(s)) => UNCHANGED <<listening, queue>>
  BY DEF Select, SelectFails, PassBy
<1>7. (\E c \in Clients : Leave(c)) \/ UNCHANGED vars => UNCHANGED <<listening, queue>>
  BY DEF Leave, vars
<1> QED
  BY <1>1, <1>2, <1>3, <1>4, <1>5, <1>6, <1>7 DEF Next, SetUp, Loop

LEMMA NextTypeInv == TypeInv /\ [Next]_vars => TypeInv'
  BY MembersStep, QueueStep, NextIInv DEF TypeInv

\* Main's variables keep their types, whatever the options and the clients do: of the
\* MaxUsed descriptors no more are in use than there are, and only a socket that listens
\* has connections (main.cpp:176-203).
THEOREM MainTypeCorrect == Spec => []TypeOK
<1>1. TypeInv => TypeOK
  BY DEF TypeInv, Members, IInv, Typed, NobodyWaitsInVain, TypeOK, Services
<1> QED
  BY <1>1, InitTypeInv, NextTypeInv, PTL DEF Spec
-----------------------------------------------------------------------------
\* What the clients can count on, and for how long.

\* How many steps of the loop main is away from accepting from the socket of service s:
\* a round more if the last select did not name it.
Turn(s) ==
  CASE pc = "select" -> IF s = "shell" THEN 1 ELSE 2
    [] pc = "shell"  -> (IF s = "shell" THEN 0 ELSE 1) + (IF s \in read_fds THEN 0 ELSE 3)
    [] pc = "file"   -> IF s = "file" /\ s \in read_fds THEN 0 ELSE IF s = "file" THEN 3 ELSE 2
    [] OTHER         -> 0

\* Where a client waits and there are descriptors, each step of main takes the first of
\* the queue or brings its turn nearer; other clients only come in behind it.
TurnComes ==
  \A s \in Services : queue[s] # <<>> /\ ~Full =>
    IF Loop
      THEN \/ pc' = "exit"
           \/ queue'[s] = Tail(queue[s])
           \/ queue'[s] = queue[s] /\ Turn(s)' < Turn(s)
      ELSE /\ Turn(s)' = Turn(s)
           /\ queue'[s] = queue[s] \/ \E c \in Clients : queue'[s] = Append(queue[s], c)

\* Main at the test of a socket where somebody waits.
LEMMA PassStep ==
  ASSUME TypeInv, NEW s \in Services, queue[s] # <<>>, ~Full,
         NEW q \in Services, PassBy(q)
  PROVE  queue' = queue /\ Turn(s)' < Turn(s)
<1>1. s \in listening
  BY DEF TypeInv, NobodyWaitsInVain
<1>2. pc = q /\ pc' = After(q) /\ UNCHANGED <<queue, read_fds>>
  BY DEF PassBy, At, GoTo, net
<1>3. q = s => s \notin read_fds
  BY <1>1 DEF PassBy
<1>4. CASE q = "shell"
  BY <1>2, <1>3, <1>4 DEF After, Turn, Services
<1>5. CASE q = "file"
  BY <1>2, <1>3, <1>5 DEF After, Turn, Services
<1> QED
  BY <1>4, <1>5 DEF Services

LEMMA AcceptStep ==
  ASSUME TypeInv, NEW s \in Services, NEW q \in Services, Accept(q)
  PROVE  \/ q = s /\ queue'[s] = Tail(queue[s])
         \/ queue'[s] = queue[s] /\ Turn(s)' < Turn(s)
<1>1. /\ pc = q /\ pc' = After(q) /\ UNCHANGED read_fds
      /\ queue' = [queue EXCEPT ![q] = Tail(queue[q])]
  BY DEF Accept, At, GoTo
<1>2. DOMAIN queue = Services
  BY DEF TypeInv, IInv, Typed
<1>3. CASE q = s
  BY <1>1, <1>2, <1>3
<1>4. CASE q # s
  <2>1. queue'[s] = queue[s]
    BY <1>1, <1>2, <1>4
  <2>2. Turn(s)' < Turn(s)
    BY <1>1, <1>4 DEF After, Turn, Services
  <2> QED
    BY <2>1, <2>2
<1> QED
  BY <1>3, <1>4

LEMMA SelectStep ==
  ASSUME TypeInv, NEW s \in Services, queue[s] # <<>>, Select
  PROVE  queue' = queue /\ Turn(s)' < Turn(s)
<1>1. pc = "select" /\ pc' = "shell" /\ s \in read_fds' /\ queue' = queue
  BY DEF Select, At, GoTo, Readable, net
<1> QED
  BY <1>1 DEF Turn, Services

\* What the clients do.
LEMMA ClientsStep ==
  ASSUME TypeInv, [Next]_vars, ~Loop, NEW s \in Services, queue[s] # <<>>
  PROVE  /\ Turn(s)' = Turn(s)
         /\ queue'[s] = queue[s] \/ \E c \in Clients : queue'[s] = Append(queue[s], c)
<1>1. ~SetUp
  <2>1. pc \notin {"options", "bind", "listen"}
    BY DEF TypeInv, IInv, NobodyIsEarly
  <2> QED
    BY <2>1 DEF SetUp, ReadOption, Usage, MakeSockets, Bind, Listen, At
<1>2. ASSUME NEW c \in Clients, Connect(c)
      PROVE  /\ UNCHANGED <<pc, read_fds>>
             /\ queue'[s] = queue[s] \/ queue'[s] = Append(queue[s], c)
  <2>1. PICK at \in listening : queue' = [queue EXCEPT ![at] = Append(queue[at], c)]
    BY <1>2 DEF Connect
  <2>2. UNCHANGED <<pc, read_fds>>
    BY <1>2 DEF Connect
  <2>3. DOMAIN queue = Services
    BY DEF TypeInv, IInv, Typed
  <2> QED
    BY <2>1, <2>2, <2>3
<1>3. ASSUME UNCHANGED vars \/ \E c \in Clients : Leave(c)
      PROVE  UNCHANGED <<pc, read_fds, queue>>
  BY <1>3 DEF vars, net, Leave
<1>4. UNCHANGED <<pc, read_fds>> => Turn(s)' = Turn(s)
  BY DEF Turn
<1> QED
  BY <1>1, <1>2, <1>3, <1>4 DEF Next

LEMMA SpecTypeInv == Spec => []TypeInv
  BY InitTypeInv, NextTypeInv, PTL DEF Spec

\* Neither a busy socket nor one that failed to listen keeps main from the other
\* (main.cpp:195-203): the half of EveryClientIsTaken that needs no fairness.
THEOREM EveryTurnComes == Spec => [][TurnComes]_vars
<1>1. ASSUME TypeInv, NEW s \in Services, queue[s] # <<>>, ~Full, Loop
      PROVE  \/ pc' = "exit"
             \/ queue'[s] = Tail(queue[s])
             \/ queue'[s] = queue[s] /\ Turn(s)' < Turn(s)
  <2>1. SelectFails => pc' = "exit"
    BY DEF SelectFails, GoTo
  <2> QED
    BY <1>1, <2>1, PassStep, AcceptStep, SelectStep DEF Loop
<1>2. TypeInv /\ [Next]_vars => [TurnComes]_vars
  BY <1>1, ClientsStep DEF TurnComes
<1> QED
  BY <1>2, SpecTypeInv, PTL DEF Spec
=============================================================================
