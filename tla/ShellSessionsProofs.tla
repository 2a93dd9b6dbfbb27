------------------------ MODULE ShellSessionsProofs ------------------------
(***************************************************************************)
(* For any sessions, programs and statuses: the count of children that wait(NULL)   *)
(* relies on, that an answer comes after its program, and what becomes of a line      *)
(* that breaks off.                                                            *)
(*                                                                           *)
(* The count needs that a new child is one more (its pid is free), and that a        *)
(* session at its wait has forked.  That a program has exited needs its own copy of    *)
(* the write end: it is one of the processes that keep its session from the end of     *)
(* the output.                                                                 *)
(*                                                                           *)
(* At the end, how far two liveness properties follow without fairness: what a*)
(* session waits for only gets less, and a reset has no way but to the end.  *)
(***************************************************************************)
EXTENDS ShellSessions, FiniteSetTheorems, TLAPS

Process == [of : Sessions, pid : Nat, holds : SUBSET Sessions, runs : BOOLEAN]

Typed ==
  /\ pc \in [Sessions -> Points]
  /\ DOMAIN program = Sessions /\ DOMAIN conn = Sessions
  /\ inbox \in [Sessions -> Seq(Lines \union {"half"})]
  /\ children \subseteq Process /\ IsFiniteSet(children)
  /\ \A c, d \in children : c.pid = d.pid => c = d

ToWait == {"forked", "drain", "judge", "wait"}

\* The sessions that forked a child and have yet to wait.
Waiting == {s \in Sessions : pc[s] \in ToWait /\ program[s] # NoProgram}

AsManyAsWait == IsFiniteSet(Waiting) /\ Cardinality(children) = Cardinality(Waiting)

ForkedBefore ==
  \A s \in Sessions : pc[s] \in {"exec", "wait"} => program[s] # NoProgram

\* A program that runs has its session's write end, and the session is not past the end
\* of the output.
RunsInItsSession ==
  \A c \in children : c.runs => c.of \in c.holds /\ pc[c.of] \in {"forked", "drain"}

IInv == Typed /\ AsManyAsWait /\ ForkedBefore /\ RunsInItsSession

LEMMA InitIInv == Init => IInv
<1> SUFFICES ASSUME Init PROVE IInv
  OBVIOUS
<1>1. Waiting = {} /\ children = {}
  BY DEF Init, Waiting, ToWait
<1>2. Typed /\ ForkedBefore /\ RunsInItsSession
  BY <1>1, FS_EmptySet DEF Init, Typed, ForkedBefore, RunsInItsSession, Points
<1> QED
  BY <1>1, <1>2, FS_EmptySet DEF IInv, AsManyAsWait

-----------------------------------------------------------------------------
\* The children.

\* There is a pid that no child has.
LEMMA PidIsFree ==
  ASSUME Typed
  PROVE  NewPid \in Nat /\ \A c \in children : c.pid # NewPid
<1> DEFINE n == Cardinality(children)
           Pids == 1..(n + 1)
<1>1. n \in Nat
  BY FS_CardinalityType DEF Typed
<1>2. \E p \in Pids : \A c \in children : c.pid # p
  <2> SUFFICES ASSUME \A p \in Pids : \E c \in children : c.pid = p PROVE FALSE
    OBVIOUS
  <2> DEFINE owner == [p \in Pids |-> CHOOSE c \in children : c.pid = p]
  <2>1. owner \in [Pids -> children] /\ \A p \in Pids : owner[p].pid = p
    OBVIOUS
  <2>2. IsFiniteSet(Pids) /\ Cardinality(Pids) = n + 1
    BY <1>1, FS_Interval
  <2>3. n < Cardinality(Pids)
    BY <1>1, <2>2
  <2> HIDE DEF owner, Pids, n
  <2>4. \E p, q \in Pids : p # q /\ owner[p] = owner[q]
    BY <2>1, <2>2, <2>3, FS_PigeonHole DEF Typed, n
  <2> QED
    BY <2>1, <2>4
<1> QED
  BY <1>1, <1>2 DEF NewPid

\* One session more, or one less, that is to wait.
LEMMA MoreWait ==
  ASSUME AsManyAsWait, NEW s, s \notin Waiting, Waiting' = Waiting \union {s},
         NEW c, c \notin children, IsFiniteSet(children), children' = children \union {c}
  PROVE  AsManyAsWait'
<1>1. IsFiniteSet(Waiting') /\ Cardinality(Waiting') = Cardinality(Waiting) + 1
  BY FS_AddElement DEF AsManyAsWait
<1>2. Cardinality(children') = Cardinality(children) + 1
  BY FS_AddElement
<1> QED
  BY <1>1, <1>2 DEF AsManyAsWait

LEMMA FewerWait ==
  ASSUME AsManyAsWait, NEW s, s \in Waiting, Waiting' = Waiting \ {s},
         NEW c, c \in children, IsFiniteSet(children), children' = children \ {c}
  PROVE  AsManyAsWait'
  BY FS_RemoveElement DEF AsManyAsWait

\* A session moves on, and neither the children nor who is to wait changes.
LEMMA SameWait ==
  ASSUME AsManyAsWait, Waiting' = Waiting, children' = children
  PROVE  AsManyAsWait'
  BY DEF AsManyAsWait

-----------------------------------------------------------------------------
\* The steps.

AnyLine == {"run", "", "CPRINT", "closed"}

\* Receiving a line, whatever it is.
LEMMA TakesStep ==
  ASSUME IInv, NEW s \in Sessions, pc[s] = "recv",
         NEW line \in AnyLine, Takes(s, line),
         inbox' \in [Sessions -> Seq(Lines \union {"half"})], DOMAIN conn' = Sessions
  PROVE  IInv'
<1> USE DEF IInv
<1>0. pc \in [Sessions -> Points] /\ DOMAIN program = Sessions
  BY DEF Typed
<1>1. /\ children' = children
      /\ \E p : program' = [program EXCEPT ![s] = p]
  BY DEF Takes
<1>a. PICK to \in {"left", "print", "exec"} :
        /\ pc' = [pc EXCEPT ![s] = to]
        /\ line \in {"closed", "CPRINT"} => to # "exec"
  BY DEF Takes, Obey, GoTo
<1>2. pc'[s] = "exec" => program'[s] # NoProgram
  <2>1. line \notin {"closed", "CPRINT"} => line \in {"run", ""}
    BY DEF AnyLine
  <2>2. line \in {"closed", "CPRINT"} => pc'[s] # "exec"
    BY <1>0, <1>a
  <2>3. line \in {"run", ""} => program'[s] \in Programs \union {Missing}
    BY <1>0 DEF Takes
  <2>4. NoProgram \notin Programs \union {Missing}
    BY ShellAssumption DEF NoProgram, Programs, Missing
  <2> QED
    BY <2>1, <2>2, <2>3, <2>4
<1>3. /\ pc'[s] \in {"left", "print", "exec"}
      /\ \A r \in Sessions : r # s => pc'[r] = pc[r] /\ program'[r] = program[r]
  <2>1. pc'[s] = to /\ \A r \in Sessions : r # s => pc'[r] = pc[r]
    BY <1>0, <1>a
  <2>2. \A r \in Sessions : r # s => program'[r] = program[r]
    BY <1>0, <1>1
  <2> QED
    BY <2>1, <2>2
<1>4. Typed'
  <2>1. pc' \in [Sessions -> Points]
    BY <1>0, <1>a DEF Points
  <2>2. DOMAIN program' = Sessions
    BY <1>0, <1>1
  <2> QED
    BY <1>1, <2>1, <2>2 DEF Typed
<1>5. Waiting' = Waiting
  BY <1>3 DEF Waiting, ToWait
<1>6. AsManyAsWait'
  BY <1>1, <1>5, SameWait
<1>7. ForkedBefore'
  BY <1>2, <1>3 DEF ForkedBefore
<1>8. RunsInItsSession'
  BY <1>1, <1>3 DEF RunsInItsSession, Typed, Process
<1> QED
  BY <1>4, <1>6, <1>7, <1>8

LEMMA ReceiveStep ==
  ASSUME IInv, NEW s \in Sessions, ReceiveLine(s) \/ ReceiveEnd(s) \/ ReceiveError(s)
  PROVE  IInv'
<1>1. /\ pc[s] = "recv" /\ DOMAIN conn' = Sessions
  BY DEF ReceiveLine, ReceiveEnd, ReceiveError, At, IInv, Typed
<1>2. inbox' \in [Sessions -> Seq(Lines \union {"half"})]
  <2>1. inbox \in [Sessions -> Seq(Lines \union {"half"})]
    BY DEF IInv, Typed
  <2>2. CASE ReceiveLine(s)
    <3>1. Tail(inbox[s]) \in Seq(Lines \union {"half"})
      BY <2>1, <2>2 DEF ReceiveLine
    <3> QED
      BY <2>1, <2>2, <3>1 DEF ReceiveLine
  <2>3. CASE ReceiveEnd(s) \/ ReceiveError(s)
    <3>1. inbox' = [inbox EXCEPT ![s] = <<>>]
      BY <2>3 DEF ReceiveEnd, ReceiveError, HasRead
    <3>2. <<>> \in Seq(Lines \union {"half"})
      OBVIOUS
    <3> QED
      BY <2>1, <3>1, <3>2
  <2> QED
    BY <2>2, <2>3
<1>3. \E line \in AnyLine : Takes(s, line)
  <2>1. CASE ReceiveLine(s)
    <3>1. Head(inbox[s]) \in Lines \union {"half"}
      BY <2>1 DEF ReceiveLine, IInv, Typed
    <3> QED
      BY <2>1, <3>1, ShellAssumption DEF ReceiveLine, AnyLine
  <2>2. CASE ReceiveEnd(s)
    BY <2>2 DEF ReceiveEnd, AnyLine
  <2>3. CASE ReceiveError(s)
    BY <2>3, ShellAssumption DEF ReceiveError, Rest, AnyLine
  <2> QED
    BY <2>1, <2>2, <2>3
<1> QED
  BY <1>1, <1>2, <1>3, TakesStep

LEMMA ForkStep ==
  ASSUME IInv, NEW s \in Sessions, Fork(s)
  PROVE  IInv'
<1> DEFINE c == [of |-> s, pid |-> NewPid, holds |-> Piped, runs |-> TRUE]
<1>1. /\ pc[s] = "exec" /\ pc' = [pc EXCEPT ![s] = "forked"]
      /\ children' = children \union {c}
      /\ UNCHANGED <<program, conn, inbox>>
  BY DEF Fork, At, GoTo, socket
<1>2. /\ c \in Process /\ c \notin children /\ c.of = s /\ s \in c.holds
      /\ \A d \in children : d.pid # c.pid
  BY <1>1, PidIsFree DEF IInv, Process, Piped
<1> HIDE DEF c
<1>3. pc \in [Sessions -> Points]
  BY DEF IInv, Typed
<1>4. Typed'
  BY <1>1, <1>2, FS_AddElement DEF IInv, Typed, Points
<1>5. s \notin Waiting /\ Waiting' = Waiting \union {s}
  BY <1>1, <1>3 DEF IInv, ForkedBefore, Waiting, ToWait
<1>6. AsManyAsWait'
  BY <1>1, <1>2, <1>5, MoreWait DEF IInv, Typed
<1>7. ForkedBefore' /\ RunsInItsSession'
  BY <1>1, <1>2, <1>3 DEF IInv, ForkedBefore, RunsInItsSession, Typed, Process
<1> QED
  BY <1>4, <1>6, <1>7 DEF IInv

LEMMA ForkFailsStep ==
  ASSUME IInv, NEW s \in Sessions, ForkFails(s)
  PROVE  IInv'
<1>1. /\ pc[s] = "exec" /\ pc' = [pc EXCEPT ![s] = "forked"]
      /\ program' = [program EXCEPT ![s] = NoProgram]
      /\ UNCHANGED <<children, conn, inbox>>
  BY DEF ForkFails, At, GoTo, socket
<1>2. pc \in [Sessions -> Points] /\ DOMAIN program = Sessions
  BY DEF IInv, Typed
<1>3. Typed'
  BY <1>1 DEF IInv, Typed, Points
<1>4. Waiting' = Waiting
  BY <1>1, <1>2 DEF Waiting, ToWait
<1>5. AsManyAsWait' /\ ForkedBefore' /\ RunsInItsSession'
  BY <1>1, <1>2, <1>4, SameWait DEF IInv, ForkedBefore, RunsInItsSession, Typed, Process
<1> QED
  BY <1>3, <1>5 DEF IInv

\* A session goes from one point to another, and whether it is to wait stays.
LEMMA MovesOn ==
  ASSUME IInv, NEW s \in Sessions, NEW p \in Points,
         pc' = [pc EXCEPT ![s] = p], UNCHANGED <<program, children>>,
         DOMAIN conn' = Sessions, inbox' = inbox,
         pc[s] \in ToWait <=> p \in ToWait,
         p \in {"exec", "wait"} => program[s] # NoProgram,
         \A c \in children : c.runs /\ c.of = s => p \in {"forked", "drain"}
  PROVE  IInv'
<1>1. pc \in [Sessions -> Points]
  BY DEF IInv, Typed
<1>2. Typed'
  BY DEF IInv, Typed
<1>3. Waiting' = Waiting
  BY <1>1 DEF Waiting
<1>4. AsManyAsWait' /\ ForkedBefore' /\ RunsInItsSession'
  BY <1>1, <1>3, SameWait DEF IInv, ForkedBefore, RunsInItsSession, Typed, Process
<1> QED
  BY <1>2, <1>4 DEF IInv

LEMMA WaitStep ==
  ASSUME IInv, NEW s \in Sessions, Wait(s)
  PROVE  IInv'
<1>1. /\ pc[s] = "wait" /\ pc' = [pc EXCEPT ![s] = "send"]
      /\ UNCHANGED <<program, conn, inbox>>
  BY DEF Wait, At, GoTo, socket
<1>2. pc \in [Sessions -> Points]
  BY DEF IInv, Typed
<1>3. s \in Waiting /\ Waiting' = Waiting \ {s}
  BY <1>1, <1>2 DEF IInv, ForkedBefore, Waiting, ToWait
<1>4. children # {}
  BY <1>3, FS_EmptySet DEF IInv, AsManyAsWait
<1>5. PICK c \in children \ Running : children' = children \ {c}
  BY <1>4 DEF Wait
<1>6. AsManyAsWait'
  BY <1>3, <1>5, FewerWait DEF IInv, Typed
<1>7. Typed'
  BY <1>1, <1>5, FS_RemoveElement DEF IInv, Typed, Points
<1>8. ForkedBefore' /\ RunsInItsSession'
  BY <1>1, <1>2, <1>5 DEF IInv, ForkedBefore, RunsInItsSession, Typed, Process
<1> QED
  BY <1>6, <1>7, <1>8 DEF IInv

LEMMA ExitsStep ==
  ASSUME IInv, NEW c \in children, Exits(c)
  PROVE  IInv'
<1> DEFINE d == [c EXCEPT !.runs = FALSE]
<1>1. /\ c.runs /\ children' = (children \ {c}) \union {d}
      /\ UNCHANGED <<pc, program, conn, inbox>>
  BY DEF Exits, session, socket
<1>2. d \in Process /\ d # c /\ d.pid = c.pid /\ d.of = c.of /\ ~d.runs
  BY <1>1 DEF IInv, Typed, Process
<1> HIDE DEF d
<1>3. d \notin children
  BY <1>2 DEF IInv, Typed
<1>4. IsFiniteSet(children') /\ Cardinality(children') = Cardinality(children)
  <2>1. IsFiniteSet(children) /\ Cardinality(children) \in Nat
    BY FS_CardinalityType DEF IInv, Typed
  <2>2. IsFiniteSet(children \ {c}) /\ Cardinality(children \ {c}) = Cardinality(children) - 1
    BY <2>1, FS_RemoveElement
  <2>3. d \notin children \ {c}
    BY <1>3
  <2>4. /\ IsFiniteSet((children \ {c}) \union {d})
        /\ Cardinality((children \ {c}) \union {d}) = Cardinality(children \ {c}) + 1
    BY <2>2, <2>3, FS_AddElement
  <2> QED
    BY <1>1, <2>1, <2>2, <2>4
<1>5. Typed'
  BY <1>1, <1>2, <1>4 DEF IInv, Typed
<1>6. AsManyAsWait'
  BY <1>1, <1>4 DEF IInv, AsManyAsWait, Waiting
<1>7. ForkedBefore' /\ RunsInItsSession'
  BY <1>1, <1>2 DEF IInv, ForkedBefore, RunsInItsSession
<1> QED
  BY <1>5, <1>6, <1>7 DEF IInv

\* Nothing that the invariant is about changes, but for what the clients send.
LEMMA OthersStep ==
  ASSUME IInv, UNCHANGED <<session, children>>, DOMAIN conn' = Sessions,
         inbox' \in [Sessions -> Seq(Lines \union {"half"})]
  PROVE  IInv'
<1>1. UNCHANGED <<pc, program, children>>
  BY DEF session
<1> QED
  BY <1>1 DEF IInv, Typed, AsManyAsWait, Waiting, ForkedBefore, RunsInItsSession

LEMMA NextIInv == IInv /\ [Next]_vars => IInv'
<1> SUFFICES ASSUME IInv, [Next]_vars PROVE IInv'
  OBVIOUS
<1>0. /\ DOMAIN conn = Sessions /\ inbox \in [Sessions -> Seq(Lines \union {"half"})]
      /\ pc \in [Sessions -> Points]
  BY DEF IInv, Typed
<1>1. ASSUME NEW s \in Sessions, Step(s) PROVE IInv'
  <2>0. \A c \in children : c.runs /\ c.of = s => pc[s] \in {"forked", "drain"} /\ s \in c.holds
    BY DEF IInv, RunsInItsSession
  <2>1. CASE ReceiveLine(s) \/ ReceiveEnd(s) \/ ReceiveError(s)
    BY <2>1, ReceiveStep
  <2>2. CASE Fork(s)
    BY <2>2, ForkStep
  <2>3. CASE ForkFails(s)
    BY <2>3, ForkFailsStep
  <2>4. CASE CloseWriteEnds(s)
    <3>1. /\ pc[s] = "forked" /\ pc' = [pc EXCEPT ![s] = "drain"]
          /\ UNCHANGED <<program, children, conn, inbox>>
      BY <2>4 DEF CloseWriteEnds, At, GoTo, socket
    <3> QED
      BY <1>0, <3>1, MovesOn DEF Points, ToWait
  <2>5. CASE Drain(s)
    <3>1. /\ pc[s] = "drain" /\ pc' = [pc EXCEPT ![s] = "judge"]
          /\ UNCHANGED <<program, children, conn, inbox>>
      BY <2>5 DEF Drain, At, GoTo, socket
    <3>2. \A c \in children : ~(c.runs /\ c.of = s)
      BY <2>0, <2>5 DEF Drain, Running
    <3>3. "judge" \in Points /\ "judge" \in ToWait /\ "drain" \in ToWait
      BY DEF Points, ToWait
    <3> QED
      BY <1>0, <3>1, <3>2, <3>3, MovesOn
  <2>6. CASE Judge(s)
    <3>1. pc[s] = "judge" /\ UNCHANGED <<program, children, conn, inbox>>
      BY <2>6 DEF Judge, At, socket
    <3>2. CASE program[s].prints \in {"nothing", "none"}
      BY <1>0, <2>6, <3>1, <3>2
      DEF Judge, IInv, Typed, AsManyAsWait, Waiting, ForkedBefore, RunsInItsSession
    <3>3. CASE program[s].prints \notin {"nothing", "none"}
      <4>1. pc' = [pc EXCEPT ![s] = "wait"] /\ program[s] # NoProgram
        BY <2>6, <3>3 DEF Judge, GoTo, NoProgram
      <4> QED
        BY <1>0, <2>0, <3>1, <4>1, MovesOn DEF Points, ToWait
    <3> QED
      BY <3>2, <3>3
  <2>7. CASE Wait(s)
    BY <2>7, WaitStep
  <2>8. CASE SendResult(s) \/ PrintNone(s) \/ PrintFailure(s) \/ PrintOutput(s)
    <3>1. PICK p \in {"recv", "send"} :
            /\ pc[s] \in {"send", "print"} /\ pc' = [pc EXCEPT ![s] = p]
            /\ UNCHANGED <<program, children, inbox>>
      BY <2>8 DEF SendResult, PrintNone, PrintFailure, PrintOutput, At, GoTo
    <3>2. DOMAIN conn' = Sessions
      BY <1>0, <2>8 DEF SendResult, PrintNone, PrintFailure, PrintOutput, Send
    <3> QED
      BY <2>0, <3>1, <3>2, MovesOn DEF Points, ToWait
  <2>9. CASE PipeFails(s)
    BY <1>0, <2>9, OthersStep DEF PipeFails, socket
  <2> QED
    BY <1>1, <2>1, <2>2, <2>3, <2>4, <2>5, <2>6, <2>7, <2>8, <2>9 DEF Step
<1>2. ASSUME NEW s \in Sessions, ClientSends(s) \/ ClientLeaves(s) PROVE IInv'
  <2>1. UNCHANGED <<session, children>> /\ DOMAIN conn' = Sessions
    BY <1>0, <1>2 DEF ClientSends, ClientLeaves
  <2>2. \/ inbox' = inbox
        \/ \E l \in Lines \union {"half"} : inbox' = [inbox EXCEPT ![s] = Append(inbox[s], l)]
    BY <1>2 DEF ClientSends, ClientLeaves
  <2>3. \A l \in Lines \union {"half"} :
          Append(inbox[s], l) \in Seq(Lines \union {"half"})
    BY <1>0
  <2>4. inbox' \in [Sessions -> Seq(Lines \union {"half"})]
    BY <1>0, <2>2, <2>3
  <2> QED
    BY <2>1, <2>4, OthersStep
<1>3. ASSUME NEW c \in children, Exits(c) PROVE IInv'
  BY <1>3, ExitsStep
<1>4. CASE UNCHANGED vars
  BY <1>0, <1>4, OthersStep DEF vars, socket
<1> QED
  BY <1>1, <1>2, <1>3, <1>4 DEF Next

LEMMA SpecIInv == Spec => []IInv
  BY InitIInv, NextIInv, PTL DEF Spec

\* Whatever children the sessions take from each other, and whichever forks fail, there is
\* a child for every wait(NULL), and none is left over (ShellServ.cpp:84, 126).
THEOREM AChildForEveryWait == Spec => []OneChildPerWait
<1>1. IInv => OneChildPerWait
  BY DEF IInv, AsManyAsWait, Waiting, ToWait, OneChildPerWait
<1> QED
  BY <1>1, SpecIInv, PTL

\* Whichever processes hold which pipe ends: once a session judges an output, the
\* program that printed it has exited (ShellServ.cpp:107-111).
THEOREM ProgramsEndBeforeAnswers == Spec => []AnswersAfterItsProgram
<1>1. IInv => AnswersAfterItsProgram
  BY DEF IInv, RunsInItsSession, AnswersAfterItsProgram, Running
<1> QED
  BY <1>1, SpecIInv, PTL

LEMMA HalfLineStep ==
  ASSUME IInv, [Next]_vars, NEW s \in Sessions,
         inbox[s] = <<"half">>, pc[s] = "recv", pc'[s] \in {"exec", "print"}
  PROVE  conn'[s] = "broken"
<1>0. pc \in [Sessions -> Points] /\ DOMAIN conn = Sessions
  BY DEF IInv, Typed
<1>1. pc' # pc
  OBVIOUS
<1>2. PICK t \in Sessions : Step(t)
  BY <1>1 DEF Next, vars, session, ClientSends, ClientLeaves, Exits
<1>3. \A u \in Sessions : u # t => pc'[u] = pc[u]
  BY <1>0, <1>2
  DEF Step, ReceiveLine, ReceiveEnd, ReceiveError, Takes, Obey, PipeFails, session, Fork, ForkFails,
      CloseWriteEnds, Drain, Judge, Wait, SendResult, PrintNone, PrintFailure, PrintOutput, GoTo
<1>4. t = s
  BY <1>3
<1>5. ReceiveLine(s) \/ ReceiveEnd(s) \/ ReceiveError(s)
  BY <1>2, <1>4
  DEF Step, PipeFails, session, Fork, ForkFails, CloseWriteEnds, Drain, Judge, Wait, SendResult, PrintNone,
      PrintFailure, PrintOutput, At
<1>6. ~ReceiveLine(s)
  BY DEF ReceiveLine
<1>7. ~ReceiveEnd(s)
  BY <1>0 DEF ReceiveEnd, Takes, Obey, GoTo
<1>8. ReceiveError(s)
  BY <1>5, <1>6, <1>7
<1> QED
  BY <1>0, <1>8 DEF ReceiveError

\* What a client did not finish is run only if its connection broke (ShellServ.cpp:52-58).
THEOREM HalfLinesNeedAReset == Spec => HalfLinesRunOnlyAfterReset
<1>1. IInv /\ [Next]_vars
        => [\A s \in Sessions :
              inbox[s] = <<"half">> /\ pc[s] = "recv" /\ pc'[s] \in {"exec", "print"}
                => conn'[s] = "broken"]_vars
  BY HalfLineStep
<1> QED
  BY <1>1, SpecIInv, PTL DEF Spec, HalfLinesRunOnlyAfterReset
-----------------------------------------------------------------------------
\* Type correctness.

AnswerTypes == [prints : {"text", "complaint", "perror", "none", "nothing"},
                exitstatus : {-1, 0, 4}]

\* What the sessions and their connections hold, and how much the clients sent.
Members ==
  /\ alive \in BOOLEAN
  /\ program \in [Sessions -> Programs \union {Missing, NoProgram}]
  /\ answer \in [Sessions -> AnswerTypes]
  /\ conn \in [Sessions -> {"open", "fin", "gone", "reset", "broken"}]
  /\ said \in [Sessions -> {"nothing", "OK", "ERR", "FAIL", "output"}]
  /\ sent \in 0..MaxLines
  /\ \A s \in Sessions : Len(inbox[s]) <= sent

\* All of them but the lengths of the inboxes, after a step that changes no inbox or
\* shortens one.
LEMMA InboxesShrink ==
  ASSUME IInv, Members, sent' = sent, NEW s \in Sessions,
         \/ inbox' = inbox
         \/ inbox' = [inbox EXCEPT ![s] = <<>>]
         \/ inbox[s] # <<>> /\ inbox' = [inbox EXCEPT ![s] = Tail(inbox[s])]
  PROVE  \A r \in Sessions : Len(inbox'[r]) <= sent'
<1>1. /\ inbox \in [Sessions -> Seq(Lines \union {"half"})] /\ sent \in Nat
      /\ \A r \in Sessions : Len(inbox[r]) <= sent
  <2>1. MaxLines \in Nat
    BY ShellAssumption
  <2> QED
    BY <2>1 DEF IInv, Typed, Members
<1>2. inbox[s] # <<>> => Len(Tail(inbox[s])) <= Len(inbox[s]) /\ Len(Tail(inbox[s])) \in Nat
  BY <1>1
<1>3. Len(inbox[s]) \in Nat
  BY <1>1
<1>4. \A r \in Sessions : r # s => inbox'[r] = inbox[r]
  BY <1>1
<1>5. inbox'[s] \in {inbox[s], <<>>} \/ (inbox[s] # <<>> /\ inbox'[s] = Tail(inbox[s]))
  BY <1>1
<1>6. Len(inbox'[s]) <= sent
  BY <1>1, <1>2, <1>3, <1>5
<1> QED
  BY <1>1, <1>4, <1>6

LEMMA TakesTypes ==
  ASSUME Members, NEW s \in Sessions, NEW line, Takes(s, line)
  PROVE  /\ program' \in [Sessions -> Programs \union {Missing, NoProgram}]
         /\ UNCHANGED <<alive, answer, sent, said>>
<1>1. PICK p \in Programs \union {Missing} :
        program' = [program EXCEPT ![s] = IF line \in {"run", ""} THEN p ELSE program[s]]
  BY DEF Takes
<1>2. UNCHANGED <<alive, answer, sent, said>>
  BY DEF Takes
<1> QED
  BY <1>1, <1>2 DEF Members

LEMMA SendTypes ==
  ASSUME Members, NEW s \in Sessions, NEW what \in {"OK", "ERR", "FAIL", "output"},
         Send(s, what)
  PROVE  /\ alive' \in BOOLEAN
         /\ conn' \in [Sessions -> {"open", "fin", "gone", "reset", "broken"}]
         /\ said' \in [Sessions -> {"nothing", "OK", "ERR", "FAIL", "output"}]
<1>1. alive' \in {alive, FALSE}
  BY DEF Send
<1>2. conn' = conn \/ \E c \in {"fin", "gone", "broken"} : conn' = [conn EXCEPT ![s] = c]
  BY DEF Send
<1>3. said' = [said EXCEPT ![s] = what]
  BY DEF Send
<1> QED
  BY <1>1, <1>2, <1>3 DEF Members

LEMMA JudgeTypes ==
  ASSUME Members, NEW s \in Sessions, Judge(s)
  PROVE  answer' \in [Sessions -> AnswerTypes] /\ alive' \in BOOLEAN
<1>1. program[s] \in Programs \union {Missing, NoProgram}
  BY DEF Members
<1>2. program[s].prints \in {"text", "complaint", "perror", "none", "nothing"}
  <2>1. CASE program[s] \in Programs
    <3>1. program[s].prints \in Outputs
      BY <2>1 DEF Programs
    <3> QED
      BY <3>1, ShellAssumption
  <2>2. CASE program[s] \in {Missing, NoProgram}
    BY <2>2 DEF Missing, NoProgram
  <2> QED
    BY <1>1, <2>1, <2>2
<1>3. exitcode(program[s]) \in {-1, 0, 4}
  BY DEF exitcode
<1>4. [prints |-> program[s].prints, exitstatus |-> exitcode(program[s])] \in AnswerTypes
  BY <1>2, <1>3 DEF AnswerTypes
<1> QED
  BY <1>4 DEF Judge, Members

LEMMA MembersStep == IInv /\ Members /\ [Next]_vars => Members'
<1> SUFFICES ASSUME IInv, Members, [Next]_vars PROVE Members'
  OBVIOUS
<1> DEFINE Shrinks(s) ==
      \/ inbox' = inbox
      \/ inbox' = [inbox EXCEPT ![s] = <<>>]
      \/ inbox[s] # <<>> /\ inbox' = [inbox EXCEPT ![s] = Tail(inbox[s])]
<1>1. ASSUME NEW s \in Sessions, ReceiveLine(s) \/ ReceiveEnd(s) \/ ReceiveError(s)
      PROVE  Members'
  <2>1. PICK line : Takes(s, line)
    BY <1>1 DEF ReceiveLine, ReceiveEnd, ReceiveError
  <2>2. Shrinks(s)
    BY <1>1 DEF ReceiveLine, ReceiveEnd, ReceiveError, HasRead
  <2>3. conn' = conn \/ conn' = [conn EXCEPT ![s] = "broken"]
    BY <1>1 DEF ReceiveLine, ReceiveEnd, ReceiveError
  <2>4. /\ program' \in [Sessions -> Programs \union {Missing, NoProgram}]
        /\ UNCHANGED <<alive, answer, sent, said>>
    BY <2>1, TakesTypes
  <2>5. \A r \in Sessions : Len(inbox'[r]) <= sent'
    BY <2>2, <2>4, InboxesShrink
  <2> QED
    BY <2>3, <2>4, <2>5 DEF Members
<1>2. ASSUME NEW s \in Sessions,
             Fork(s) \/ ForkFails(s) \/ CloseWriteEnds(s) \/ Drain(s) \/ Wait(s)
      PROVE  Members'
  <2>1. /\ program' \in {program, [program EXCEPT ![s] = NoProgram]}
        /\ UNCHANGED <<alive, answer, conn, inbox, sent, said>>
    BY <1>2 DEF Fork, ForkFails, CloseWriteEnds, Drain, Wait, socket
  <2> QED
    BY <2>1 DEF Members
<1>3. ASSUME NEW s \in Sessions, Judge(s) PROVE Members'
  <2>1. UNCHANGED <<program, conn, inbox, sent, said>>
    BY <1>3 DEF Judge, socket
  <2> QED
    BY <1>3, <2>1, JudgeTypes DEF Members
<1>4. ASSUME NEW s \in Sessions,
             SendResult(s) \/ PrintNone(s) \/ PrintFailure(s) \/ PrintOutput(s)
      PROVE  Members'
  <2>1. PICK what \in {"OK", "ERR", "FAIL", "output"} : Send(s, what)
    <3>1. Verdict(answer[s]) \in {"OK", "ERR", "FAIL"}
      BY DEF Verdict
    <3> QED
      BY <1>4, <3>1 DEF SendResult, PrintNone, PrintFailure, PrintOutput
  <2>2. UNCHANGED <<program, answer, inbox, sent>>
    BY <1>4 DEF SendResult, PrintNone, PrintFailure, PrintOutput
  <2> QED
    BY <2>1, <2>2, SendTypes DEF Members
<1>5. ASSUME NEW s \in Sessions, ClientSends(s) \/ ClientLeaves(s) PROVE Members'
  <2>1. /\ UNCHANGED <<alive, program, answer, said>>
        /\ conn' = conn \/ \E c \in {"fin", "reset"} : conn' = [conn EXCEPT ![s] = c]
    BY <1>5 DEF ClientSends, ClientLeaves, session
  <2>2. \/ UNCHANGED <<inbox, sent>>
        \/ /\ sent < MaxLines /\ sent' = sent + 1
           /\ \E l \in Lines \union {"half"} :
                inbox' = [inbox EXCEPT ![s] = Append(inbox[s], l)]
    BY <1>5 DEF ClientSends, ClientLeaves
  <2>3. inbox \in [Sessions -> Seq(Lines \union {"half"})] /\ MaxLines \in Nat
    BY ShellAssumption DEF IInv, Typed
  <2>4. \A r \in Sessions : Len(inbox[r]) \in Nat /\ Len(inbox[r]) <= sent
    BY <2>3 DEF Members
  <2>5. ASSUME NEW l \in Lines \union {"half"},
               inbox' = [inbox EXCEPT ![s] = Append(inbox[s], l)], sent' = sent + 1,
               NEW r \in Sessions
        PROVE  Len(inbox'[r]) <= sent'
    <3>1. CASE r = s
      <4>1. Len(Append(inbox[s], l)) = Len(inbox[s]) + 1
        BY <2>3
      <4> QED
        BY <2>3, <2>4, <2>5, <3>1, <4>1 DEF Members
    <3>2. CASE r # s
      BY <2>3, <2>4, <2>5, <3>2 DEF Members
    <3> QED
      BY <3>1, <3>2
  <2>6. \A r \in Sessions : Len(inbox'[r]) <= sent'
    BY <2>2, <2>4, <2>5
  <2>7. sent' \in 0..MaxLines
    BY <2>2, <2>3 DEF Members
  <2>8. conn' \in [Sessions -> {"open", "fin", "gone", "reset", "broken"}]
    BY <2>1 DEF Members
  <2> QED
    BY <2>1, <2>6, <2>7, <2>8 DEF Members
<1>6. CASE UNCHANGED vars \/ \E c \in children : Exits(c)
  <2>1. UNCHANGED <<alive, program, answer, conn, inbox, sent, said>>
    BY <1>6 DEF vars, session, socket, Exits
  <2> QED
    BY <2>1 DEF Members
<1>7. ASSUME NEW s \in Sessions, PipeFails(s) PROVE Members'
  <2>1. /\ alive' = FALSE
        /\ UNCHANGED <<program, answer, conn, inbox, sent, said>>
    BY <1>7 DEF PipeFails, session, socket
  <2> QED
    BY <2>1 DEF Members
<1> QED
  BY <1>1, <1>2, <1>3, <1>4, <1>5, <1>6, <1>7 DEF Next, Step

\* Every variable has its type: an exit status is one of three, and no session has more
\* lines to read than the clients sent.
THEOREM ShellTypeCorrect == Spec => []TypeOK
<1>1. Init => Members
  <2> SUFFICES ASSUME Init PROVE Members
    OBVIOUS
  <2>1. NoAnswer \in AnswerTypes
    BY DEF NoAnswer, AnswerTypes
  <2>2. Len(<<>>) = 0 /\ 0 \in 0..MaxLines
    <3>1. MaxLines \in Nat
      BY ShellAssumption
    <3>2. Len(<<>>) = 0
      OBVIOUS
    <3> QED
      BY <3>1, <3>2
  <2> QED
    BY <2>1, <2>2 DEF Init, Members
<1>2. IInv /\ Members => TypeOK
  <2> SUFFICES ASSUME IInv, Members PROVE TypeOK
    OBVIOUS
  <2>1. \A s \in Sessions : answer[s].exitstatus \in {-1, 0, 4}
    BY DEF Members, AnswerTypes
  <2>2. \A c \in children : c.of \in Sessions /\ c.holds \subseteq Sessions
    BY DEF IInv, Typed, Process
  <2> QED
    BY <2>1, <2>2 DEF IInv, Typed, Members, TypeOK
<1> QED
  BY <1>1, <1>2, MembersStep, SpecIInv, PTL DEF Spec
-----------------------------------------------------------------------------
\* What a session waits for.

\* The programs that run and keep session s from the end of its output.
HoldersOf(s) == {c \in Running : s \in c.holds}

\* A session that reads its program's output waits for no program but those that had its
\* pipe when it began.
NobodyJoins ==
  \A s \in Sessions : pc[s] = "drain" => HoldersOf(s)' \subseteq HoldersOf(s)

\* Programs take the pipe ends of other sessions along, but only while the server has them
\* open: a session at its read(2) (ShellServ.cpp:107-111) waits for a set of programs that
\* only gets smaller, whatever the other sessions fork meanwhile.  This is the half of
\* EveryCommandIsAnswered that needs no fairness.
THEOREM WaitsOnlyGetShorter == Spec => [][NobodyJoins]_vars
<1>1. ASSUME IInv, [Next]_vars, NEW s \in Sessions, pc[s] = "drain"
      PROVE  HoldersOf(s)' \subseteq HoldersOf(s)
  <2>1. ASSUME NEW t \in Sessions, Fork(t) PROVE HoldersOf(s)' \subseteq HoldersOf(s)
    <3>1. s \notin Piped
      BY <1>1 DEF Piped
    <3>2. children' = children \union
                        {[of |-> t, pid |-> NewPid, holds |-> Piped, runs |-> TRUE]}
      BY <2>1 DEF Fork
    <3> HIDE DEF Piped, NewPid
    <3> QED
      BY <3>1, <3>2 DEF HoldersOf, Running
  <2>2. ASSUME children' \subseteq children PROVE HoldersOf(s)' \subseteq HoldersOf(s)
    BY <2>2 DEF HoldersOf, Running
  <2>3. ASSUME NEW t \in Sessions, Step(t), ~Fork(t) PROVE children' \subseteq children
    BY <2>3
    DEF Step, ReceiveLine, ReceiveEnd, ReceiveError, Takes, PipeFails, ForkFails,
        CloseWriteEnds, Drain, Judge, Wait, SendResult, PrintNone, PrintFailure, PrintOutput
  <2>4. ASSUME NEW t \in Sessions, ClientSends(t) \/ ClientLeaves(t)
        PROVE  children' \subseteq children
    BY <2>4 DEF ClientSends, ClientLeaves
  <2>5. ASSUME NEW c \in children, Exits(c) PROVE HoldersOf(s)' \subseteq HoldersOf(s)
    <3>1. /\ [c EXCEPT !.runs = FALSE].runs = FALSE
          /\ children' = (children \ {c}) \union {[c EXCEPT !.runs = FALSE]}
      BY <1>1, <2>5 DEF Exits, IInv, Typed, Process
    <3> QED
      BY <3>1 DEF HoldersOf, Running
  <2>6. CASE UNCHANGED vars
    BY <2>2, <2>6 DEF vars
  <2> QED
    BY <1>1, <2>1, <2>2, <2>3, <2>4, <2>5, <2>6 DEF Next
<1>2. IInv /\ [Next]_vars => [NobodyJoins]_vars
  BY <1>1 DEF NobodyJoins
<1> QED
  BY <1>2, SpecIInv, PTL DEF Spec
-----------------------------------------------------------------------------
\* What a reset leads to.

\* The points from a command to its answer.
CommandPoints == {"exec", "forked", "drain", "judge", "wait", "send"}

\* A session without a line left whose client broke off: recv is about to report it, or
\* has, and the session runs a command on a connection that is gone.
Doomed(s) ==
  /\ inbox[s] = <<>>
  /\ \/ pc[s] = "recv" /\ conn[s] = "reset"
     \/ pc[s] \in CommandPoints /\ conn[s] = "broken"

\* How many steps such a session is away from its answer.
StepsLeft(s) ==
  CASE pc[s] = "recv"   -> 6
    [] pc[s] = "exec"   -> 5
    [] pc[s] = "forked" -> 4
    [] pc[s] = "drain"  -> 3
    [] pc[s] = "judge"  -> 2
    [] pc[s] = "wait"   -> 1
    [] OTHER            -> 0

\* Such a session stays one until the process ends; a step of its own brings it nearer.
NoWayBack ==
  \A s \in Sessions : Doomed(s) =>
    \/ ~alive'
    \/ Doomed(s)' /\ (IF Step(s) THEN StepsLeft(s)' < StepsLeft(s)
                                 ELSE StepsLeft(s)' = StepsLeft(s))

LEMMA DoomedStep ==
  ASSUME IInv, NEW s \in Sessions, Doomed(s), Step(s), alive'
  PROVE  Doomed(s)' /\ StepsLeft(s)' < StepsLeft(s)
<1>0. /\ pc \in [Sessions -> Points] /\ DOMAIN conn = Sessions
      /\ inbox \in [Sessions -> Seq(Lines \union {"half"})]
  BY DEF IInv, Typed
<1>1. CASE ReceiveLine(s) \/ ReceiveEnd(s)
  BY <1>1 DEF ReceiveLine, ReceiveEnd, Doomed, At, CommandPoints
<1>2. CASE ReceiveError(s)
  <2>1. PICK l \in Rest(s) : Takes(s, l)
    BY <1>2 DEF ReceiveError
  <2>2. l = ""
    BY <2>1 DEF Rest, Doomed
  <2>3. pc[s] = "recv" /\ pc'[s] = "exec"
    BY <1>0, <1>2, <2>1, <2>2 DEF ReceiveError, Takes, Obey, GoTo, At
  <2>4. conn'[s] = "broken" /\ inbox'[s] = <<>>
    BY <1>0, <1>2 DEF ReceiveError, HasRead
  <2> QED
    BY <2>3, <2>4 DEF Doomed, StepsLeft, CommandPoints
<1>3. CASE Fork(s) \/ ForkFails(s)
  <2>1. pc[s] = "exec" /\ pc'[s] = "forked" /\ UNCHANGED <<inbox, conn>>
    BY <1>0, <1>3 DEF Fork, ForkFails, GoTo, At, socket
  <2> QED
    BY <2>1 DEF Doomed, StepsLeft, CommandPoints
<1>4. CASE CloseWriteEnds(s) \/ Drain(s)
  <2>1. /\ UNCHANGED <<inbox, conn>>
        /\ \/ pc[s] = "forked" /\ pc'[s] = "drain"
           \/ pc[s] = "drain" /\ pc'[s] = "judge"
    BY <1>0, <1>4 DEF CloseWriteEnds, Drain, GoTo, At, socket
  <2> QED
    BY <2>1 DEF Doomed, StepsLeft, CommandPoints
<1>5. CASE Judge(s) \/ Wait(s)
  <2>1. /\ UNCHANGED <<inbox, conn>>
        /\ \/ pc[s] = "judge" /\ pc'[s] = "wait"
           \/ pc[s] = "wait" /\ pc'[s] = "send"
    BY <1>0, <1>5 DEF Judge, Wait, GoTo, At, socket
  <2> QED
    BY <2>1 DEF Doomed, StepsLeft, CommandPoints
<1>6. CASE SendResult(s)
  <2>1. conn[s] = "broken"
    BY <1>6 DEF SendResult, At, Doomed
  <2> QED
    BY <1>6, <2>1 DEF SendResult, Send
<1>7. CASE PrintNone(s) \/ PrintFailure(s) \/ PrintOutput(s)
  BY <1>7 DEF PrintNone, PrintFailure, PrintOutput, At, Doomed, CommandPoints
<1>8. ~PipeFails(s)
  BY DEF PipeFails
<1> QED
  BY <1>1, <1>2, <1>3, <1>4, <1>5, <1>6, <1>7, <1>8 DEF Step

\* What the clients, the programs and the other sessions do changes nothing about it.
LEMMA DoomedStays ==
  ASSUME IInv, [Next]_vars, NEW s \in Sessions, Doomed(s), ~Step(s)
  PROVE  UNCHANGED <<pc[s], conn[s], inbox[s]>>
<1>0. /\ pc \in [Sessions -> Points] /\ DOMAIN conn = Sessions
      /\ inbox \in [Sessions -> Seq(Lines \union {"half"})]
  BY DEF IInv, Typed
<1>1. ASSUME NEW t \in Sessions, t # s, Step(t) PROVE UNCHANGED <<pc[s], conn[s], inbox[s]>>
  <2>1. CASE ReceiveLine(t) \/ ReceiveEnd(t) \/ ReceiveError(t)
    BY <1>0, <1>1, <2>1
    DEF ReceiveLine, ReceiveEnd, ReceiveError, Takes, Obey, GoTo, HasRead
  <2>2. CASE Fork(t) \/ ForkFails(t) \/ CloseWriteEnds(t) \/ Drain(t) \/ Judge(t) \/ Wait(t)
    BY <1>0, <1>1, <2>2
    DEF Fork, ForkFails, CloseWriteEnds, Drain, Judge, Wait, GoTo, socket
  <2>3. CASE SendResult(t) \/ PrintNone(t) \/ PrintFailure(t) \/ PrintOutput(t)
    BY <1>0, <1>1, <2>3 DEF SendResult, PrintNone, PrintFailure, PrintOutput, Send, GoTo
  <2>4. CASE PipeFails(t)
    BY <2>4 DEF PipeFails, session, socket
  <2> QED
    BY <1>1, <2>1, <2>2, <2>3, <2>4 DEF Step
<1>2. ASSUME NEW t \in Sessions, ClientSends(t) \/ ClientLeaves(t)
      PROVE  UNCHANGED <<pc[s], conn[s], inbox[s]>>
  <2>1. t # s
    BY <1>2 DEF ClientSends, ClientLeaves, Doomed
  <2> QED
    BY <1>0, <1>2, <2>1 DEF ClientSends, ClientLeaves, session
<1>3. ASSUME NEW c \in children, Exits(c) PROVE UNCHANGED <<pc[s], conn[s], inbox[s]>>
  BY <1>3 DEF Exits, session, socket
<1>4. CASE UNCHANGED vars
  BY <1>4 DEF vars, session, socket
<1> QED
  BY <1>1, <1>2, <1>3, <1>4 DEF Next

\* A client that breaks off while its session waits for a line leaves the process no way
\* but to its end: the session makes a command of the error, cannot leave it, and dies
\* of the answer if nothing else ends the process before (ShellServ.cpp:56-58, 179).
\* This is the half of ResetTakesTheServerDown that needs no fairness.
THEOREM ResetsLeaveNoWayBack == Spec => [][NoWayBack]_vars
<1>1. ASSUME IInv, [Next]_vars, NEW s \in Sessions, Doomed(s), ~Step(s)
      PROVE  Doomed(s)' /\ StepsLeft(s)' = StepsLeft(s)
  BY <1>1, DoomedStays DEF Doomed, StepsLeft
<1>2. IInv /\ [Next]_vars => [NoWayBack]_vars
  BY <1>1, DoomedStep DEF NoWayBack
<1> QED
  BY <1>2, SpecIInv, PTL DEF Spec
=============================================================================
