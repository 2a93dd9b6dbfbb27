--------------------------- MODULE ShellSessions ---------------------------
(***************************************************************************)
(* ShellServ.cpp: the sessions of the shell server, threads of one process.    *)
(* A session reads a line, runs it as a program in a forked process, reads what *)
(* that prints, and answers.  The sessions share the server's process, and with *)
(* it what is easily forgotten: a fork copies the pipe ends that the other       *)
(* sessions have open at that moment, wait(NULL) takes any child, and a signal   *)
(* kills them all.                                                              *)
(*                                                                           *)
(* A line is "run" (a command), "" (what CRLF leaves behind its CR), "CPRINT" or *)
(* "closed", and "half" one whose end the client did not send; of a program only   *)
(* matters whether it can be executed, prints nothing, something, or something     *)
(* that begins with its own name and a colon, and with which status it exits.      *)
(* Programs keep their descriptors until they exit.                               *)
(***************************************************************************)
EXTENDS Integers, Sequences, FiniteSets

CONSTANTS
  Sessions,     \* the threads, with their clients
  Outputs,      \* what programs print, a subset of {"text", "complaint", "nothing"}
  Statuses,     \* the statuses that programs exit with
  Lines,        \* what clients send, a subset of {"run", "", "CPRINT", "closed"}
  ForkMayFail,  \* TRUE: fork(2) may fail
  MaxLines      \* bound: lines that the clients send

ASSUME ShellAssumption ==
  /\ Outputs \subseteq {"text", "complaint", "nothing"}
  /\ Lines \subseteq {"run", "", "CPRINT", "closed"}
  /\ Statuses \subseteq 0..255
  /\ ForkMayFail \in BOOLEAN /\ MaxLines \in Nat

VARIABLES
  alive,     \* FALSE once the server process is gone
  pc,        \* each session's point
  program,   \* what its last command turned out to be
  answer,    \* the members message and exitstatus of its last CommandResult
  children,  \* the processes that were not waited for yet
  conn,      \* the state of each connection
  inbox,     \* the lines that the session has yet to read
  sent,      \* how many lines the clients sent
  said       \* what the session sent last

session == <<pc, program, answer>>
socket  == <<conn, inbox, sent, said>>
vars    == <<alive, session, children, socket>>

\* "recv" waits for a line, "exec" is about to fork with its pipes made, "forked" has
\* the child, "drain" has closed its write ends, "judge" has all the output, "wait"
\* is before wait(NULL), "send" before the answer, "left" has returned from start.
Points == {"recv", "exec", "forked", "drain", "judge", "wait", "send", "print",
           "left"}

\* What a command may turn out to be, and what execvp leaves of one it cannot find.
Programs == [prints : Outputs, status : Statuses]
Missing == [prints |-> "perror", status |-> 1]

NoProgram == [prints |-> "none", status |-> 0]
NoAnswer  == [prints |-> "none", exitstatus |-> 0]

Running == {c \in children : c.runs}

\* A slip: the server keeps its write ends while it reads.
PipedTooLong == {s \in Sessions : pc[s] \in {"exec", "forked", "drain"}}

\* The sessions whose pipes have their write ends open in the server.
Piped == {s \in Sessions : pc[s] \in {"exec", "forked"}}

At(s, p) == alive /\ pc[s] = p
GoTo(s, p) == pc' = [pc EXCEPT ![s] = p]

-----------------------------------------------------------------------------
\* The connections.  "fin": the client has closed; "gone": a send was answered with a
\* reset; "reset": the client has broken the connection off, which the next call
\* reports; "broken": it has been reported.

\* A client sends a line, closes, or breaks off.
ClientSends(s) ==
  /\ conn[s] = "open" /\ sent < MaxLines
  /\ \E l \in Lines : inbox' = [inbox EXCEPT ![s] = Append(@, l)]
  /\ sent' = sent + 1
  /\ UNCHANGED <<alive, session, children, conn, said>>

ClientLeaves(s) ==
  /\ conn[s] = "open"
  /\ \E c \in {"fin", "reset"} : conn' = [conn EXCEPT ![s] = c]
  /\ \/ UNCHANGED <<inbox, sent>>
     \/ /\ sent < MaxLines
        /\ inbox' = [inbox EXCEPT ![s] = Append(@, "half")]
        /\ sent' = sent + 1
  /\ UNCHANGED <<alive, session, children, said>>

\* send(2): SIGPIPE, which the server does not catch, ends the process.
Send(s, what) ==
  /\ said' = [said EXCEPT ![s] = what]
  /\ \/ conn[s] = "open"  /\ UNCHANGED <<alive, conn>>
     \/ conn[s] = "fin"   /\ UNCHANGED alive
                          /\ \E c \in {"fin", "gone"} : conn' = [conn EXCEPT ![s] = c]
     \/ conn[s] = "reset" /\ conn' = [conn EXCEPT ![s] = "broken"] /\ UNCHANGED alive
     \/ conn[s] \in {"gone", "broken"} /\ alive' = FALSE /\ UNCHANGED conn

-----------------------------------------------------------------------------
\* receive_full_message, and the tests that start makes on the line.

Obey(s, line) ==
  CASE line = "closed" -> GoTo(s, "left")
    [] line = "CPRINT" -> GoTo(s, "print")
    [] OTHER           -> GoTo(s, "exec")

\* A line is a program that can be run, or not.  The empty one cannot.
Takes(s, line) ==
  /\ Obey(s, line)
  /\ \E p \in IF line = "run" THEN Programs \union {Missing} ELSE {Missing} :
       program' = [program EXCEPT ![s] = IF line \in {"run", ""} THEN p ELSE @]
  /\ UNCHANGED <<alive, answer, children, sent, said>>

ReceiveLine(s) ==
  /\ At(s, "recv")
  /\ inbox[s] # <<>> /\ Head(inbox[s]) # "half"
  /\ inbox' = [inbox EXCEPT ![s] = Tail(@)]
  /\ Takes(s, Head(inbox[s]))
  /\ UNCHANGED conn

\* No more lines; a half one has been read.
NoLine(s) == inbox[s] \in {<<>>, <<"half">>}
Rest(s) == IF inbox[s] = <<>> THEN {""} ELSE Lines \ {""}
HasRead(s) == inbox' = [inbox EXCEPT ![s] = <<>>]

\* A slip: what was read so far is taken for a line here too.
ReceiveEndTakesRest(s) ==
  /\ At(s, "recv")
  /\ NoLine(s) /\ conn[s] \in {"fin", "gone", "broken"}
  /\ \E l \in IF inbox[s] = <<>> THEN {"closed"} ELSE Rest(s) : Takes(s, l)
  /\ HasRead(s)
  /\ UNCHANGED conn

\* recv answers 0.
ReceiveEnd(s) ==
  /\ At(s, "recv")
  /\ NoLine(s) /\ conn[s] \in {"fin", "gone", "broken"}
  /\ Takes(s, "closed")
  /\ HasRead(s)
  /\ UNCHANGED conn

\* A slip that would be a repair: an error ends the session.
ReceiveErrorLeaves(s) ==
  /\ At(s, "recv")
  /\ NoLine(s) /\ conn[s] = "reset"
  /\ conn' = [conn EXCEPT ![s] = "broken"]
  /\ Takes(s, "closed")
  /\ HasRead(s)

\* recv answers -1: the loop ends, and what was read so far is taken for a line.
ReceiveError(s) ==
  /\ At(s, "recv")
  /\ NoLine(s) /\ conn[s] = "reset"
  /\ conn' = [conn EXCEPT ![s] = "broken"]
  /\ \E l \in Rest(s) : Takes(s, l)
  /\ HasRead(s)

-----------------------------------------------------------------------------
\* exec

\* The kernel gives the child a pid that no other child has.
NewPid ==
  CHOOSE n \in 1..(Cardinality(children) + 1) : \A c \in children : c.pid # n

\* pipe(2) finds no descriptors, for the first pipe or for the second, and the server
\* exits.
PipeFails(s) ==
  /\ At(s, "exec")
  /\ alive' = FALSE
  /\ UNCHANGED <<session, children, socket>>

\* A slip: the child does not take the pipes of the other sessions along, nor its own.
ForkWithoutPipes(s) ==
  /\ At(s, "exec")
  /\ children' = children \union
                   {[of |-> s, pid |-> NewPid, holds |-> {}, runs |-> TRUE]}
  /\ GoTo(s, "forked")
  /\ UNCHANGED <<alive, program, answer, socket>>

\* The child has a copy of every write end that is open in the server.
Fork(s) ==
  /\ At(s, "exec")
  /\ children' = children \union
                   {[of |-> s, pid |-> NewPid, holds |-> Piped, runs |-> TRUE]}
  /\ GoTo(s, "forked")
  /\ UNCHANGED <<alive, program, answer, socket>>

\* fork(2) answers -1.  The parent goes on as if there were a child, which printed
\* nothing.
ForkFails(s) ==
  /\ At(s, "exec")
  /\ ForkMayFail
  /\ program' = [program EXCEPT ![s] = NoProgram]
  /\ GoTo(s, "forked")
  /\ UNCHANGED <<alive, answer, children, socket>>

\* The server closes its write ends.
CloseWriteEnds(s) ==
  /\ At(s, "forked")
  /\ GoTo(s, "drain")
  /\ UNCHANGED <<alive, program, answer, children, socket>>

\* Both pipes are read to the end, which comes when no process has a write end.
Drain(s) ==
  /\ At(s, "drain")
  /\ s \notin Piped
  /\ \A c \in Running : s \notin c.holds
  /\ GoTo(s, "judge")
  /\ UNCHANGED <<alive, program, answer, children, socket>>

\* What read(2) gave for the second pipe: 4 bytes if execvp failed, else 0.
exitcode(p) ==
  CASE p.prints = "perror"    -> 4
    [] p.prints = "complaint" -> -1
    [] OTHER                  -> 0

\* A slip, or the repair: a program that printed nothing is one whose name differs.
JudgeSilent(s) ==
  /\ At(s, "judge")
  /\ answer' = [answer EXCEPT ![s] = [prints |-> program[s].prints,
                                      exitstatus |-> exitcode(program[s])]]
  /\ GoTo(s, "wait")
  /\ UNCHANGED <<alive, program, children, socket>>

\* The output is compared with the program's name, up to the first colon.
Judge(s) ==
  /\ At(s, "judge")
  /\ IF program[s].prints \in {"nothing", "none"}   \* no token: strcmp(.., NULL)
       THEN alive' = FALSE /\ UNCHANGED <<pc, answer>>
       ELSE /\ answer' = [answer EXCEPT ![s] = [prints |-> program[s].prints,
                                                exitstatus |-> exitcode(program[s])]]
            /\ GoTo(s, "wait")
            /\ UNCHANGED alive
  /\ UNCHANGED <<program, children, socket>>

\* A slip: the session does not wait.
WaitNot(s) ==
  /\ At(s, "wait")
  /\ GoTo(s, "send")
  /\ UNCHANGED <<alive, program, answer, children, socket>>

\* wait(NULL) takes any child that has exited, and fails at once if there is none.
Wait(s) ==
  /\ At(s, "wait")
  /\ IF children = {}
       THEN UNCHANGED children
       ELSE \E c \in children \ Running : children' = children \ {c}
  /\ GoTo(s, "send")
  /\ UNCHANGED <<alive, program, answer, socket>>

\* A program exits, with whatever it has open.
Exits(c) ==
  /\ c.runs
  /\ children' = (children \ {c}) \union {[c EXCEPT !.runs = FALSE]}
  /\ UNCHANGED <<alive, session, socket>>

-----------------------------------------------------------------------------
\* The answers.

Verdict(a) ==
  CASE a.exitstatus = 0  -> "OK"
    [] a.exitstatus = -1 -> "ERR"
    [] OTHER             -> "FAIL"

SendResult(s) ==
  /\ At(s, "send")
  /\ Send(s, Verdict(answer[s]))
  /\ GoTo(s, "recv")
  /\ UNCHANGED <<program, answer, children, inbox, sent>>

\* CPRINT: the last result once more.  Of a success the output is sent first and the
\* verdict by the next action.
PrintNone(s) ==
  /\ At(s, "print")
  /\ answer[s] = NoAnswer
  /\ Send(s, "ERR")
  /\ GoTo(s, "recv")
  /\ UNCHANGED <<program, answer, children, inbox, sent>>

PrintFailure(s) ==
  /\ At(s, "print")
  /\ answer[s].exitstatus # 0
  /\ Send(s, "FAIL")
  /\ GoTo(s, "recv")
  /\ UNCHANGED <<program, answer, children, inbox, sent>>

PrintOutput(s) ==
  /\ At(s, "print")
  /\ answer[s] # NoAnswer /\ answer[s].exitstatus = 0
  /\ Send(s, "output")
  /\ GoTo(s, "send")
  /\ UNCHANGED <<program, answer, children, inbox, sent>>

-----------------------------------------------------------------------------
Init ==
  /\ alive = TRUE
  /\ pc = [s \in Sessions |-> "recv"]
  /\ program = [s \in Sessions |-> NoProgram]
  /\ answer = [s \in Sessions |-> NoAnswer]
  /\ children = {}
  /\ conn = [s \in Sessions |-> "open"]
  /\ inbox = [s \in Sessions |-> <<>>]
  /\ sent = 0
  /\ said = [s \in Sessions |-> "nothing"]

Step(s) ==
  \/ ReceiveLine(s) \/ ReceiveEnd(s) \/ ReceiveError(s)
  \/ PipeFails(s) \/ Fork(s) \/ ForkFails(s)
  \/ CloseWriteEnds(s) \/ Drain(s) \/ Judge(s) \/ Wait(s)
  \/ SendResult(s) \/ PrintNone(s) \/ PrintFailure(s) \/ PrintOutput(s)

Next ==
  \/ \E s \in Sessions : Step(s) \/ ClientSends(s) \/ ClientLeaves(s)
  \/ \E c \in children : Exits(c)

Spec == Init /\ [][Next]_vars

\* The threads run, and programs come to an end.  Clients may do nothing.
FairSpec ==
  /\ Spec
  /\ \A s \in Sessions : WF_vars(Step(s))
  /\ WF_vars(\E c \in children : Exits(c))

-----------------------------------------------------------------------------
\* Properties.

\* Every variable has its type.
TypeOK ==
  /\ alive \in BOOLEAN
  /\ pc \in [Sessions -> Points]
  /\ \A s \in Sessions :
       /\ program[s] \in Programs \union {Missing, NoProgram}
       /\ answer[s].exitstatus \in {-1, 0, 4}
       /\ Len(inbox[s]) <= sent
       /\ conn[s] \in {"open", "fin", "gone", "reset", "broken"}
       /\ said[s] \in {"nothing", "OK", "ERR", "FAIL", "output"}
  /\ sent \in 0..MaxLines
  /\ \A c \in children : c.of \in Sessions /\ c.holds \subseteq Sessions

\* Although a session may take another's child, there are always as many children as
\* sessions that forked one and have yet to wait: no wait(NULL) is without a child,
\* and no child is left over (ShellServ.cpp:84, 126).
OneChildPerWait ==
  Cardinality(children) =
    Cardinality({s \in Sessions : /\ pc[s] \in {"forked", "drain", "judge", "wait"}
                                 /\ program[s] # NoProgram})

\* A session answers only what its program has finished printing: by then that has
\* exited (ShellServ.cpp:107-111).
AnswersAfterItsProgram ==
  \A s \in Sessions : pc[s] \in {"judge", "wait", "send"} =>
    \A c \in Running : c.of # s

\* Every command comes to its answer, whatever pipe ends and children the sessions
\* take from each other, unless the server goes down.
EveryCommandIsAnswered ==
  \A s \in Sessions : pc[s] = "exec" ~> pc[s] = "recv" \/ ~alive

\* A command that the client did not finish is run only if the connection broke: a client
\* that closes in the middle of a line has it dropped (ShellServ.cpp:52-58).
HalfLinesRunOnlyAfterReset ==
  [][\A s \in Sessions :
       inbox[s] = <<"half">> /\ pc[s] = "recv" /\ pc'[s] \in {"exec", "print"}
         => conn'[s] = "broken"]_vars

\* A client that breaks off while its session waits for a line takes the server down,
\* with all other sessions: the error is taken for an empty command, and the answer to
\* it raises SIGPIPE (ShellServ.cpp:56-58, 179).
ResetTakesTheServerDown ==
  \A s \in Sessions :
    pc[s] = "recv" /\ inbox[s] = <<>> /\ conn[s] = "reset" ~> ~alive

\* A program that prints nothing takes the server down, with all other sessions, once
\* every program that has its pipe has exited: strtok finds no token in the output, and
\* strcmp gets a null pointer (ShellServ.cpp:118-119).
SilentProgramTakesTheServerDown ==
  \A s \in Sessions :
    pc[s] = "exec" /\ program[s].prints = "nothing" ~> ~alive

\* `OK ... Command was successful' (ShellServ.cpp:172): the program exited with 0.
SuccessIsReported ==
  \A s \in Sessions :
    pc[s] = "recv" /\ said[s] = "OK" => program[s].status = 0

=============================================================================
