---------------------------- MODULE FileService ----------------------------
(***************************************************************************)
(* The accessors and their supervisor together: i_open of FileAccesser.cpp    *)
(* calls FileSupervisor::setFileDescriptor while it holds the accessor's lock  *)
(* (FileAccesser.cpp:71).  FileAccessor takes that call to return; here it      *)
(* runs in the supervisor that FileSupervisor models.  The names of the files   *)
(* are the files.                                                               *)
(***************************************************************************)
EXTENDS FileAccessor

VARIABLES byString, byInt, reading, writer, alive, at, request

Supervisor == INSTANCE FileSupervisor WITH Names <- Files, Numbers <- Fds \union {-1}

supervisor == <<byString, byInt, reading, writer, alive, at, request>>

serviceVars == <<vars, supervisor>>

\* A slip, or a repair: i_open does not register the descriptor.
RegisterSkipped(t) == OpenRegistered(t) /\ UNCHANGED supervisor

\* Line 71 of i_open: setFileDescriptor is called, and i_open goes on once it has
\* returned.
Register(t) ==
  IF at[t] = "done" THEN OpenRegistered(t) /\ Supervisor!Return(t)
  ELSE /\ pc[t] = "reg"
       /\ Supervisor!Call(t, "setFd", call[t].file, fd[call[t].file])
       /\ UNCHANGED vars

\* What a thread does outside the supervisor.
Accessor(t) ==
  \/ Enter(t) \/ Return(t)
  \/ OpenAgain(t) \/ OpenFile(t) \/ OpenFails(t)
  \/ Close(t) \/ Write(t) \/ Read(t) \/ Seek(t)

ServiceStep(t) ==
  \/ Accessor(t) /\ UNCHANGED supervisor
  \/ Register(t)
  \/ Supervisor!Step(t) /\ UNCHANGED vars

ServiceInit == Init /\ Supervisor!Init

ServiceNext ==
  \/ \E t \in Threads : ServiceStep(t)
  \/ /\ \/ \E t \in Threads : Request(t)
        \/ \E c \in children : Child(c)
     /\ UNCHANGED supervisor

\* Every thread that can go on does.
ServiceSpec ==
  /\ ServiceInit
  /\ [][ServiceNext]_serviceVars
  /\ \A t \in Threads : WF_serviceVars(ServiceStep(t))

-----------------------------------------------------------------------------
\* Properties.

\* An open that hangs takes its file with it, and every other open: the thread
\* keeps the accessor's lock, so no call on that file gets in any more, and an
\* open of another file hangs at the supervisor's lock.
OpenWedgesFile ==
  [][\A t \in Threads :
       pc[t] = "reg" => /\ pc'[t] = "reg"
                        /\ Inside(call[t].file)' = {t}
                        /\ fd'[call[t].file] = fd[call[t].file]]_serviceVars

\* So no write that was answered OK ever gets to a file, whoever writes and whenever
\* (FileAccesser.cpp:71, 96): a write that finds a descriptor would have to get in beside
\* the open that waits.
NoWriteLands == \A f \in Files : content[f] = <<>>

\* i_write answers `Write will be completed' (FileAccesser.cpp:96) for writes that there is
\* a process to complete: whenever a write is accepted, its child is there.
AcceptedWriteHasAProcess ==
  [][\A w \in acked' \ acked : \E c \in children' : c.block = w.block]_serviceVars

=============================================================================
