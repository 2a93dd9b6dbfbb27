---------------------------- MODULE FileClients ----------------------------
(***************************************************************************)
(* FileAccesser.cpp under clients that share files as its answers suggest:   *)
(* anyone may try to open any file at any time, and whoever is told `file      *)
(* already opened, please use the supplied identifier' uses it too, even after   *)
(* it was closed.  Only the close is left to the client that got the file        *)
(* opened.  The module asks what FileAccessor cannot promise when clients close  *)
(* what others opened.                                                          *)
(***************************************************************************)
EXTENDS FileAccessor

VARIABLE holder   \* the client that each file was opened for, or NoThread

clientVars == <<vars, holder>>

\* Any call but a close is anyone's.  With its call of close a holder gives the file up.
PoliteRequest(t) ==
  \E op \in Ops, f \in Files : \E arg \in Arguments(op) :
    /\ op = "close" => holder[f] = t
    /\ Call(t, op, f, arg)
    /\ holder' = IF op = "close" THEN [holder EXCEPT ![f] = NoThread] ELSE holder

\* The holder learns that the file was opened from the answer OK.
PoliteReturn(t) ==
  /\ Return(t)
  /\ holder' = IF call[t].op = "open" /\ call[t].status = "OK"
                 THEN [holder EXCEPT ![call[t].file] = t] ELSE holder

PoliteInit == Init /\ holder = [f \in Files |-> NoThread]

PoliteNext ==
  \/ \E t \in Threads : PoliteRequest(t) \/ PoliteReturn(t)
  \/ /\ \/ \E t \in Threads : Enter(t) \/ Body(t)
        \/ \E c \in children : Child(c)
     /\ UNCHANGED holder

PoliteSpec == PoliteInit /\ [][PoliteNext]_clientVars

-----------------------------------------------------------------------------
\* Properties.

\* The descriptor of an open accessor is live and leads to the accessor's own file,
\* although i_close leaves the old number in fd and the kernel gives it out again.
DescriptorIsOwn ==
  \A f \in Files : opened[f] /\ fd[f] # -1 =>
    DescOf(fd[f]) # 0 /\ descs[DescOf(fd[f])].file = f

\* A write that was accepted while its file was open gets nowhere but to that file, and
\* there to one place, however late its child performs it, on whatever its copy of the
\* descriptor is (FileAccesser.cpp:95-98).  So each block in a file, unless it is a hole, is
\* of one accepted write and in no other place; that write was one to this very file, or
\* came when its own file was not open, which CHECKOPEN does not notice (line 13).
ContentIsWritten ==
  \A f \in Files : \A i \in DOMAIN content[f] : content[f][i] # 0 =>
    /\ \E w \in acked : w.block = content[f][i] /\ (w.opened => w.file = f)
    /\ \A g \in Files : \A j \in DOMAIN content[g] :
         content[g][j] = content[f][i] => g = f /\ j = i

=============================================================================
