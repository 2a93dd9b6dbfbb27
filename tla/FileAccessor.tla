---------------------------- MODULE FileAccessor ----------------------------
(***************************************************************************)
(* FileAccesser.cpp: the objects through which the clients' threads use the *)
(* files, one FileAccessor per file, each with its readers/writer lock.     *)
(*                                                                           *)
(* A call goes through three points: at "lock" it waits for the accessor's   *)
(* lock, at "in" it has the lock and runs the private i_ function, at "done"  *)
(* it has released the lock and returns its answer.  An open that got its     *)
(* descriptor passes "reg" while FileSupervisor::setFileDescriptor runs; this *)
(* module lets that call return, FileService joins it to the supervisor.      *)
(* A body and the release that follows it are one step, as nothing happens    *)
(* between them.  The lock behaves as RWLock does, which ReaderWriter shows.  *)
(*                                                                           *)
(* CHECKOPEN expands to `if(!open)', where open is the function open(2) and   *)
(* not the member opened, so it lets every call through and is no guard here. *)
(*                                                                           *)
(* The kernel is modelled by what the code uses of it: the descriptor table,  *)
(* open file descriptions with their position, files as sequences of blocks,  *)
(* and the processes that i_write forks.  A call on a file that is closed works *)
(* on whatever file has the old number by then.                               *)
(***************************************************************************)
EXTENDS Integers, Sequences, FiniteSetsExt

CONSTANTS
  Threads,      \* the threads that serve clients
  NoThread,
  Files,        \* the files, and with them their accessors
  MaxFd,        \* descriptors are 0..MaxFd
  MAX_LEN,      \* the longest read
  ReadSizes,    \* the values of read_w's argument; below 0 resize would throw
  Offsets,      \* the values of seek_w's argument
  OpenMayFail,  \* TRUE: open(2) may fail for any reason
  ForkMayFail,  \* TRUE: fork(2) may fail
  MaxOpens,     \* bound: successful calls of open(2)
  MaxWrites,    \* bound: calls of write_w
  MaxPos        \* the largest position in a file

ASSUME FileAssumption ==
  /\ NoThread \notin Threads
  /\ MaxFd \in Nat /\ MAX_LEN \in Nat
  /\ ReadSizes \subseteq Nat /\ Offsets \subseteq Int
  /\ {OpenMayFail, ForkMayFail} \subseteq BOOLEAN
  /\ {MaxOpens, MaxWrites, MaxPos} \subseteq Nat

VARIABLES
  fd, owners, opened,   \* the members of each accessor
  pc, call,             \* each thread's point and its call
  issued,               \* how many calls of write_w there were
  acked,                \* the writes answered OK, and whether their file was open
  table,                \* the descriptor table: descriptor -> description, or 0
  descs,                \* the open file descriptions, in the order of the opens
  content,              \* the blocks of each file; 0 is a hole
  children              \* the processes i_write forked that have yet to write

members == <<fd, owners, opened>>
threads == <<pc, call, issued>>
kernel  == <<table, descs, content, children>>
vars    == <<members, threads, acked, kernel>>

NoCall == [op |-> "none"]

Fds == 0..MaxFd
Ops == {"open", "close", "write", "read", "seek"}

\* The description behind descriptor n, 0 where the kernel answers EBADF.
DescOf(n) == IF n \in Fds THEN table[n] ELSE 0

\* The description that thread t's system call works on.
MyDesc(t) == DescOf(fd[call[t].file])

-----------------------------------------------------------------------------
\* Calls of the public functions.

Arguments(op) ==
  CASE op = "read"  -> ReadSizes
    [] op = "seek"  -> Offsets
    [] op = "write" -> {issued + 1} \ {MaxWrites + 1}
    [] OTHER        -> {0}

\* The opens under way, which the bound on opens counts.
Opening == {t \in Threads : call[t].op = "open"}

\* A call is made.  Writes are numbered in the order they are issued.
Call(t, op, f, arg) ==
  /\ pc[t] = "idle"
  /\ op = "open" => Len(descs) + Cardinality(Opening) < MaxOpens
  /\ pc' = [pc EXCEPT ![t] = "lock"]
  /\ call' = [call EXCEPT ![t] = [op |-> op, file |-> f, arg |-> arg]]
  /\ issued' = IF op = "write" THEN arg ELSE issued
  /\ UNCHANGED <<members, acked, kernel>>

\* The threads that hold the lock of f, to read and to write.
Inside(f)  == {t \in Threads : pc[t] \in {"in", "reg"} /\ call[t].file = f}
Readers(f) == {t \in Inside(f) : call[t].op = "read"}
Writers(f) == Inside(f) \ Readers(f)

\* rwlock_start_read returns in read_w, rwlock_start_write in the other calls.
Enter(t) ==
  /\ pc[t] = "lock"
  /\ IF call[t].op = "read" THEN Writers(call[t].file) = {}
                            ELSE Inside(call[t].file) = {}
  /\ pc' = [pc EXCEPT ![t] = "in"]
  /\ UNCHANGED <<members, call, issued, acked, kernel>>

In(t, op) == pc[t] = "in" /\ call[t].op = op

\* The lock is given back and the call answers.
Reply(t, status, code) ==
  /\ pc' = [pc EXCEPT ![t] = "done"]
  /\ call' = [call EXCEPT ![t] = [op |-> @.op, file |-> @.file,
                                  status |-> status, code |-> code]]
  /\ UNCHANGED issued

\* The caller has taken the answer.
Return(t) ==
  /\ pc[t] = "done"
  /\ pc' = [pc EXCEPT ![t] = "idle"]
  /\ call' = [call EXCEPT ![t] = NoCall]
  /\ UNCHANGED <<members, issued, acked, kernel>>

-----------------------------------------------------------------------------
\* i_open

\* A slip: the second open takes a share of the file before it answers.
OpenAgainCounts(t) ==
  LET f == call[t].file
  IN  /\ In(t, "open")
      /\ opened[f]
      /\ owners' = [owners EXCEPT ![f] = @ + 1]
      /\ Reply(t, "ERR", fd[f])
      /\ UNCHANGED <<fd, opened, acked, kernel>>

OpenAgain(t) ==
  /\ In(t, "open")
  /\ opened[call[t].file]
  /\ Reply(t, "ERR", fd[call[t].file])
  /\ UNCHANGED <<members, acked, kernel>>

\* open(2) gives the lowest free descriptor, at position 0.
OpenFile(t) ==
  LET f == call[t].file
  IN  /\ In(t, "open")
      /\ ~opened[f]
      /\ \E n \in Fds :
           /\ table[n] = 0 /\ \A m \in 0..(n - 1) : table[m] # 0
           /\ table' = [table EXCEPT ![n] = Len(descs) + 1]
           /\ fd' = [fd EXCEPT ![f] = n]
      /\ descs' = Append(descs, [file |-> f, pos |-> 0])
      /\ pc' = [pc EXCEPT ![t] = "reg"]
      /\ UNCHANGED <<owners, opened, call, issued, acked, content, children>>

\* open(2) answers -1, which `fdTmp < -1' does not notice.
OpenFails(t) ==
  /\ In(t, "open")
  /\ ~opened[call[t].file]
  /\ OpenMayFail \/ \A n \in Fds : table[n] # 0
  /\ fd' = [fd EXCEPT ![call[t].file] = -1]
  /\ pc' = [pc EXCEPT ![t] = "reg"]
  /\ UNCHANGED <<owners, opened, call, issued, acked, kernel>>

\* setFileDescriptor has returned.
OpenRegistered(t) ==
  LET f == call[t].file
  IN  /\ pc[t] = "reg"
      /\ opened' = [opened EXCEPT ![f] = TRUE]
      /\ owners' = [owners EXCEPT ![f] = @ + 1]
      /\ Reply(t, "OK", fd[f])
      /\ UNCHANGED <<fd, acked, kernel>>

-----------------------------------------------------------------------------
\* i_close

\* The owners that remain, and whether the file is closed under them all.
OwnersLeft(f) == IF owners[f] - 1 > 0 THEN owners[f] - 1 ELSE 0
Closes(f) == owners[f] - 1 <= 0

\* Slips: close(2) is not called, or opened is not cleared.
CloseWithoutClose(t) ==
  LET f == call[t].file
  IN  /\ In(t, "close")
      /\ owners' = [owners EXCEPT ![f] = OwnersLeft(f)]
      /\ opened' = [opened EXCEPT ![f] = @ /\ ~Closes(f)]
      /\ Reply(t, "OK", 0)
      /\ UNCHANGED <<fd, acked, kernel>>

CloseStaysOpen(t) ==
  LET f == call[t].file
      valid == DescOf(fd[f]) # 0
  IN  /\ In(t, "close")
      /\ owners' = [owners EXCEPT ![f] = OwnersLeft(f)]
      /\ table'  = IF Closes(f) /\ valid THEN [table EXCEPT ![fd[f]] = 0] ELSE table
      /\ Reply(t, IF Closes(f) /\ ~valid THEN "FAIL" ELSE "OK", 0)
      /\ UNCHANGED <<fd, opened, acked, descs, content, children>>

\* close(2) frees the descriptor, or fails if it is not open; the member fd
\* keeps its value.
Close(t) ==
  LET f == call[t].file
      valid == DescOf(fd[f]) # 0
  IN  /\ In(t, "close")
      /\ owners' = [owners EXCEPT ![f] = OwnersLeft(f)]
      /\ opened' = [opened EXCEPT ![f] = @ /\ ~Closes(f)]
      /\ table'  = IF Closes(f) /\ valid THEN [table EXCEPT ![fd[f]] = 0]
                                         ELSE table
      /\ Reply(t, IF Closes(f) /\ ~valid THEN "FAIL" ELSE "OK", 0)
      /\ UNCHANGED <<fd, acked, descs, content, children>>

-----------------------------------------------------------------------------
\* i_write, i_read and i_seek

\* fork(2) gives the child a copy of the descriptor table, so the child keeps the
\* description that the descriptor has now.  The parent's answer is OK whatever
\* fork returned.
Write(t) ==
  LET f == call[t].file
      w == [file |-> f, block |-> call[t].arg, opened |-> opened[f]]
  IN  /\ In(t, "write")
      /\ acked' = acked \union {w}
      /\ \/ children' = children \union {[desc |-> MyDesc(t), block |-> w.block]}
         \/ ForkMayFail /\ children' = children
      /\ Reply(t, "OK", 0)
      /\ UNCHANGED <<members, table, descs, content>>

\* At most MAX_LEN blocks are read, from the position of the description on.
Read(t) ==
  LET d == MyDesc(t)
      wanted == Min({call[t].arg, MAX_LEN})
      rest == Max({0, Len(content[descs[d].file]) - descs[d].pos})
      numRead == Min({wanted, rest})
  IN  /\ In(t, "read")
      /\ IF d = 0 THEN descs' = descs /\ Reply(t, "FAIL", 0)
                  ELSE /\ descs' = [descs EXCEPT ![d].pos = @ + numRead]
                       /\ Reply(t, "OK", numRead)
      /\ UNCHANGED <<members, acked, table, content, children>>

\* lseek(2) with SEEK_CUR: it refuses to leave the range of positions.
Seek(t) ==
  LET d == MyDesc(t)
      to == descs[d].pos + call[t].arg
  IN  /\ In(t, "seek")
      /\ IF d = 0 \/ to \notin 0..MaxPos
           THEN descs' = descs /\ Reply(t, "FAIL", 0)
           ELSE descs' = [descs EXCEPT ![d].pos = to] /\ Reply(t, "OK", 0)
      /\ UNCHANGED <<members, acked, table, content, children>>

-----------------------------------------------------------------------------
\* The forked child of i_write: one write at the position its description has by
\* then, and exit.  It holds no lock.

\* Block b in sequence s at position p, counted from 0.
Put(s, p, b) ==
  [i \in 1..Max({Len(s), p + 1}) |->
     IF i = p + 1 THEN b ELSE IF i \in DOMAIN s THEN s[i] ELSE 0]

Writable(d) == d # 0 /\ descs[d].pos <= MaxPos

\* Child c writes to description d and is gone.
Lands(c, d) ==
  LET f == descs[d].file
  IN  /\ Writable(d)
      /\ content' = [content EXCEPT ![f] = Put(@, descs[d].pos, c.block)]
      /\ children' = children \ {c}
      /\ UNCHANGED <<members, threads, acked, table>>

Advance(d) == descs' = [descs EXCEPT ![d].pos = @ + 1]

\* A slip: the children write (as threads of the server would) through the descriptor
\* that the accessor has by then.
ChildWritesByNumber(c) ==
  \E w \in acked :
    /\ w.block = c.block
    /\ Lands(c, DescOf(fd[w.file])) /\ Advance(DescOf(fd[w.file]))

ChildWrites(c) == Lands(c, c.desc) /\ Advance(c.desc)

\* write(2) fails, on a descriptor that is not open or for any reason of the kernel's,
\* and nobody hears of it.
ChildFails(c) ==
  /\ children' = children \ {c}
  /\ UNCHANGED <<members, threads, acked, table, descs, content>>

-----------------------------------------------------------------------------
Init ==
  /\ fd = [f \in Files |-> -1]
  /\ owners = [f \in Files |-> 0]
  /\ opened = [f \in Files |-> FALSE]
  /\ pc = [t \in Threads |-> "idle"]
  /\ call = [t \in Threads |-> NoCall]
  /\ issued = 0
  /\ acked = {} /\ children = {}
  /\ table = [n \in Fds |-> 0]
  /\ descs = <<>>
  /\ content = [f \in Files |-> <<>>]

Body(t) ==
  \/ OpenAgain(t) \/ OpenFile(t) \/ OpenFails(t) \/ OpenRegistered(t)
  \/ Close(t) \/ Write(t) \/ Read(t) \/ Seek(t)

Request(t) ==
  \E op \in Ops, f \in Files : \E arg \in Arguments(op) : Call(t, op, f, arg)

Child(c) == ChildWrites(c) \/ ChildFails(c)

Next ==
  \/ \E t \in Threads : Request(t) \/ Enter(t) \/ Body(t) \/ Return(t)
  \/ \E c \in children : Child(c)

Spec == Init /\ [][Next]_vars

-----------------------------------------------------------------------------
\* Properties.

Statuses == {"OK", "ERR", "FAIL"}
Pending  == [op : Ops \ {"read"}, file : Files, arg : Int]
              \union [op : {"read"}, file : Files, arg : Nat]
Answered == [op : Ops, file : Files, status : Statuses, code : Int]

MembersOK ==
  /\ fd \in [Files -> Fds \union {-1}]
  /\ owners \in [Files -> Nat]
  /\ opened \in [Files -> BOOLEAN]

ThreadsOK ==
  /\ pc \in [Threads -> {"idle", "lock", "in", "reg", "done"}]
  /\ call \in [Threads -> {NoCall} \union Pending \union Answered]
  /\ \A t \in Threads :
       /\ pc[t] \in {"lock", "in", "reg"} => call[t] \in Pending
       /\ pc[t] = "done" => call[t] \in Answered
  /\ issued \in 0..MaxWrites

KernelOK ==
  /\ descs \in Seq([file : Files, pos : Nat])
  /\ table \in [Fds -> 0..Len(descs)]
  /\ content \in [Files -> Seq(Int)]
  /\ children \subseteq [desc : 0..Len(descs), block : Int]

\* Every variable has its type.
TypeOK ==
  /\ MembersOK /\ ThreadsOK /\ KernelOK
  /\ acked \subseteq [file : Files, block : Int, opened : BOOLEAN]

\* Some thread has just opened f and is registering the descriptor.
Registering(f) == \E t \in Threads : pc[t] = "reg" /\ call[t].file = f

\* The count of owners never counts: a second open takes no share of the file
\* (i_open answers ERR before owners++), so the first close is the last.
OwnersIsAFlag == \A f \in Files : owners[f] = IF opened[f] THEN 1 ELSE 0

\* The file that the live descriptor n leads to, and whether its accessor remembers n.
FileOf(n) == descs[table[n]].file
Remembered(n) ==
  fd[FileOf(n)] = n /\ (opened[FileOf(n)] \/ Registering(FileOf(n)))

\* No descriptor is leaked, whatever the clients call in whatever order: a live
\* descriptor is the one that the open accessor of its own file remembers, so a
\* close of that accessor will free it.
NoDescriptorLeak == \A n \in Fds : table[n] # 0 => Remembered(n)

\* Each file is a FileStore, to any clients: a write that is performed late keeps to the
\* session it was accepted in, whatever was closed, opened and written since, and calls of
\* several clients and their late writes do not mix otherwise (FileAccesser.cpp:60-119).
\* A session is a description that leads to the file; it is going on while the description
\* is live.  A call on a closed file is a call to the store that has its number by then.
DescsOf(f) == {d \in DOMAIN descs : descs[d].file = f}
LiveOf(f)  == {d \in DescsOf(f) : \E n \in Fds : table[n] = d}

Store(f) ==
  INSTANCE FileStore WITH
    session   <- IF LiveOf(f) = {} THEN 0 ELSE CHOOSE d \in LiveOf(f) : TRUE,
    positions <- [d \in DescsOf(f) |-> descs[d].pos],
    pending   <- {[session |-> c.desc, block |-> c.block] :
                    c \in {c \in children : c.desc \in DescsOf(f)}},
    content   <- content[f]

ImplementsFileStore ==
  /\ \A f \in Files : Store(f)!Closed
  /\ [][\A f \in Files : [Store(f)!StoreNext]_(Store(f)!storeVars)]_vars

=============================================================================
