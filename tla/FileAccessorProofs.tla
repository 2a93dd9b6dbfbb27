------------------------- MODULE FileAccessorProofs -------------------------
(***************************************************************************)
(* For any number of threads, files and descriptors, and clients that call     *)
(* whatever they like: the accessors' types, the owners that are a flag, the    *)
(* descriptors that are never leaked, and the files that are FileStores.          *)
(*                                                                           *)
(* NoDescriptorLeak alone is not inductive.  A close must take the file from     *)
(* its last owner, which needs OwnersIsAFlag, and nobody else may be between     *)
(* open(2) and the assignment to opened, which needs the accessors' locks.       *)
(*                                                                           *)
(* Then for clients that share the files and close what they opened: the         *)
(* descriptor of an open accessor leads to the accessor's own file, which needs     *)
(* that one client only may close it, and a write accepted by an open file gets     *)
(* to no other, which needs that a block is of one write and one child only.       *)
(*                                                                           *)
(* At the end, for the accessors with their supervisor: an open wedges its file,   *)
(* so that no write ever gets there, and the two keep to their own modules.        *)
(***************************************************************************)
EXTENDS FileClients, FileService, TLAPS

\* A thread that is inside an accessor, and does not read, is there alone.
LockIsKept ==
  \A t, u \in Threads :
    (/\ t # u
     /\ pc[t] \in {"in", "reg"} /\ pc[u] \in {"in", "reg"}
     /\ call[t].file = call[u].file)
      => call[t].op = "read" /\ call[u].op = "read"

\* Only opens register, and only for files that are not open.
RegistersAnOpen ==
  \A t \in Threads :
    pc[t] = "reg" => call[t].op = "open" /\ ~opened[call[t].file]

\* The inductive invariant.
IInv ==
  TypeOK /\ LockIsKept /\ RegistersAnOpen /\ OwnersIsAFlag /\ NoDescriptorLeak

\* The invariant holds at first.
LEMMA InitIInv == Init => IInv
<1> SUFFICES ASSUME Init PROVE IInv
  OBVIOUS
<1>1. TypeOK
  BY FileAssumption DEF Init, TypeOK, MembersOK, ThreadsOK, KernelOK, Fds, NoCall
<1>2. LockIsKept /\ RegistersAnOpen /\ OwnersIsAFlag
  BY DEF Init, LockIsKept, RegistersAnOpen, OwnersIsAFlag
<1>3. NoDescriptorLeak
  BY DEF Init, NoDescriptorLeak
<1> QED
  BY <1>1, <1>2, <1>3 DEF IInv

-----------------------------------------------------------------------------
\* Types.

\* The smaller and the larger of two numbers are one of them.
LEMMA MinMaxOfTwo ==
  ASSUME NEW a \in Int, NEW b \in Int
  PROVE  Min({a, b}) \in {a, b} /\ Max({a, b}) \in {a, b} /\ Max({a, b}) >= a
<1>1. \E x \in {a, b} : \A y \in {a, b} : x <= y
  BY DEF Min
<1>2. \E x \in {a, b} : \A y \in {a, b} : x >= y
  OBVIOUS
<1> QED
  BY <1>1, <1>2 DEF Min, Max

\* A thread that answers leaves the threads well typed.
LEMMA ReplyType ==
  ASSUME ThreadsOK, NEW t \in Threads, pc[t] \in {"in", "reg"},
         NEW status \in Statuses, NEW code \in Int, Reply(t, status, code)
  PROVE  ThreadsOK'
<1> DEFINE answer == [op |-> call[t].op, file |-> call[t].file,
                      status |-> status, code |-> code]
<1>1. call[t].op \in Ops /\ call[t].file \in Files
  BY DEF ThreadsOK, Pending, Ops
<1>2. answer \in Answered
  BY <1>1 DEF Answered
<1>3. /\ pc' = [pc EXCEPT ![t] = "done"]
      /\ call' = [call EXCEPT ![t] = answer]
      /\ issued' = issued
  BY DEF Reply
<1> HIDE DEF answer
<1> QED
  BY <1>2, <1>3 DEF ThreadsOK

\* Moving the position of one description leaves the rest of the kernel alone.
LEMMA MoveType ==
  ASSUME KernelOK, NEW d \in 1..Len(descs), NEW p \in Nat,
         descs' = [descs EXCEPT ![d].pos = p],
         UNCHANGED table
  PROVE  /\ descs' \in Seq([file : Files, pos : Nat])
         /\ Len(descs') = Len(descs)
         /\ \A e \in 1..Len(descs) : descs'[e].file = descs[e].file
<1> DEFINE D == [file : Files, pos : Nat]
<1>1. descs \in Seq(D)
  BY DEF KernelOK
<1>2. descs[d] \in D
  <2> HIDE DEF D
  <2> QED
    BY <1>1
<1>3. [descs[d] EXCEPT !.pos = p] \in D
  BY <1>2
<1>4. descs' = [descs EXCEPT ![d] = [descs[d] EXCEPT !.pos = p]]
  OBVIOUS
<1>5. [descs[d] EXCEPT !.pos = p].file = descs[d].file
  BY <1>2
<1> HIDE DEF D
<1>6. descs' \in Seq(D) /\ Len(descs') = Len(descs)
  BY <1>1, <1>3, <1>4
<1>7. \A e \in 1..Len(descs) : descs'[e].file = descs[e].file
  BY <1>1, <1>4, <1>5
<1> QED
  BY <1>6, <1>7 DEF D

\* What an open file description consists of.
LEMMA DescType ==
  ASSUME KernelOK, NEW d \in 1..Len(descs)
  PROVE  descs[d].file \in Files /\ descs[d].pos \in Nat
<1> DEFINE D == [file : Files, pos : Nat]
<1>1. descs \in Seq(D)
  BY DEF KernelOK
<1>2. descs[d] \in D
  <2> HIDE DEF D
  <2> QED
    BY <1>1
<1> QED
  BY <1>2

\* The description of an accessor that is in use is one of those that were made.
LEMMA MyDescType ==
  ASSUME TypeOK, NEW t \in Threads, pc[t] \in {"in", "reg"}
  PROVE  /\ call[t] \in Pending /\ call[t].file \in Files
         /\ MyDesc(t) \in 0..Len(descs)
<1>1. call[t] \in Pending
  BY DEF TypeOK, ThreadsOK
<1>2. call[t].file \in Files
  BY <1>1 DEF Pending
<1>3. fd[call[t].file] \in Fds \union {-1}
  BY <1>2 DEF TypeOK, MembersOK
<1>4. Len(descs) \in Nat /\ table \in [Fds -> 0..Len(descs)]
  BY DEF TypeOK, KernelOK
<1> QED
  BY <1>1, <1>2, <1>3, <1>4 DEF MyDesc, DescOf

\* Writing a block leaves a sequence of blocks.
LEMMA PutType ==
  ASSUME NEW s \in Seq(Int), NEW p \in Nat, NEW b \in Int
  PROVE  Put(s, p, b) \in Seq(Int)
<1> DEFINE n == Max({Len(s), p + 1})
<1>1. n \in Nat
  <2>1. Len(s) \in Int /\ p + 1 \in Int /\ Len(s) >= 0
    OBVIOUS
  <2>2. n \in {Len(s), p + 1}
    BY <2>1, MinMaxOfTwo
  <2> QED
    BY <2>1, <2>2
<1> HIDE DEF n
<1>2. \A i \in 1..n : (IF i = p + 1 THEN b ELSE IF i \in DOMAIN s THEN s[i] ELSE 0) \in Int
  OBVIOUS
<1>3. [i \in 1..n |-> IF i = p + 1 THEN b ELSE IF i \in DOMAIN s THEN s[i] ELSE 0]
        \in Seq(Int)
  BY <1>1, <1>2
<1> QED
  BY <1>3 DEF Put, n

\* A body leaves the variables well typed.
LEMMA BodyType ==
  ASSUME TypeOK, NEW t \in Threads, Body(t)
  PROVE  TypeOK'
<1> DEFINE f == call[t].file
<1> USE FileAssumption
<1>0. pc[t] \in {"in", "reg"} /\ ThreadsOK /\ KernelOK /\ MembersOK
  BY DEF TypeOK, Body, OpenAgain, OpenFile, OpenFails, OpenRegistered, Close, Write,
         Read, Seek, In
<1>m. /\ f \in Files /\ call[t] \in Pending /\ MyDesc(t) \in 0..Len(descs)
      /\ fd[f] \in Int
  BY <1>0, MyDescType DEF MembersOK, Fds
<1>1. CASE OpenAgain(t)
  <2>1. ThreadsOK'
    BY <1>0, <1>m, <1>1, ReplyType DEF OpenAgain, Statuses
  <2> QED
    BY <1>1, <2>1 DEF OpenAgain, TypeOK, MembersOK, KernelOK, members, kernel
<1>2. CASE OpenFile(t)
  <2>1. ThreadsOK' /\ MembersOK'
    BY <1>0, <1>m, <1>2 DEF OpenFile, In, ThreadsOK, MembersOK
  <2>2. descs' \in Seq([file : Files, pos : Nat]) /\ Len(descs') = Len(descs) + 1
    BY <1>0, <1>m, <1>2 DEF OpenFile, KernelOK
  <2>3. KernelOK'
    BY <1>0, <1>2, <2>2 DEF OpenFile, KernelOK
  <2> QED
    BY <1>0, <1>2, <2>1, <2>3 DEF OpenFile, TypeOK
<1>3. CASE OpenFails(t)
  BY <1>0, <1>m, <1>3
  DEF OpenFails, In, TypeOK, ThreadsOK, MembersOK, KernelOK, kernel
<1>4. CASE OpenRegistered(t)
  <2>1. ThreadsOK'
    BY <1>0, <1>m, <1>4, ReplyType DEF OpenRegistered, Statuses
  <2>2. MembersOK'
    BY <1>0, <1>m, <1>4 DEF OpenRegistered, MembersOK
  <2>3. KernelOK' /\ acked' = acked
    BY <1>0, <1>4 DEF OpenRegistered, KernelOK, kernel
  <2> QED
    BY <2>1, <2>2, <2>3 DEF TypeOK
<1>5. CASE Close(t)
  <2>1. ThreadsOK'
    BY <1>0, <1>m, <1>5, ReplyType DEF Close, Statuses
  <2>2. MembersOK'
    BY <1>0, <1>m, <1>5 DEF Close, MembersOK, OwnersLeft
  <2>3. Len(descs) \in Nat /\ table \in [Fds -> 0..Len(descs)]
    BY <1>0 DEF KernelOK
  <2>4. table' \in [Fds -> 0..Len(descs)]
    <3>1. table' = table \/ table' = [table EXCEPT ![fd[f]] = 0]
      BY <1>5 DEF Close
    <3> QED
      BY <2>3, <3>1
  <2>5. KernelOK'
    BY <1>0, <1>5, <2>4 DEF Close, KernelOK
  <2> QED
    BY <1>5, <2>1, <2>2, <2>5 DEF Close, TypeOK
<1>6. CASE Write(t)
  <2>1. ThreadsOK'
    BY <1>0, <1>m, <1>6, ReplyType DEF Write, Statuses
  <2>2. call[t].arg \in Int
    BY <1>m DEF Pending
  <2>3. children' \subseteq [desc : 0..Len(descs), block : Int]
    BY <1>0, <1>m, <1>6, <2>2 DEF Write, KernelOK
  <2> QED
    BY SMTT(30), <1>0, <1>m, <1>6, <2>1, <2>2, <2>3
    DEF Write, TypeOK, MembersOK, KernelOK, members
<1>7. CASE Read(t)
  <2> DEFINE d == MyDesc(t)
             wanted == Min({call[t].arg, MAX_LEN})
             rest == Max({0, Len(content[descs[d].file]) - descs[d].pos})
             numRead == Min({wanted, rest})
  <2>1. CASE d = 0
    BY <1>0, <1>m, <1>7, <2>1, ReplyType
    DEF Read, Statuses, TypeOK, MembersOK, KernelOK, members
  <2>2. CASE d # 0
    <3>1. d \in 1..Len(descs) /\ descs[d].file \in Files /\ descs[d].pos \in Nat
      BY <1>0, <1>m, <2>2, DescType
    <3>2. numRead \in Nat
      <4>1. call[t].arg \in Nat
        BY <1>m, <1>7 DEF Pending, Read, In
      <4>2. wanted \in {call[t].arg, MAX_LEN} /\ MAX_LEN \in Nat
        <5>1. call[t].arg \in Int /\ MAX_LEN \in Int /\ MAX_LEN \in Nat
          BY <4>1 DEF FileAssumption
        <5> QED
          BY <5>1, MinMaxOfTwo
      <4>3. Len(content[descs[d].file]) \in Int
        BY <1>0, <3>1 DEF KernelOK
      <4>4. rest \in Nat
        <5> DEFINE n == Len(content[descs[d].file]) - descs[d].pos
        <5>1. n \in Int
          BY <3>1, <4>3
        <5> HIDE DEF n
        <5>2. Max({0, n}) \in {0, n} /\ Max({0, n}) >= 0
          BY <5>1, MinMaxOfTwo
        <5>3. Max({0, n}) \in Nat
          BY <5>1, <5>2
        <5> QED
          BY <5>3 DEF n
      <4> HIDE DEF wanted, rest
      <4>5. wanted \in Nat
        BY <4>1, <4>2
      <4>6. Min({wanted, rest}) \in {wanted, rest}
        BY <4>4, <4>5, MinMaxOfTwo
      <4> QED
        BY <4>4, <4>5, <4>6
    <3> HIDE DEF numRead
    <3>3. /\ descs' = [descs EXCEPT ![d].pos = descs[d].pos + numRead]
          /\ Reply(t, "OK", numRead)
          /\ UNCHANGED <<members, acked, table, content, children>>
      BY <1>7, <2>2 DEF Read, numRead
    <3>4. ThreadsOK'
      BY <1>0, <3>2, <3>3, ReplyType DEF Statuses
    <3>5. /\ descs' \in Seq([file : Files, pos : Nat]) /\ Len(descs') = Len(descs)
          /\ UNCHANGED <<table, content, children>>
      <4>1. descs[d].pos + numRead \in Nat
        BY <3>1, <3>2
      <4> QED
        BY <1>0, <3>1, <3>3, <4>1, MoveType
    <3>6. KernelOK'
      BY <1>0, <3>5 DEF KernelOK
    <3> QED
      BY <3>3, <3>4, <3>6 DEF TypeOK, MembersOK, members
  <2> QED
    BY <2>1, <2>2
<1>8. CASE Seek(t)
  <2> DEFINE d == MyDesc(t)
             to == descs[d].pos + call[t].arg
  <2>1. CASE descs' = descs
    <3>1. ThreadsOK'
      <4>1. Reply(t, "FAIL", 0) \/ Reply(t, "OK", 0)
        BY <1>8 DEF Seek
      <4> QED
        BY <1>0, <4>1, ReplyType DEF Statuses
    <3> QED
      BY <1>0, <1>8, <2>1, <3>1 DEF Seek, TypeOK, MembersOK, KernelOK, members
  <2>2. CASE descs' # descs
    <3>1. d # 0 /\ to \in Nat
      BY <1>8, <2>2 DEF Seek, FileAssumption
    <3>2. d \in 1..Len(descs)
      BY <1>m, <3>1, <1>0 DEF KernelOK
    <3>3. descs' = [descs EXCEPT ![d].pos = to] /\ Reply(t, "OK", 0)
      BY <1>8, <2>2 DEF Seek
    <3>4. ThreadsOK'
      BY <1>0, <3>3, ReplyType DEF Statuses
    <3>5. /\ descs' \in Seq([file : Files, pos : Nat]) /\ Len(descs') = Len(descs)
          /\ UNCHANGED <<table, content, children>>
      BY <1>0, <1>8, <3>1, <3>2, <3>3, MoveType DEF Seek
    <3>6. KernelOK'
      BY <1>0, <3>5 DEF KernelOK
    <3> QED
      BY <1>8, <3>4, <3>6 DEF TypeOK, MembersOK, members, Seek
  <2> QED
    BY <2>1, <2>2
<1> QED
  BY <1>1, <1>2, <1>3, <1>4, <1>5, <1>6, <1>7, <1>8 DEF Body

\* So does a child.
LEMMA ChildType ==
  ASSUME TypeOK, NEW c \in children, Child(c)
  PROVE  TypeOK'
<1> USE FileAssumption
<1>0. KernelOK /\ c.desc \in 0..Len(descs) /\ c.block \in Int
  BY DEF TypeOK, KernelOK
<1>1. CASE ChildFails(c)
  BY <1>1 DEF ChildFails, TypeOK, MembersOK, ThreadsOK, KernelOK, members, threads
<1>2. CASE ChildWrites(c)
  <2> DEFINE f == descs[c.desc].file
             p == descs[c.desc].pos
  <2>1. c.desc \in 1..Len(descs)
    BY <1>0, <1>2 DEF ChildWrites, Lands, Writable, KernelOK
  <2>2. f \in Files /\ p \in Nat
    BY <1>0, <2>1, DescType
  <2>3. content' = [content EXCEPT ![f] = Put(content[f], p, c.block)]
    BY <1>2 DEF ChildWrites, Lands
  <2>4. Put(content[f], p, c.block) \in Seq(Int)
    BY <1>0, <2>2, PutType DEF KernelOK
  <2>5. content' \in [Files -> Seq(Int)]
    BY <1>0, <2>3, <2>4 DEF KernelOK
  <2>6. descs' = [descs EXCEPT ![c.desc].pos = p + 1]
    BY <1>2 DEF ChildWrites, Advance
  <2>7. KernelOK'
    <3>1. /\ descs' \in Seq([file : Files, pos : Nat]) /\ Len(descs') = Len(descs)
          /\ table' = table /\ children' = children \ {c}
      <4>1. p + 1 \in Nat /\ table' = table /\ children' = children \ {c}
        BY <1>2, <2>2 DEF ChildWrites, Lands
      <4> QED
        BY <1>0, <2>1, <2>6, <4>1, MoveType
    <3> QED
      BY <1>0, <2>5, <3>1 DEF KernelOK
  <2> QED
    BY <1>2, <2>7 DEF ChildWrites, Lands, TypeOK, MembersOK, ThreadsOK, members, threads
<1> QED
  BY <1>1, <1>2 DEF Child

\* So does every step.
LEMMA TypeStep == TypeOK /\ [Next]_vars => TypeOK'
<1> SUFFICES ASSUME TypeOK, [Next]_vars PROVE TypeOK'
  OBVIOUS
<1> USE FileAssumption DEF TypeOK, MembersOK, ThreadsOK, KernelOK, members, threads, kernel
<1>1. ASSUME NEW t \in Threads, Request(t) PROVE TypeOK'
  <2>1. PICK op \in Ops, f \in Files : \E arg \in Arguments(op) : Call(t, op, f, arg)
    BY <1>1 DEF Request
  <2>2. PICK arg \in Arguments(op) : Call(t, op, f, arg)
    BY <2>1
  <2>3. [op |-> op, file |-> f, arg |-> arg] \in Pending
    BY DEF Arguments, Pending, Ops
  <2>4. (op = "write" => arg \in 0..MaxWrites)
    BY DEF Arguments
  <2>5. /\ pc' = [pc EXCEPT ![t] = "lock"]
        /\ call' = [call EXCEPT ![t] = [op |-> op, file |-> f, arg |-> arg]]
        /\ issued' = IF op = "write" THEN arg ELSE issued
        /\ UNCHANGED <<members, acked, kernel>>
    BY <2>2 DEF Call
  <2> QED
    BY <2>3, <2>4, <2>5
<1>2. ASSUME NEW t \in Threads, Enter(t) PROVE TypeOK'
  BY <1>2 DEF Enter
<1>3. ASSUME NEW t \in Threads, Return(t) PROVE TypeOK'
  BY <1>3 DEF Return
<1>4. CASE UNCHANGED vars
  BY <1>4 DEF vars
<1> QED
  BY <1>1, <1>2, <1>3, <1>4, BodyType, ChildType DEF Next

-----------------------------------------------------------------------------
\* The accessors' locks.

\* A thread that is inside stays inside with the call it has, or leaves; it is
\* Enter alone that lets one in.
LEMMA Advances ==
  ASSUME TypeOK, NEW t \in Threads,
         Request(t) \/ Body(t) \/ Return(t)
  PROVE  /\ \A u \in Threads \ {t} : pc'[u] = pc[u] /\ call'[u] = call[u]
         /\ pc'[t] \in {"in", "reg"} => pc[t] = "in" /\ call'[t] = call[t]
<1>1. pc \in [Threads -> {"idle", "lock", "in", "reg", "done"}] /\ DOMAIN call = Threads
  BY DEF TypeOK, ThreadsOK
<1> QED
  BY <1>1
  DEF Request, Call, Return, Body, OpenAgain, OpenFile, OpenFails, OpenRegistered,
      Close, Write, Read, Seek, In, Reply, members

\* Every step keeps the threads inside apart.
LEMMA LockStep == TypeOK /\ LockIsKept /\ [Next]_vars => LockIsKept'
<1> SUFFICES ASSUME TypeOK, LockIsKept, [Next]_vars PROVE LockIsKept'
  OBVIOUS
<1>1. ASSUME NEW t \in Threads, Request(t) \/ Body(t) \/ Return(t)
      PROVE  LockIsKept'
  BY <1>1, Advances DEF LockIsKept
<1>2. ASSUME NEW t \in Threads, Enter(t) PROVE LockIsKept'
  BY <1>2 DEF Enter, Inside, Readers, Writers, LockIsKept, TypeOK, ThreadsOK
<1>3. ASSUME NEW c \in children, Child(c) PROVE LockIsKept'
  BY <1>3 DEF Child, ChildWrites, Lands, ChildFails, threads, LockIsKept
<1>4. CASE UNCHANGED vars
  BY <1>4 DEF vars, threads, LockIsKept
<1> QED
  BY <1>1, <1>2, <1>3, <1>4 DEF Next

-----------------------------------------------------------------------------
\* The owners and the descriptors.

\* The two invariants that depend on each other.
FlagInv == RegistersAnOpen /\ OwnersIsAFlag

\* Every step keeps them.
LEMMA FlagStep == TypeOK /\ LockIsKept /\ FlagInv /\ [Next]_vars => FlagInv'
<1> SUFFICES ASSUME TypeOK, LockIsKept, FlagInv, [Next]_vars PROVE FlagInv'
  OBVIOUS
<1> USE DEF FlagInv, RegistersAnOpen, OwnersIsAFlag
<1>0. /\ pc \in [Threads -> {"idle", "lock", "in", "reg", "done"}] /\ DOMAIN call = Threads
      /\ MembersOK
      /\ \A t \in Threads : pc[t] \in {"in", "reg"} => call[t].file \in Files
  BY DEF TypeOK, ThreadsOK, Pending
<1>1. ASSUME NEW t \in Threads, Request(t) \/ Enter(t) \/ Return(t) PROVE FlagInv'
  BY <1>0, <1>1 DEF Request, Call, Enter, Return, members
<1>2. ASSUME NEW t \in Threads, Body(t) PROVE FlagInv'
  <2> USE DEF In, Reply, members
  <2>1. CASE OpenAgain(t) \/ Write(t) \/ Read(t) \/ Seek(t)
    BY <1>0, <2>1 DEF OpenAgain, Write, Read, Seek
  <2>2. CASE OpenFile(t) \/ OpenFails(t)
    BY <1>0, <2>2 DEF OpenFile, OpenFails, kernel
  <2>3. CASE OpenRegistered(t)
    BY <1>0, <2>3 DEF OpenRegistered, LockIsKept, MembersOK
  <2>4. CASE Close(t)
    <3> DEFINE f == call[t].file
    <3>1. f \in Files /\ Closes(f) /\ OwnersLeft(f) = 0
      BY <1>0, <2>4 DEF Close, OwnersLeft, Closes, MembersOK
    <3>2. /\ owners' = [owners EXCEPT ![f] = 0]
          /\ opened' = [opened EXCEPT ![f] = FALSE]
          /\ pc' = [pc EXCEPT ![t] = "done"]
          /\ \A u \in Threads \ {t} : call'[u] = call[u]
      BY <1>0, <2>4, <3>1 DEF Close, MembersOK
    <3> QED
      BY <1>0, <3>1, <3>2 DEF MembersOK
  <2> QED
    BY <1>2, <2>1, <2>2, <2>3, <2>4 DEF Body
<1>3. ASSUME NEW c \in children, Child(c) PROVE FlagInv'
  BY <1>3 DEF Child, ChildWrites, Lands, ChildFails, threads, members
<1>4. CASE UNCHANGED vars
  BY <1>4 DEF vars, threads, members
<1> QED
  BY <1>1, <1>2, <1>3, <1>4 DEF Next

\* The position of a description is none of the descriptors' business.
LEMMA MoveKeeps ==
  ASSUME KernelOK, NEW d \in 1..Len(descs), NEW p,
         descs' = [descs EXCEPT ![d].pos = p]
  PROVE  /\ Len(descs') = Len(descs)
         /\ \A e \in 1..Len(descs) : descs'[e].file = descs[e].file
<1> DEFINE D == [file : Files, pos : Nat]
           new == [descs[d] EXCEPT !.pos = p]
<1>1. descs \in Seq(D)
  BY DEF KernelOK
<1>2. descs[d] \in D
  <2> HIDE DEF D
  <2> QED
    BY <1>1
<1>3. descs' = [descs EXCEPT ![d] = new]
  OBVIOUS
<1>4. new.file = descs[d].file
  BY <1>2
<1> HIDE DEF D, new
<1> QED
  BY <1>1, <1>3, <1>4

\* Nothing that the descriptors depend on changes.
LEMMA LeakKept ==
  ASSUME TypeOK, NoDescriptorLeak, UNCHANGED <<fd, opened, table>>,
         Len(descs') = Len(descs),
         \A d \in 1..Len(descs) : descs'[d].file = descs[d].file,
         \A t \in Threads : pc[t] = "reg" => pc'[t] = "reg" /\ call'[t] = call[t]
  PROVE  NoDescriptorLeak'
<1>1. Len(descs) \in Nat /\ table \in [Fds -> 0..Len(descs)]
  BY DEF TypeOK, KernelOK
<1>2. ASSUME NEW f, Registering(f) PROVE Registering(f)'
  BY <1>2 DEF Registering
<1>3. ASSUME NEW n \in Fds, table[n] # 0
      PROVE  descs'[table[n]].file = descs[table[n]].file
  BY <1>1, <1>3
<1> QED
  BY <1>2, <1>3 DEF NoDescriptorLeak, Remembered, FileOf

\* Every step leaves no descriptor leaked.
LEMMA LeakStep ==
  IInv /\ [Next]_vars => NoDescriptorLeak'
<1> SUFFICES ASSUME IInv, [Next]_vars PROVE NoDescriptorLeak'
  OBVIOUS
<1>0. /\ TypeOK /\ MembersOK /\ KernelOK /\ NoDescriptorLeak /\ LockIsKept /\ OwnersIsAFlag
      /\ pc \in [Threads -> {"idle", "lock", "in", "reg", "done"}] /\ DOMAIN call = Threads
      /\ \A t \in Threads : pc[t] \in {"in", "reg"} => call[t].file \in Files
  BY DEF IInv, TypeOK, ThreadsOK, Pending
<1>1. ASSUME NEW t \in Threads, Request(t) \/ Enter(t) \/ Return(t)
      PROVE  NoDescriptorLeak'
  <2>1. \A u \in Threads : pc[u] = "reg" => pc'[u] = "reg" /\ call'[u] = call[u]
    BY <1>0, <1>1 DEF Request, Call, Enter, Return
  <2> QED
    BY <1>0, <1>1, <2>1, LeakKept
    DEF Request, Call, Enter, Return, members, kernel
<1>2. ASSUME NEW t \in Threads, Body(t) PROVE NoDescriptorLeak'
  <2> DEFINE f == call[t].file
  <2>0. pc[t] \in {"in", "reg"} /\ f \in Files
    BY <1>0, <1>2
    DEF Body, OpenAgain, OpenFile, OpenFails, OpenRegistered, Close, Write, Read,
        Seek, In
  <2>a. \A u \in Threads \ {t} : pc'[u] = pc[u] /\ call'[u] = call[u]
    BY <1>0, <1>2, Advances
  <2>b. ASSUME NEW g, g # f, Registering(g) PROVE Registering(g)'
    BY <2>a, <2>b DEF Registering
  \* As long as f is not open and t is alone in it, no descriptor leads to f.
  <2>f. ASSUME ~opened[f], In(t, "open"), NEW n \in Fds, table[n] # 0
        PROVE  descs[table[n]].file # f
    BY <1>0, <2>f DEF In, LockIsKept, NoDescriptorLeak, Remembered, FileOf, Registering
  <2>1. CASE OpenAgain(t) \/ Write(t)
    <3>1. \A u \in Threads : pc[u] = "reg" => pc'[u] = "reg" /\ call'[u] = call[u]
      BY <2>a, <2>1 DEF OpenAgain, Write, In
    <3> QED
      BY <1>0, <2>1, <3>1, LeakKept DEF OpenAgain, Write, members, kernel
  <2>2. CASE Read(t) \/ Seek(t)
    <3>1. \A u \in Threads : pc[u] = "reg" => pc'[u] = "reg" /\ call'[u] = call[u]
      BY <2>a, <2>2 DEF Read, Seek, In
    <3>2. MyDesc(t) \in 0..Len(descs) /\ Len(descs) \in Nat
      BY <1>0, <2>0, MyDescType DEF KernelOK
    <3>3. \/ descs' = descs
          \/ /\ MyDesc(t) # 0
             /\ \E p : descs' = [descs EXCEPT ![MyDesc(t)].pos = p]
      BY <2>2 DEF Read, Seek
    <3>4. /\ Len(descs') = Len(descs)
          /\ \A e \in 1..Len(descs) : descs'[e].file = descs[e].file
      <4>1. CASE descs' = descs
        BY <4>1
      <4>2. ASSUME MyDesc(t) # 0, NEW p, descs' = [descs EXCEPT ![MyDesc(t)].pos = p]
            PROVE  /\ Len(descs') = Len(descs)
                   /\ \A e \in 1..Len(descs) : descs'[e].file = descs[e].file
        <5>1. MyDesc(t) \in 1..Len(descs)
          BY <3>2, <4>2
        <5> QED
          BY <1>0, <4>2, <5>1, MoveKeeps
      <4> QED
        BY <3>3, <4>1, <4>2
    <3> QED
      BY <1>0, <2>2, <3>1, <3>4, LeakKept DEF Read, Seek, members
  <2>3. CASE OpenFile(t)
    <3>1. PICK n \in Fds : /\ table[n] = 0
                          /\ table' = [table EXCEPT ![n] = Len(descs) + 1]
                          /\ fd' = [fd EXCEPT ![f] = n]
      BY <2>3 DEF OpenFile
    <3>2. /\ Len(descs) \in Nat /\ table \in [Fds -> 0..Len(descs)]
          /\ descs'[Len(descs) + 1].file = f
          /\ \A d \in 1..Len(descs) : descs'[d] = descs[d]
      BY <1>0, <2>3 DEF OpenFile, KernelOK
    <3>3. pc'[t] = "reg" /\ call'[t].file = f /\ opened' = opened
      BY <1>0, <2>3 DEF OpenFile, In
    <3>4. ASSUME NEW m \in Fds, table'[m] # 0 PROVE Remembered(m)'
      <4>1. CASE m = n
        <5>1. FileOf(m)' = f
          BY <3>1, <3>2, <4>1 DEF FileOf
        <5>2. fd'[f] = m
          BY <1>0, <2>0, <3>1, <4>1 DEF MembersOK
        <5> QED
          BY <3>3, <5>1, <5>2 DEF Remembered, Registering
      <4>2. CASE m # n
        <5>1. table'[m] = table[m] /\ table[m] # 0 /\ FileOf(m)' = FileOf(m)
          BY <3>1, <3>2, <3>4, <4>2 DEF FileOf
        <5>2. FileOf(m) # f
          BY <2>f, <2>3, <5>1 DEF OpenFile, FileOf
        <5>3. Remembered(m)
          BY <1>0, <5>1 DEF NoDescriptorLeak
        <5>4. fd'[FileOf(m)] = fd[FileOf(m)]
          BY <1>0, <3>1, <5>2 DEF MembersOK
        <5> QED
          BY <2>b, <3>3, <5>1, <5>2, <5>3, <5>4 DEF Remembered
      <4> QED
        BY <4>1, <4>2
    <3> QED
      BY <3>4 DEF NoDescriptorLeak
  <2>4. CASE OpenFails(t)
    <3>1. opened' = opened /\ table' = table /\ descs' = descs
      BY <2>4 DEF OpenFails, kernel
    <3>2. ASSUME NEW m \in Fds, table[m] # 0 PROVE Remembered(m)'
      <4>1. FileOf(m) # f
        BY <2>f, <2>4, <3>2 DEF OpenFails, FileOf
      <4>2. Remembered(m) /\ FileOf(m)' = FileOf(m)
        BY <1>0, <3>1, <3>2 DEF NoDescriptorLeak, FileOf
      <4>3. fd'[FileOf(m)] = fd[FileOf(m)]
        BY <1>0, <2>4, <4>1 DEF OpenFails, MembersOK
      <4> QED
        BY <2>b, <3>1, <4>1, <4>2, <4>3 DEF Remembered
    <3> QED
      BY <3>1, <3>2 DEF NoDescriptorLeak
  <2>5. CASE OpenRegistered(t)
    <3>1. fd' = fd /\ table' = table /\ descs' = descs /\ opened' = [opened EXCEPT ![f] = TRUE]
      BY <2>5 DEF OpenRegistered, kernel
    <3>2. ASSUME NEW m \in Fds, table[m] # 0 PROVE Remembered(m)'
      <4>1. Remembered(m) /\ FileOf(m)' = FileOf(m)
        BY <1>0, <3>1, <3>2 DEF NoDescriptorLeak, FileOf
      <4>2. FileOf(m) = f => opened'[f]
        BY <1>0, <2>0, <3>1 DEF MembersOK
      <4>3. FileOf(m) # f => opened'[FileOf(m)] = opened[FileOf(m)]
        BY <1>0, <3>1 DEF MembersOK
      <4> QED
        BY <2>b, <3>1, <4>1, <4>2, <4>3 DEF Remembered
    <3> QED
      BY <3>1, <3>2 DEF NoDescriptorLeak
  <2>6. CASE Close(t)
    <3>1. Closes(f) /\ fd' = fd /\ descs' = descs
      BY <1>0, <2>0, <2>6 DEF Close, Closes, OwnersIsAFlag, MembersOK
    <3>2. /\ opened' = [opened EXCEPT ![f] = opened[f] /\ ~Closes(f)]
          /\ table' = IF DescOf(fd[f]) # 0 THEN [table EXCEPT ![fd[f]] = 0] ELSE table
      BY <2>6, <3>1 DEF Close
    <3>3. ASSUME NEW m \in Fds, table'[m] # 0 PROVE Remembered(m)'
      <4>1. table[m] # 0 /\ table'[m] = table[m] /\ fd[f] # m
        BY <1>0, <3>2, <3>3 DEF DescOf, KernelOK
      <4>2. Remembered(m) /\ FileOf(m)' = FileOf(m)
        BY <1>0, <3>1, <4>1 DEF NoDescriptorLeak, FileOf
      <4>3. FileOf(m) # f
        BY <4>1, <4>2 DEF Remembered
      <4>4. opened'[FileOf(m)] = opened[FileOf(m)]
        BY <1>0, <3>2, <4>3 DEF MembersOK
      <4> QED
        BY <2>b, <3>1, <4>2, <4>3, <4>4 DEF Remembered
    <3> QED
      BY <3>3 DEF NoDescriptorLeak
  <2> QED
    BY <1>2, <2>1, <2>2, <2>3, <2>4, <2>5, <2>6 DEF Body
<1>3. ASSUME NEW c \in children, Child(c) PROVE NoDescriptorLeak'
  <2>1. Len(descs) \in Nat /\ c.desc \in 0..Len(descs)
    BY <1>0 DEF KernelOK
  <2>2. CASE descs' = descs
    BY <1>0, <1>3, <2>2, LeakKept
    DEF Child, ChildWrites, Lands, ChildFails, members, threads
  <2>3. CASE descs' # descs
    <3>1. ChildWrites(c)
      BY <1>3, <2>3 DEF Child, ChildFails
    <3>2. c.desc \in 1..Len(descs)
      BY <2>1, <3>1 DEF ChildWrites, Lands, Writable
    <3>3. descs' = [descs EXCEPT ![c.desc].pos = descs[c.desc].pos + 1]
      BY <3>1 DEF ChildWrites, Advance
    <3>4. /\ Len(descs') = Len(descs)
          /\ \A e \in 1..Len(descs) : descs'[e].file = descs[e].file
      BY <1>0, <3>2, <3>3, MoveKeeps
    <3> QED
      BY <1>0, <1>3, <3>4, LeakKept
      DEF Child, ChildWrites, Lands, ChildFails, members, threads
  <2> QED
    BY <2>2, <2>3
<1>4. CASE UNCHANGED vars
  BY <1>0, <1>4, LeakKept DEF vars, members, threads, kernel
<1> QED
  BY <1>1, <1>2, <1>3, <1>4 DEF Next

\* Every step keeps the invariant.
LEMMA NextIInv == IInv /\ [Next]_vars => IInv'
  BY TypeStep, LockStep, FlagStep, LeakStep DEF IInv, FlagInv

\* So it always holds.
LEMMA SpecIInv == Spec => []IInv
  BY InitIInv, NextIInv, PTL DEF Spec

\* Whatever the clients call, the variables of FileAccessor keep their types.
THEOREM TypeCorrect == Spec => []TypeOK
<1>1. IInv => TypeOK
  BY DEF IInv
<1> QED
  BY <1>1, SpecIInv, PTL

\* i_open and i_close count owners, but there is never more than one: the second
\* open of a file is answered before owners++.
THEOREM OwnersAreAFlag == Spec => []OwnersIsAFlag
<1>1. IInv => OwnersIsAFlag
  BY DEF IInv
<1> QED
  BY <1>1, SpecIInv, PTL

\* Every live descriptor belongs to the accessor of its own file, which is open or
\* about to be, so that a close of that file frees it.
THEOREM NothingIsLeaked == Spec => []NoDescriptorLeak
<1>1. IInv => NoDescriptorLeak
  BY DEF IInv
<1> QED
  BY <1>1, SpecIInv, PTL

-----------------------------------------------------------------------------
\* Clients that close what they opened.

\* A client has called close on f and not got into the accessor's answer.
Ending(t, f) == pc[t] \in {"lock", "in"} /\ call[t].op = "close" /\ call[t].file = f

\* A client has f and does not know yet.
Opener(t, f) ==
  pc[t] = "done" /\ call[t].op = "open" /\ call[t].file = f /\ call[t].status = "OK"

\* Either way f is open and has no holder.
HasFile(t, f) == Ending(t, f) \/ Opener(t, f)

\* An open file has one client at most that may close it: its holder, or one on the way
\* to be or to have been.
OneClient ==
  /\ holder \in [Files -> Threads \union {NoThread}]
  /\ \A f \in Files : holder[f] # NoThread => opened[f]
  /\ \A t \in Threads, f \in Files : HasFile(t, f) => opened[f] /\ holder[f] = NoThread
  /\ \A t, u \in Threads, f \in Files : HasFile(t, f) /\ HasFile(u, f) => t = u

\* The descriptor of f, if it is one, leads to f.
LeadsHome(f) ==
  fd[f] # -1 => fd[f] \in Fds /\ table[fd[f]] # 0 /\ FileOf(fd[f]) = f

\* Every accessor that is open, or about to be, has such a descriptor.
AccessorsLeadHome == \A f \in Files : opened[f] \/ Registering(f) => LeadsHome(f)

\* The invariant with clients that close what they opened.
PoliteInv == IInv /\ OneClient /\ AccessorsLeadHome

\* It holds at first.
LEMMA InitPoliteInv == PoliteInit => PoliteInv
  BY InitIInv, FileAssumption
  DEF PoliteInit, Init, PoliteInv, OneClient, HasFile, Ending, Opener, AccessorsLeadHome,
      LeadsHome, Registering

\* The clients' steps are steps of FileAccessor.
LEMMA PoliteStep == [PoliteNext]_clientVars => [Next]_vars
  BY DEF PoliteNext, PoliteRequest, PoliteReturn, Next, Request, clientVars

\* What the proofs use of the types.
LEMMA Facts ==
  ASSUME IInv
  PROVE  /\ pc \in [Threads -> {"idle", "lock", "in", "reg", "done"}]
         /\ DOMAIN call = Threads /\ opened \in [Files -> BOOLEAN] /\ DOMAIN fd = Files
         /\ \A t \in Threads : pc[t] \in {"lock", "in", "reg"} => call[t].file \in Files
         /\ \A t \in Threads : pc[t] = "done" => call[t].file \in Files
         /\ NoThread \notin Threads
  BY FileAssumption DEF IInv, TypeOK, ThreadsOK, MembersOK, Pending, Answered

-----------------------------------------------------------------------------
\* The clients.

\* Every step leaves the close of a file to one client.
LEMMA OneClientStep == IInv /\ OneClient /\ [PoliteNext]_clientVars => OneClient'
<1> SUFFICES ASSUME IInv, OneClient, [PoliteNext]_clientVars PROVE OneClient'
  OBVIOUS
<1> USE Facts DEF HasFile, Ending, Opener
<1>1. ASSUME NEW t \in Threads, PoliteRequest(t) PROVE OneClient'
  <2>1. PICK op \in Ops, f \in Files :
          /\ op = "close" => holder[f] = t
          /\ pc[t] = "idle" /\ opened' = opened
          /\ pc' = [pc EXCEPT ![t] = "lock"]
          /\ \E arg \in Arguments(op) :
               call' = [call EXCEPT ![t] = [op |-> op, file |-> f, arg |-> arg]]
          /\ holder' = IF op = "close" THEN [holder EXCEPT ![f] = NoThread] ELSE holder
    BY <1>1 DEF PoliteRequest, Call, members
  <2>2. /\ pc'[t] = "lock" /\ call'[t].op = op /\ call'[t].file = f
        /\ \A u \in Threads \ {t} : pc'[u] = pc[u] /\ call'[u] = call[u]
    BY <2>1
  <2>3. ASSUME NEW u \in Threads, NEW g \in Files, HasFile(u, g)'
        PROVE  (u = t /\ g = f /\ op = "close") \/ (u # t /\ HasFile(u, g))
    BY <2>2, <2>3
  <2>4. op = "close" => opened[f] /\ \A u \in Threads : ~HasFile(u, f)
    BY <2>1 DEF OneClient
  <2> QED
    BY <2>1, <2>3, <2>4 DEF OneClient
<1>2. ASSUME NEW t \in Threads, PoliteReturn(t) PROVE OneClient'
  <2>1. /\ pc[t] = "done" /\ opened' = opened
        /\ pc' = [pc EXCEPT ![t] = "idle"] /\ call' = [call EXCEPT ![t] = NoCall]
        /\ holder' = IF call[t].op = "open" /\ call[t].status = "OK"
                       THEN [holder EXCEPT ![call[t].file] = t] ELSE holder
    BY <1>2 DEF PoliteReturn, Return, members
  <2>2. ASSUME NEW u \in Threads, NEW g \in Files, HasFile(u, g)'
        PROVE  u # t /\ HasFile(u, g)
    BY <2>1, <2>2
  <2>3. CASE call[t].op = "open" /\ call[t].status = "OK"
    <3>1. call[t].file \in Files /\ HasFile(t, call[t].file)
      BY <2>1, <2>3
    <3> QED
      BY <2>1, <2>2, <2>3, <3>1 DEF OneClient
  <2>4. CASE ~(call[t].op = "open" /\ call[t].status = "OK")
    BY <2>1, <2>2, <2>4 DEF OneClient
  <2> QED
    BY <2>3, <2>4
<1>3. ASSUME NEW t \in Threads, Enter(t), holder' = holder PROVE OneClient'
  <2>1. /\ pc[t] = "lock" /\ pc' = [pc EXCEPT ![t] = "in"]
        /\ call' = call /\ opened' = opened
    BY <1>3 DEF Enter, members
  <2>2. ASSUME NEW u \in Threads, NEW g \in Files, HasFile(u, g)' PROVE HasFile(u, g)
    BY <2>1, <2>2
  <2> QED
    BY <1>3, <2>1, <2>2 DEF OneClient
<1>4. ASSUME NEW t \in Threads, Body(t), holder' = holder PROVE OneClient'
  <2> DEFINE f == call[t].file
  <2>0. f \in Files /\ pc[t] \in {"in", "reg"}
    BY <1>4
    DEF Body, OpenAgain, OpenFile, OpenFails, OpenRegistered, Close, Write, Read, Seek, In
  <2>1. \A u \in Threads \ {t} : pc'[u] = pc[u] /\ call'[u] = call[u]
    BY <1>4, Advances DEF IInv
  <2>2. ASSUME NEW u \in Threads, NEW g \in Files, u # t, HasFile(u, g)' PROVE HasFile(u, g)
    BY <2>1, <2>2
  <2>3. CASE OpenRegistered(t)
    <3>1. ~opened[f]
      BY <2>3 DEF OpenRegistered, IInv, RegistersAnOpen
    <3>2. holder[f] = NoThread /\ \A u \in Threads : ~HasFile(u, f)
      BY <2>0, <3>1 DEF OneClient
    <3>3. opened' = [opened EXCEPT ![f] = TRUE] /\ pc' = [pc EXCEPT ![t] = "done"]
          /\ call'[t].file = f
      BY <2>3 DEF OpenRegistered, Reply
    <3>4. ASSUME NEW g \in Files, HasFile(t, g)' PROVE g = f
      BY <3>3, <3>4
    <3> QED
      BY <1>4, <2>0, <2>2, <3>2, <3>3, <3>4 DEF OneClient
  <2>4. CASE Close(t)
    <3>1. HasFile(t, f)
      BY <2>4 DEF Close, In
    <3>2. /\ pc'[t] = "done" /\ call'[t].op = "close"
          /\ \A g \in Files : g # f => opened'[g] = opened[g]
      BY <2>0, <2>4 DEF Close, Reply, In
    <3>3. ASSUME NEW g \in Files PROVE ~HasFile(t, g)'
      BY <3>2
    <3> QED
      BY <1>4, <2>0, <2>2, <3>1, <3>2, <3>3 DEF OneClient
  <2>5. CASE ~OpenRegistered(t) /\ ~Close(t)
    <3>1. opened' = opened
      BY <1>4, <2>5 DEF Body, OpenAgain, OpenFile, OpenFails, Write, Read, Seek, members
    <3>2. ASSUME NEW g \in Files PROVE ~HasFile(t, g)'
      <4>1. CASE OpenAgain(t)
        BY <4>1 DEF OpenAgain, Reply
      <4>2. CASE OpenFile(t) \/ OpenFails(t)
        BY <4>2 DEF OpenFile, OpenFails
      <4>3. CASE Write(t) \/ Read(t) \/ Seek(t)
        BY <4>3 DEF Write, Read, Seek, Reply, In
      <4> QED
        BY <1>4, <2>5, <4>1, <4>2, <4>3 DEF Body
    <3> QED
      BY <1>4, <2>2, <3>1, <3>2 DEF OneClient
  <2> QED
    BY <2>3, <2>4, <2>5
<1>5. ASSUME NEW c \in children, Child(c), holder' = holder PROVE OneClient'
  BY <1>5 DEF Child, ChildWrites, Lands, ChildFails, members, threads, OneClient
<1>6. CASE UNCHANGED clientVars
  BY <1>6 DEF clientVars, vars, members, threads, OneClient
<1> QED
  BY <1>1, <1>2, <1>3, <1>4, <1>5, <1>6 DEF PoliteNext

-----------------------------------------------------------------------------
\* The descriptors.

\* Nothing changes that an accessor's way to its file depends on.
LEMMA HomeKept ==
  ASSUME IInv, AccessorsLeadHome, UNCHANGED <<fd, table>>,
         Len(descs') = Len(descs),
         \A d \in 1..Len(descs) : descs'[d].file = descs[d].file,
         \A f \in Files : opened'[f] \/ Registering(f)' => opened[f] \/ Registering(f)
  PROVE  AccessorsLeadHome'
<1>1. Len(descs) \in Nat /\ table \in [Fds -> 0..Len(descs)]
  BY DEF IInv, TypeOK, KernelOK
<1>2. ASSUME NEW n \in Fds, table[n] # 0 PROVE FileOf(n)' = FileOf(n)
  BY <1>1, <1>2 DEF FileOf
<1>3. ASSUME NEW f \in Files, LeadsHome(f) PROVE LeadsHome(f)'
  BY <1>2, <1>3 DEF LeadsHome
<1> QED
  BY <1>3 DEF AccessorsLeadHome

\* Every step leaves the accessors' descriptors leading home.
LEMMA HomeStep ==
  IInv /\ OneClient /\ AccessorsLeadHome /\ [Next]_vars => AccessorsLeadHome'
<1> SUFFICES ASSUME IInv, OneClient, AccessorsLeadHome, [Next]_vars
             PROVE  AccessorsLeadHome'
  OBVIOUS
<1>0. /\ TypeOK /\ MembersOK /\ KernelOK
      /\ Len(descs) \in Nat /\ table \in [Fds -> 0..Len(descs)]
  BY DEF IInv, TypeOK, KernelOK
<1> USE Facts
<1>1. ASSUME NEW t \in Threads, Request(t) \/ Enter(t) \/ Return(t)
      PROVE  AccessorsLeadHome'
  <2>1. \A u \in Threads : pc'[u] = "reg" => pc[u] = "reg" /\ call'[u] = call[u]
    BY <1>1 DEF Request, Call, Enter, Return
  <2>2. UNCHANGED <<fd, opened, table, descs>>
    BY <1>1 DEF Request, Call, Enter, Return, members, kernel
  <2>3. \A f \in Files : opened'[f] \/ Registering(f)' => opened[f] \/ Registering(f)
    BY <2>1, <2>2 DEF Registering
  <2> QED
    BY <2>2, <2>3, HomeKept
<1>2. ASSUME NEW t \in Threads, Body(t) PROVE AccessorsLeadHome'
  <2>0. PICK f \in Files : f = call[t].file /\ pc[t] \in {"in", "reg"}
    BY <1>2
    DEF Body, OpenAgain, OpenFile, OpenFails, OpenRegistered, Close, Write, Read, Seek, In
  <2>a. \A u \in Threads \ {t} : pc'[u] = pc[u] /\ call'[u] = call[u]
    BY <1>0, <1>2, Advances
  <2>b. ASSUME NEW g, g # f, Registering(g)' PROVE Registering(g)
    <3>1. call'[t].file = f \/ pc'[t] # "reg"
      BY <1>2, <2>0
      DEF Body, OpenAgain, OpenFile, OpenFails, OpenRegistered, Close, Write, Read, Seek, Reply
    <3> QED
      BY <2>0, <2>a, <2>b, <3>1 DEF Registering
  <2>c. ASSUME pc'[t] = "done", Registering(f)' PROVE Registering(f)
    BY <2>a, <2>c DEF Registering
  <2>1. CASE OpenAgain(t) \/ Write(t) \/ Read(t) \/ Seek(t)
    <3>1. pc'[t] = "done" /\ UNCHANGED <<fd, opened, table>>
      BY <2>0, <2>1 DEF OpenAgain, Write, Read, Seek, Reply, members, kernel
    <3>2. \A g \in Files : opened'[g] \/ Registering(g)' => opened[g] \/ Registering(g)
      BY <2>b, <2>c, <3>1
    <3>3. MyDesc(t) \in 0..Len(descs)
      BY <1>0, <2>0, MyDescType
    <3>4. \/ descs' = descs
          \/ /\ MyDesc(t) # 0
             /\ \E p : descs' = [descs EXCEPT ![MyDesc(t)].pos = p]
      BY <2>1 DEF OpenAgain, Write, Read, Seek, kernel
    <3>5. /\ Len(descs') = Len(descs)
          /\ \A e \in 1..Len(descs) : descs'[e].file = descs[e].file
      <4>1. MyDesc(t) # 0 => MyDesc(t) \in 1..Len(descs)
        BY <1>0, <3>3
      <4> QED
        BY <1>0, <3>4, <4>1, MoveKeeps
    <3> QED
      BY <3>1, <3>2, <3>5, HomeKept
  <2>2. CASE OpenRegistered(t)
    <3>1. /\ UNCHANGED <<fd, table, descs>> /\ opened' = [opened EXCEPT ![f] = TRUE]
          /\ Registering(f)
      BY <2>0, <2>2 DEF OpenRegistered, kernel, Registering
    <3>2. \A g \in Files : opened'[g] \/ Registering(g)' => opened[g] \/ Registering(g)
      BY <2>b, <3>1
    <3> QED
      BY <3>1, <3>2, HomeKept
  <2>3. CASE OpenFile(t)
    <3>1. PICK n \in Fds : /\ table[n] = 0
                          /\ table' = [table EXCEPT ![n] = Len(descs) + 1]
                          /\ fd' = [fd EXCEPT ![f] = n]
      BY <2>0, <2>3 DEF OpenFile
    <3>2. /\ descs'[Len(descs) + 1].file = f /\ opened' = opened
          /\ \A d \in 1..Len(descs) : descs'[d] = descs[d]
      BY <1>0, <2>0, <2>3 DEF OpenFile, KernelOK
    <3>3. LeadsHome(f)'
      <4>1. fd'[f] = n /\ table'[n] = Len(descs) + 1 /\ Len(descs) + 1 # 0
        BY <1>0, <2>0, <3>1
      <4> QED
        BY <3>2, <4>1 DEF LeadsHome, FileOf
    <3>4. ASSUME NEW g \in Files, g # f, opened'[g] \/ Registering(g)' PROVE LeadsHome(g)'
      <4>1. LeadsHome(g)
        BY <2>b, <3>2, <3>4 DEF AccessorsLeadHome
      <4>2. fd'[g] = fd[g]
        BY <3>1, <3>4
      <4>3. CASE fd[g] # -1
        <5>1. fd[g] \in Fds /\ table[fd[g]] # 0 /\ FileOf(fd[g]) = g
          BY <4>1, <4>3 DEF LeadsHome
        <5>2. table'[fd[g]] = table[fd[g]] /\ table[fd[g]] \in 1..Len(descs)
          BY <1>0, <3>1, <5>1
        <5> QED
          BY <3>2, <4>2, <5>1, <5>2 DEF LeadsHome, FileOf
      <4> QED
        BY <4>2, <4>3 DEF LeadsHome
    <3> QED
      BY <3>3, <3>4 DEF AccessorsLeadHome
  <2>4. CASE OpenFails(t)
    <3>1. /\ fd' = [fd EXCEPT ![f] = -1] /\ UNCHANGED <<opened, table, descs>>
      BY <2>0, <2>4 DEF OpenFails, kernel
    <3>2. ASSUME NEW g \in Files, opened'[g] \/ Registering(g)' PROVE LeadsHome(g)'
      <4>1. CASE g = f
        BY <2>0, <3>1, <4>1 DEF LeadsHome
      <4>2. CASE g # f
        <5>1. LeadsHome(g) /\ fd'[g] = fd[g]
          BY <2>b, <3>1, <3>2, <4>2 DEF AccessorsLeadHome
        <5> QED
          BY <3>1, <5>1 DEF LeadsHome, FileOf
      <4> QED
        BY <4>1, <4>2
    <3> QED
      BY <3>2 DEF AccessorsLeadHome
  <2>5. CASE Close(t)
    <3>1. opened[f]
      BY <2>0, <2>5 DEF Close, In, OneClient, HasFile, Ending
    <3>2. /\ Closes(f) /\ UNCHANGED <<fd, descs>>
          /\ \A g \in Files : g # f => opened'[g] = opened[g]
          /\ table' = IF DescOf(fd[f]) # 0 THEN [table EXCEPT ![fd[f]] = 0] ELSE table
      <4>1. Closes(f)
        BY <2>0, <3>1 DEF IInv, OwnersIsAFlag, Closes
      <4> QED
        BY <2>0, <2>5, <4>1 DEF Close
    <3>3. ~opened'[f] /\ ~Registering(f)'
      <4>1. ~opened'[f]
        BY <2>0, <2>5, <3>2 DEF Close
      <4>2. ~Registering(f)
        BY <3>1 DEF IInv, RegistersAnOpen, Registering
      <4> QED
        BY <2>c, <2>0, <2>5, <4>1, <4>2 DEF Close, Reply, In
    <3>4. ASSUME NEW g \in Files, g # f, opened'[g] \/ Registering(g)' PROVE LeadsHome(g)'
      <4>1. LeadsHome(g) /\ LeadsHome(f)
        BY <2>0, <2>b, <3>1, <3>2, <3>4 DEF AccessorsLeadHome
      <4>2. fd[g] # -1 => fd[g] # fd[f]
        BY <3>4, <4>1 DEF LeadsHome
      <4>3. ASSUME fd[g] # -1 PROVE table'[fd[g]] = table[fd[g]]
        BY <1>0, <3>2, <4>1, <4>2, <4>3 DEF LeadsHome, DescOf
      <4> QED
        BY <3>2, <4>1, <4>3 DEF LeadsHome, FileOf
    <3> QED
      BY <3>3, <3>4 DEF AccessorsLeadHome
  <2> QED
    BY <1>2, <2>1, <2>2, <2>3, <2>4, <2>5 DEF Body
<1>3. ASSUME NEW c \in children, Child(c) PROVE AccessorsLeadHome'
  <2>1. UNCHANGED <<fd, opened, table, pc, call>>
    BY <1>3 DEF Child, ChildWrites, Lands, ChildFails, members, threads
  <2>2. /\ Len(descs') = Len(descs)
        /\ \A e \in 1..Len(descs) : descs'[e].file = descs[e].file
    <3>1. CASE ChildWrites(c)
      <4>1. c.desc \in 1..Len(descs)
        BY <1>0, <3>1 DEF ChildWrites, Lands, Writable, KernelOK
      <4> QED
        BY <1>0, <3>1, <4>1, MoveKeeps DEF ChildWrites, Advance
    <3> QED
      BY <1>3, <3>1 DEF Child, ChildFails
  <2>3. \A f \in Files : opened'[f] \/ Registering(f)' => opened[f] \/ Registering(f)
    BY <2>1 DEF Registering
  <2> QED
    BY <2>1, <2>2, <2>3, HomeKept
<1>4. CASE UNCHANGED vars
  <2>1. UNCHANGED <<fd, opened, table, descs, pc, call>>
    BY <1>4 DEF vars, members, threads, kernel
  <2>2. \A f \in Files : opened'[f] \/ Registering(f)' => opened[f] \/ Registering(f)
    BY <2>1 DEF Registering
  <2> QED
    BY <2>1, <2>2, HomeKept
<1> QED
  BY <1>1, <1>2, <1>3, <1>4 DEF Next

\* Every step keeps the invariant.
LEMMA NextPoliteInv == PoliteInv /\ [PoliteNext]_clientVars => PoliteInv'
  BY PoliteStep, NextIInv, OneClientStep, HomeStep DEF PoliteInv

\* However many clients open, use and close however many files, and however the kernel
\* gives descriptors out again: an open accessor's leads to its own file.
THEOREM DescriptorsLeadHome == PoliteSpec => []DescriptorIsOwn
<1>1. PoliteInv => DescriptorIsOwn
  BY DEF PoliteInv, AccessorsLeadHome, LeadsHome, FileOf, DescriptorIsOwn, DescOf
<1> QED
  BY <1>1, InitPoliteInv, NextPoliteInv, PTL DEF PoliteSpec

-----------------------------------------------------------------------------
\* The files as FileStores.

\* The variables of a FileStore, as ImplementsFileStore takes them from the accessor.
AsSession(f)   == IF LiveOf(f) = {} THEN 0 ELSE CHOOSE d \in LiveOf(f) : TRUE
AsPositions(f) == [d \in DescsOf(f) |-> descs[d].pos]
AsPending(f)   ==
  {[session |-> c.desc, block |-> c.block] : c \in {c \in children : c.desc \in DescsOf(f)}}

\* A step of the file f as a FileStore, or a stutter.
StoreStep(f) == [Store(f)!StoreNext]_(Store(f)!storeVars)

\* The steps of FileStore in terms of these: nothing changes.
LEMMA StoreStays ==
  ASSUME NEW f \in Files, AsSession(f)' = AsSession(f), AsPositions(f)' = AsPositions(f),
         AsPending(f)' = AsPending(f), content'[f] = content[f]
  PROVE  StoreStep(f)
  BY DEF StoreStep, Store!storeVars, AsSession, AsPositions, AsPending

\* A session begins.
LEMMA StoreOpens ==
  ASSUME NEW f \in Files, AsSession(f) = 0,
         NEW d, d \notin DescsOf(f) \union {0}, AsSession(f)' = d,
         AsPositions(f)' = [e \in DescsOf(f) \union {d} |->
                              IF e = d THEN 0 ELSE AsPositions(f)[e]],
         AsPending(f)' = AsPending(f), content'[f] = content[f]
  PROVE  StoreStep(f)
<1>1. DOMAIN AsPositions(f) = DescsOf(f)
  BY DEF AsPositions
<1> HIDE DEF AsSession, AsPositions, AsPending
<1>2. /\ AsSession(f) = 0 /\ AsSession(f)' \notin DOMAIN AsPositions(f) \union {0}
      /\ AsPositions(f)' = [s \in DOMAIN AsPositions(f) \union {AsSession(f)'} |->
                              IF s = AsSession(f)' THEN 0 ELSE AsPositions(f)[s]]
      /\ AsPending(f)' = AsPending(f) /\ content'[f] = content[f]
  BY <1>1
<1> QED
  BY <1>2 DEF StoreStep, Store!StoreNext, Store!Open, AsSession, AsPositions, AsPending

\* The session ends.
LEMMA StoreCloses ==
  ASSUME NEW f \in Files, AsSession(f) # 0, AsSession(f)' = 0, AsPositions(f)' = AsPositions(f),
         AsPending(f)' = AsPending(f), content'[f] = content[f]
  PROVE  StoreStep(f)
  BY DEF StoreStep, Store!StoreNext, Store!Close, AsSession, AsPositions, AsPending

\* A write is accepted.
LEMMA StoreAccepts ==
  ASSUME NEW f \in Files, AsSession(f) # 0, AsSession(f)' = AsSession(f),
         AsPositions(f)' = AsPositions(f), NEW b,
         AsPending(f)' = AsPending(f) \union {[session |-> AsSession(f), block |-> b]},
         content'[f] = content[f]
  PROVE  StoreStep(f)
<1> DEFINE w == [session |-> AsSession(f), block |-> b]
<1>1. w \in AsPending(f)' /\ w.block = b
  OBVIOUS
<1>2. \E v \in AsPending(f)' :
        /\ AsSession(f) # 0
        /\ AsPending(f)' = AsPending(f) \union {[session |-> AsSession(f), block |-> v.block]}
        /\ AsSession(f)' = AsSession(f) /\ AsPositions(f)' = AsPositions(f)
        /\ content'[f] = content[f]
  BY <1>1
<1> QED
  BY <1>2 DEF StoreStep, Store!StoreNext, Store!Accept, AsSession, AsPositions, AsPending

\* The session reads.
LEMMA StoreReads ==
  ASSUME NEW f \in Files, AsSession(f) # 0, AsSession(f)' = AsSession(f),
         NEW n \in AsPositions(f)[AsSession(f)]..Len(content[f]),
         AsPositions(f)' = [AsPositions(f) EXCEPT ![AsSession(f)] = n],
         AsPending(f)' = AsPending(f), content'[f] = content[f]
  PROVE  StoreStep(f)
  BY DEF StoreStep, Store!StoreNext, Store!Read, AsSession, AsPositions, AsPending

\* The session moves.
LEMMA StoreSeeks ==
  ASSUME NEW f \in Files, AsSession(f) # 0, AsSession(f)' = AsSession(f), NEW n \in 0..MaxPos,
         AsPositions(f)' = [AsPositions(f) EXCEPT ![AsSession(f)] = n],
         AsPending(f)' = AsPending(f), content'[f] = content[f]
  PROVE  StoreStep(f)
  BY DEF StoreStep, Store!StoreNext, Store!Seek, AsSession, AsPositions, AsPending

\* An accepted write is performed.
LEMMA StorePerforms ==
  ASSUME NEW f \in Files, AsSession(f)' = AsSession(f), NEW w \in AsPending(f),
         NEW here, here = AsPositions(f)[w.session] + 1, AsPositions(f)[w.session] <= MaxPos,
         AsPositions(f)' = [AsPositions(f) EXCEPT ![w.session] = here],
         DOMAIN (content'[f]) = DOMAIN content[f] \union 1..here,
         \A i \in DOMAIN (content'[f]) :
           content'[f][i] = IF i = here THEN w.block
                            ELSE IF i \in DOMAIN content[f] THEN content[f][i] ELSE 0,
         AsPending(f)' = AsPending(f) \ {w}
  PROVE  StoreStep(f)
  BY DEF StoreStep, Store!StoreNext, Store!Perform, AsSession, AsPositions, AsPending

\* An accepted write fails.
LEMMA StoreDrops ==
  ASSUME NEW f \in Files, AsSession(f)' = AsSession(f), NEW w \in AsPending(f),
         AsPositions(f)' = AsPositions(f),
         content'[f] = content[f], AsPending(f)' = AsPending(f) \ {w}
  PROVE  StoreStep(f)
  BY DEF StoreStep, Store!StoreNext, Store!Drop, AsSession, AsPositions, AsPending
-----------------------------------------------------------------------------
\* What the steps do to sessions, positions and pending writes.

\* The session that is going on is the description behind the accessor's descriptor.
SessionsAreLive ==
  \A f \in Files :
    AsSession(f) = IF DescOf(fd[f]) # 0 /\ descs[DescOf(fd[f])].file = f
                     THEN DescOf(fd[f]) ELSE 0

\* It is, as no descriptor is leaked.
LEMMA SessionIs == IInv => SessionsAreLive
<1> SUFFICES ASSUME IInv, NEW f \in Files
             PROVE  AsSession(f) = IF DescOf(fd[f]) # 0 /\ descs[DescOf(fd[f])].file = f
                                     THEN DescOf(fd[f]) ELSE 0
  BY DEF SessionsAreLive
<1>1. /\ Len(descs) \in Nat /\ DOMAIN descs = 1..Len(descs)
      /\ table \in [Fds -> 0..Len(descs)]
      /\ fd[f] \in Fds \union {-1} /\ -1 \notin Fds
  BY FileAssumption DEF IInv, TypeOK, KernelOK, MembersOK, Fds
<1>2. ASSUME NEW d \in LiveOf(f) PROVE d = DescOf(fd[f]) /\ d # 0
  <2>1. PICK n \in Fds : table[n] = d
    BY DEF LiveOf
  <2>2. table[n] # 0 /\ FileOf(n) = f
    BY <1>1, <2>1 DEF LiveOf, DescsOf, FileOf
  <2>3. fd[f] = n
    BY <2>2 DEF IInv, NoDescriptorLeak, Remembered
  <2> QED
    BY <2>1, <2>2, <2>3 DEF DescOf
<1>3. CASE DescOf(fd[f]) # 0 /\ descs[DescOf(fd[f])].file = f
  <2>1. fd[f] \in Fds /\ table[fd[f]] = DescOf(fd[f]) /\ DescOf(fd[f]) \in DescsOf(f)
    BY <1>1, <1>3 DEF DescOf, DescsOf
  <2>2. LiveOf(f) = {DescOf(fd[f])}
    BY <1>2, <2>1 DEF LiveOf
  <2> QED
    BY <1>3, <2>2 DEF AsSession
<1>4. CASE ~(DescOf(fd[f]) # 0 /\ descs[DescOf(fd[f])].file = f)
  <2>1. LiveOf(f) = {}
    BY <1>2, <1>4 DEF LiveOf, DescsOf
  <2> QED
    BY <1>4, <2>1 DEF AsSession
<1> QED
  BY <1>3, <1>4

\* And after a step.
LEMMA SessionWillBe == IInv' => SessionsAreLive'
  BY SessionIs, PTL

\* Moving a position.
LEMMA Moved ==
  ASSUME KernelOK, NEW d \in 1..Len(descs), NEW p, descs' = [descs EXCEPT ![d].pos = p],
         NEW f \in Files
  PROVE  /\ DescsOf(f)' = DescsOf(f)
         /\ d \in DescsOf(f) => AsPositions(f)' = [AsPositions(f) EXCEPT ![d] = p]
         /\ d \notin DescsOf(f) => AsPositions(f)' = AsPositions(f)
<1> DEFINE D == [file : Files, pos : Nat]
           new == [descs[d] EXCEPT !.pos = p]
<1>1. descs \in Seq(D)
  BY DEF KernelOK
<1>2. descs[d] \in D
  <2> HIDE DEF D
  <2> QED
    BY <1>1
<1>3. descs' = [descs EXCEPT ![d] = new]
  OBVIOUS
<1>4. new.file = descs[d].file /\ new.pos = p
  BY <1>2
<1> HIDE DEF D, new
<1>5. DOMAIN descs = 1..Len(descs) /\ DOMAIN descs' = DOMAIN descs
  BY <1>1, <1>3
<1>6. \A e \in DOMAIN descs :
        descs'[e].file = descs[e].file /\ descs'[e].pos = IF e = d THEN p ELSE descs[e].pos
  BY <1>3, <1>4
<1>7. DescsOf(f)' = DescsOf(f)
  BY <1>5, <1>6 DEF DescsOf
<1>8. AsPositions(f)' = [e \in DescsOf(f) |-> IF e = d THEN p ELSE descs[e].pos]
  BY <1>6, <1>7 DEF AsPositions, DescsOf
<1> QED
  BY <1>7, <1>8 DEF AsPositions

\* The kernel is left alone.
LEMMA Untouched ==
  ASSUME UNCHANGED <<table, descs, content, children>>, NEW f \in Files
  PROVE  StoreStep(f)
<1>1. DescsOf(f)' = DescsOf(f)
  BY DEF DescsOf
<1>2. LiveOf(f)' = LiveOf(f)
  BY <1>1 DEF LiveOf
<1>3. /\ AsSession(f)' = AsSession(f) /\ AsPositions(f)' = AsPositions(f)
      /\ AsPending(f)' = AsPending(f)
  BY <1>1, <1>2 DEF AsSession, AsPositions, AsPending
<1> QED
  BY <1>3, StoreStays

\* open(2) begins a session of its file.
LEMMA OpenIsOpen ==
  ASSUME IInv, IInv', NEW t \in Threads, OpenFile(t), NEW f \in Files
  PROVE  StoreStep(f)
<1> DEFINE mine == call[t].file
           d == Len(descs) + 1
<1>0. /\ KernelOK /\ Len(descs) \in Nat /\ DOMAIN descs = 1..Len(descs)
      /\ table \in [Fds -> 0..Len(descs)] /\ pc[t] = "in" /\ mine \in Files
      /\ DOMAIN fd = Files
      /\ children \subseteq [desc : 0..Len(descs), block : Int]
      /\ d \notin DOMAIN descs /\ d # 0
  BY Facts DEF IInv, TypeOK, KernelOK, OpenFile, In
<1>1. PICK n \in Fds : /\ table[n] = 0
                      /\ table' = [table EXCEPT ![n] = d]
                      /\ fd' = [fd EXCEPT ![mine] = n]
  BY DEF OpenFile
<1>2. /\ descs' = Append(descs, [file |-> mine, pos |-> 0])
      /\ UNCHANGED <<children, content>>
  BY DEF OpenFile
<1>3. /\ DOMAIN descs' = DOMAIN descs \union {d}
      /\ descs'[d] = [file |-> mine, pos |-> 0]
      /\ \A e \in DOMAIN descs : descs'[e] = descs[e]
  BY <1>0, <1>2 DEF KernelOK
<1> HIDE DEF d
<1>4. DescsOf(f)' = IF f = mine THEN DescsOf(f) \union {d} ELSE DescsOf(f)
  BY <1>0, <1>3 DEF DescsOf
<1>5. AsPending(f)' = AsPending(f)
  BY <1>0, <1>2, <1>4 DEF AsPending, d
<1>6. CASE f = mine
  <2>1. ASSUME NEW m \in Fds, table[m] # 0 PROVE FileOf(m) # mine
    <3>1. ~opened[mine] /\ call[t].op = "open"
      BY DEF OpenFile, In
    <3>2. LockIsKept /\ NoDescriptorLeak
      BY DEF IInv
    <3> HIDE DEF IInv
    <3>3. ~Registering(mine)
      BY <1>0, <3>1, <3>2 DEF LockIsKept, Registering
    <3> QED
      BY <2>1, <3>1, <3>2, <3>3 DEF NoDescriptorLeak, Remembered
  <2>2. LiveOf(f) = {}
    BY <1>0, <1>6, <2>1 DEF LiveOf, DescsOf, FileOf
  <2>3. LiveOf(f)' = {d}
    <3>1. d \in LiveOf(f)'
      BY <1>0, <1>1, <1>4, <1>6 DEF LiveOf
    <3>2. ASSUME NEW e \in LiveOf(f)' PROVE e = d
      <4>1. PICK m \in Fds : table'[m] = e
        BY DEF LiveOf
      <4>2. e # d => e \in DescsOf(f) /\ table[m] = e
        BY <1>0, <1>1, <1>4, <1>6, <4>1 DEF LiveOf
      <4> QED
        BY <2>2, <4>2 DEF LiveOf
    <3> QED
      BY <3>1, <3>2
  <2>4. AsSession(f) = 0 /\ AsSession(f)' = d
    BY <2>2, <2>3 DEF AsSession
  <2>5. AsPositions(f)' = [e \in DescsOf(f) \union {d} |->
                             IF e = d THEN 0 ELSE AsPositions(f)[e]]
    BY <1>0, <1>3, <1>4, <1>6 DEF AsPositions, DescsOf
  <2>6. d \notin DescsOf(f) \union {0}
    BY <1>0 DEF DescsOf
  <2> QED
    BY <1>2, <1>5, <2>4, <2>5, <2>6, StoreOpens
<1>7. CASE f # mine
  <2>1. LiveOf(f)' = LiveOf(f)
    BY <1>0, <1>1, <1>4, <1>7 DEF LiveOf, DescsOf
  <2>2. AsSession(f)' = AsSession(f)
    BY <2>1 DEF AsSession
  <2>3. AsPositions(f)' = AsPositions(f)
    BY <1>0, <1>3, <1>4, <1>7 DEF AsPositions, DescsOf
  <2> QED
    BY <1>2, <1>5, <2>2, <2>3, StoreStays
<1> QED
  BY <1>6, <1>7

\* i_close ends the session that its number leads to, whose file it may be, and no other.
LEMMA CloseIsClose ==
  ASSUME IInv, IInv', NEW t \in Threads, Close(t), NEW f \in Files
  PROVE  StoreStep(f)
<1> DEFINE n == fd[call[t].file]
<1>0. /\ KernelOK /\ table \in [Fds -> 0..Len(descs)] /\ call[t].file \in Files
      /\ DOMAIN descs = 1..Len(descs) /\ Len(descs) \in Nat
  BY Facts DEF IInv, TypeOK, KernelOK, Close, In
<1>1. UNCHANGED <<fd, descs, content, children>>
  BY DEF Close
<1>2. table' = IF DescOf(n) # 0 THEN [table EXCEPT ![n] = 0] ELSE table
  <2>1. Closes(call[t].file)
    BY <1>0 DEF IInv, OwnersIsAFlag, Closes
  <2> QED
    BY <2>1 DEF Close
<1> HIDE DEF n
<1>3. DescsOf(f)' = DescsOf(f)
  BY <1>1 DEF DescsOf
<1>4. AsPositions(f)' = AsPositions(f) /\ AsPending(f)' = AsPending(f)
  BY <1>1, <1>3 DEF AsPositions, AsPending
<1>5. CASE DescOf(n) = 0
  BY <1>1, <1>2, <1>5, Untouched
<1>6. CASE DescOf(n) # 0
  <2>1. n \in Fds /\ table[n] # 0 /\ DescOf(n) = table[n]
    BY <1>6 DEF DescOf
  <2>2. table' = [table EXCEPT ![n] = 0]
    BY <1>2, <1>6
  <2>3. fd[descs[table[n]].file] = n
    BY <2>1 DEF IInv, NoDescriptorLeak, Remembered, FileOf
  <2>4. AsSession(f) = IF DescOf(fd[f]) # 0 /\ descs[DescOf(fd[f])].file = f
                         THEN DescOf(fd[f]) ELSE 0
    BY SessionIs DEF SessionsAreLive
  <2>5. AsSession(f)' = IF DescOf(fd[f])' # 0 /\ descs'[DescOf(fd[f])'].file = f
                          THEN DescOf(fd[f])' ELSE 0
    BY SessionWillBe DEF SessionsAreLive
  <2>6. DescOf(fd[f])' = IF fd[f] = n THEN 0 ELSE DescOf(fd[f])
    BY <1>0, <1>1, <2>1, <2>2 DEF DescOf
  <2>7. CASE f = descs[table[n]].file
    <3>1. AsSession(f) # 0 /\ AsSession(f)' = 0
      BY <2>1, <2>3, <2>4, <2>5, <2>6, <2>7
    <3> QED
      BY <1>1, <1>4, <3>1, StoreCloses
  <2>8. CASE f # descs[table[n]].file
    <3>1. AsSession(f)' = AsSession(f)
      BY <1>1, <2>1, <2>4, <2>5, <2>6, <2>8
    <3> QED
      BY <1>1, <1>4, <3>1, StoreStays
  <2> QED
    BY <2>7, <2>8
<1> QED
  BY <1>5, <1>6

\* Where the descriptor leads: to a session that is going on, of whatever file.
LEMMA MyDescIs ==
  ASSUME IInv, NEW t \in Threads, pc[t] = "in", MyDesc(t) # 0
  PROVE  /\ MyDesc(t) \in 1..Len(descs)
         /\ descs[MyDesc(t)].file \in Files
         /\ AsSession(descs[MyDesc(t)].file) = MyDesc(t)
<1> DEFINE n == fd[call[t].file]
           g == descs[MyDesc(t)].file
<1>0. TypeOK /\ KernelOK /\ Len(descs) \in Nat
  BY DEF IInv, TypeOK, KernelOK
<1>1. MyDesc(t) \in 1..Len(descs)
  <2>1. MyDesc(t) \in 0..Len(descs)
    BY <1>0, MyDescType
  <2> QED
    BY <1>0, <2>1
<1>2. g \in Files
  BY <1>0, <1>1, DescType
<1>3. n \in Fds /\ table[n] = MyDesc(t) /\ DescOf(n) = MyDesc(t)
  BY DEF MyDesc, DescOf
<1>4. fd[g] = n
  BY <1>3 DEF IInv, NoDescriptorLeak, Remembered, FileOf
<1>5. AsSession(g) = MyDesc(t)
  BY <1>2, <1>3, <1>4, SessionIs DEF SessionsAreLive
<1> QED
  BY <1>1, <1>2, <1>5

\* i_write gives the session a write to perform, or fork(2) failed.
LEMMA WriteIsAccepted ==
  ASSUME IInv, NEW t \in Threads, Write(t), NEW f \in Files
  PROVE  StoreStep(f)
<1> DEFINE d == MyDesc(t)
           b == call[t].arg
<1>1. d # 0 => d \in 1..Len(descs) /\ AsSession(descs[d].file) = d
  BY MyDescIs DEF Write, In
<1>2. /\ UNCHANGED <<table, descs, content>>
      /\ \/ children' = children \union {[desc |-> d, block |-> b]}
         \/ children' = children
  BY DEF Write
<1>3. DescsOf(f)' = DescsOf(f) /\ 0 \notin DescsOf(f)
  BY <1>2 DEF DescsOf, IInv, TypeOK, KernelOK
<1>4. AsSession(f)' = AsSession(f) /\ AsPositions(f)' = AsPositions(f)
  BY <1>2, <1>3 DEF AsSession, AsPositions, LiveOf
<1>5. CASE children' = children
  BY <1>2, <1>5, Untouched
<1>6. CASE children' = children \union {[desc |-> d, block |-> b]} /\ d \notin DescsOf(f)
  <2>1. AsPending(f)' = AsPending(f)
    BY <1>3, <1>6 DEF AsPending
  <2> QED
    BY <1>2, <1>4, <2>1, StoreStays
<1>7. CASE children' = children \union {[desc |-> d, block |-> b]} /\ d \in DescsOf(f)
  <2>1. AsPending(f)' = AsPending(f) \union {[session |-> d, block |-> b]}
    <3> DEFINE c == [desc |-> d, block |-> b]
    <3>1. {e \in children' : e.desc \in DescsOf(f)'} =
            {e \in children : e.desc \in DescsOf(f)} \union {c}
      BY <1>3, <1>7
    <3>2. c.desc = d /\ c.block = b
      OBVIOUS
    <3> HIDE DEF c, d, b
    <3> QED
      BY <3>1, <3>2 DEF AsPending
  <2>2. AsSession(f) = d /\ d # 0
    BY <1>1, <1>3, <1>7 DEF DescsOf
  <2> HIDE DEF d, b
  <2> QED
    BY <1>2, <1>4, <2>1, <2>2, StoreAccepts
<1> QED
  BY <1>2, <1>5, <1>6, <1>7

\* A step that moves the description of a session that is going on.
LEMMA SessionMoves ==
  ASSUME KernelOK, NEW d \in 1..Len(descs), NEW p, NEW f \in Files,
         descs' = [descs EXCEPT ![d].pos = p],
         UNCHANGED <<table, content, children>>
  PROVE  /\ AsSession(f)' = AsSession(f) /\ AsPending(f)' = AsPending(f)
         /\ d \in DescsOf(f) => AsPositions(f)' = [AsPositions(f) EXCEPT ![d] = p]
         /\ d \notin DescsOf(f) => AsPositions(f)' = AsPositions(f)
<1>1. /\ DescsOf(f)' = DescsOf(f)
      /\ d \in DescsOf(f) => AsPositions(f)' = [AsPositions(f) EXCEPT ![d] = p]
      /\ d \notin DescsOf(f) => AsPositions(f)' = AsPositions(f)
  BY Moved
<1>2. LiveOf(f)' = LiveOf(f)
  BY <1>1 DEF LiveOf
<1> QED
  BY <1>1, <1>2 DEF AsSession, AsPending

\* i_read stays within the file, or fails.
LEMMA ReadIsRead ==
  ASSUME IInv, NEW t \in Threads, Read(t), NEW f \in Files
  PROVE  StoreStep(f)
<1> DEFINE d == MyDesc(t)
           wanted == Min({call[t].arg, MAX_LEN})
           rest == Max({0, Len(content[descs[d].file]) - descs[d].pos})
           numRead == Min({wanted, rest})
<1>0. KernelOK /\ In(t, "read") /\ call[t] \in Pending
  BY DEF IInv, TypeOK, ThreadsOK, Read, In
<1>1. d # 0 => /\ d \in 1..Len(descs) /\ descs[d].file \in Files
               /\ AsSession(descs[d].file) = d
  BY <1>0, MyDescIs DEF In
<1>2. CASE d = 0
  BY <1>2, Untouched DEF Read
<1>3. CASE d # 0
  <2>1. /\ descs' = [descs EXCEPT ![d].pos = descs[d].pos + numRead]
        /\ UNCHANGED <<table, content, children>>
    BY <1>3 DEF Read
  <2>2. /\ d \in 1..Len(descs) /\ descs[d].file \in Files /\ descs[d].pos \in Nat
        /\ Len(content[descs[d].file]) \in Nat
    BY <1>0, <1>1, <1>3, DescType DEF KernelOK
  <2> DEFINE left == Len(content[descs[d].file]) - descs[d].pos
  <2>3. rest \in Nat /\ (left >= 0 => rest = left) /\ (left < 0 => rest = 0)
    <3>1. left \in Int
      BY <2>2
    <3> HIDE DEF left
    <3>2. Max({0, left}) \in {0, left} /\ Max({0, left}) >= 0 /\ Max({left, 0}) >= left
      BY <3>1, MinMaxOfTwo
    <3>3. {left, 0} = {0, left}
      OBVIOUS
    <3>4. /\ Max({0, left}) \in Nat
          /\ (left >= 0 => Max({0, left}) = left) /\ (left < 0 => Max({0, left}) = 0)
      BY <3>1, <3>2, <3>3
    <3> QED
      BY <3>4 DEF left
  <2>4. wanted \in Nat
    <3>1. call[t].arg \in Nat /\ MAX_LEN \in Nat
      BY <1>0, FileAssumption DEF Pending, In
    <3>2. call[t].arg \in Int /\ MAX_LEN \in Int
      BY <3>1
    <3>3. wanted \in {call[t].arg, MAX_LEN}
      BY <3>2, MinMaxOfTwo
    <3> QED
      BY <3>1, <3>3
  <2> HIDE DEF rest, wanted, left
  <2>5. numRead \in Nat /\ numRead <= rest
    <3>0. rest \in Int /\ wanted \in Int
      BY <2>3, <2>4
    <3>1. Min({wanted, rest}) \in {wanted, rest}
      BY <3>0, MinMaxOfTwo
    <3>2. \E x \in {wanted, rest} : \A y \in {wanted, rest} : x <= y
      BY <2>3, <2>4
    <3>3. Min({wanted, rest}) <= rest
      BY <3>2 DEF Min
    <3> QED
      BY <2>3, <2>4, <3>1, <3>3
  <2> DEFINE p == descs[d].pos + numRead
  <2>6. /\ p \in Nat /\ (left < 0 => p = descs[d].pos)
        /\ left >= 0 => p <= Len(content[descs[d].file])
    BY <2>2, <2>3, <2>5 DEF left
  <2>7. descs' = [descs EXCEPT ![d].pos = p]
    BY <2>1
  <2> HIDE DEF numRead, p
  <2>8. /\ AsSession(f)' = AsSession(f) /\ AsPending(f)' = AsPending(f)
        /\ d \in DescsOf(f) => AsPositions(f)' = [AsPositions(f) EXCEPT ![d] = p]
        /\ d \notin DescsOf(f) => AsPositions(f)' = AsPositions(f)
    BY <1>0, <2>1, <2>2, <2>7, SessionMoves
  <2>9. CASE d \notin DescsOf(f)
    BY <2>1, <2>8, <2>9, StoreStays
  <2>10. CASE d \in DescsOf(f)
    <3>1. AsSession(f) = d /\ descs[d].file = f
      BY <1>1, <1>3, <2>10 DEF DescsOf
    <3>2. AsPositions(f)[d] = descs[d].pos
      BY <2>10 DEF AsPositions
    <3>3. CASE left >= 0
      <4>1. p \in descs[d].pos..Len(content[f])
        BY <2>2, <2>5, <2>6, <3>1, <3>3 DEF p
      <4> QED
        BY <1>3, <2>1, <2>8, <2>10, <3>1, <3>2, <4>1, StoreReads
    <3>4. CASE left < 0
      <4>1. AsPositions(f)' = AsPositions(f)
        BY <2>6, <2>8, <2>10, <3>2, <3>4 DEF AsPositions
      <4> QED
        BY <2>1, <2>8, <4>1, StoreStays
    <3> QED
      BY <2>2, <3>3, <3>4 DEF left
  <2> QED
    BY <2>9, <2>10
<1> QED
  BY <1>2, <1>3

\* i_seek stays within the positions, or fails.
LEMMA SeekIsSeek ==
  ASSUME IInv, NEW t \in Threads, Seek(t), NEW f \in Files
  PROVE  StoreStep(f)
<1> DEFINE d == MyDesc(t)
           to == descs[d].pos + call[t].arg
<1>0. KernelOK /\ In(t, "seek")
  BY DEF IInv, TypeOK, Seek
<1>1. d # 0 => /\ d \in 1..Len(descs) /\ descs[d].file \in Files
               /\ AsSession(descs[d].file) = d
  BY <1>0, MyDescIs DEF In
<1>2. CASE descs' = descs
  BY <1>2, Untouched DEF Seek
<1>3. CASE descs' # descs
  <2>1. /\ d # 0 /\ to \in 0..MaxPos /\ descs' = [descs EXCEPT ![d].pos = to]
        /\ UNCHANGED <<table, content, children>>
    BY <1>3 DEF Seek
  <2> HIDE DEF to
  <2>2. /\ AsSession(f)' = AsSession(f) /\ AsPending(f)' = AsPending(f)
        /\ d \in DescsOf(f) => AsPositions(f)' = [AsPositions(f) EXCEPT ![d] = to]
        /\ d \notin DescsOf(f) => AsPositions(f)' = AsPositions(f)
    BY <1>0, <1>1, <2>1, SessionMoves
  <2>3. CASE d \notin DescsOf(f)
    BY <2>1, <2>2, <2>3, StoreStays
  <2>4. CASE d \in DescsOf(f)
    <3>1. AsSession(f) = d
      BY <1>1, <2>1, <2>4 DEF DescsOf
    <3> QED
      BY <2>1, <2>2, <2>4, <3>1, StoreSeeks
  <2> QED
    BY <2>3, <2>4
<1> QED
  BY <1>2, <1>3

\* What write(2) does to a file.
LEMMA PutReaches ==
  ASSUME NEW s \in Seq(Int), NEW p \in Nat, NEW b
  PROVE  DOMAIN Put(s, p, b) = DOMAIN s \union 1..(p + 1)
<1>1. Len(s) \in Nat /\ DOMAIN s = 1..Len(s) /\ p + 1 \in Int
  OBVIOUS
<1> DEFINE n == Max({Len(s), p + 1})
<1>2. n \in {Len(s), p + 1} /\ n >= Len(s) /\ n >= p + 1
  <2>1. {Len(s), p + 1} = {p + 1, Len(s)}
    OBVIOUS
  <2> QED
    BY <1>1, <2>1, MinMaxOfTwo
<1>3. DOMAIN Put(s, p, b) = 1..n
  BY DEF Put
<1>4. 1..n = 1..Len(s) \union 1..(p + 1)
  <2> HIDE DEF n
  <2> QED
    BY <1>1, <1>2
<1> QED
  BY <1>1, <1>3, <1>4

\* A child performs one write that its own session accepted, in its own file.
LEMMA ChildPerforms ==
  ASSUME IInv, NEW c \in children, Child(c), NEW f \in Files
  PROVE  StoreStep(f)
<1> DEFINE d == c.desc
           w == [session |-> d, block |-> c.block]
<1>0. /\ KernelOK /\ Len(descs) \in Nat /\ DOMAIN descs = 1..Len(descs)
      /\ \A e \in children : e \in [desc : 0..Len(descs), block : Int]
  BY DEF IInv, TypeOK, KernelOK
<1>1. /\ children' = children \ {c} /\ table' = table
      /\ d # 0 => d \in 1..Len(descs)
  BY <1>0 DEF Child, ChildWrites, Lands, ChildFails
<1>2. ASSUME NEW e \in children, [session |-> e.desc, block |-> e.block] = w PROVE e = c
  <2>1. e.desc = c.desc /\ e.block = c.block
    BY <1>2
  <2>2. e \in [desc : 0..Len(descs), block : Int] /\ c \in [desc : 0..Len(descs), block : Int]
    BY <1>0
  <2> QED
    BY <2>1, <2>2
<1>3. ASSUME DescsOf(f)' = DescsOf(f)
      PROVE  /\ AsSession(f)' = AsSession(f)
             /\ d \in DescsOf(f) => w \in AsPending(f) /\ AsPending(f)' = AsPending(f) \ {w}
             /\ d \notin DescsOf(f) => AsPending(f)' = AsPending(f)
  <2>1. LiveOf(f)' = LiveOf(f)
    BY <1>1, <1>3 DEF LiveOf
  <2>2. d \in DescsOf(f) => w \in AsPending(f) /\ AsPending(f)' = AsPending(f) \ {w}
    BY <1>1, <1>2, <1>3 DEF AsPending
  <2>3. d \notin DescsOf(f) => AsPending(f)' = AsPending(f)
    BY <1>1, <1>3 DEF AsPending
  <2> QED
    BY <2>1, <2>2, <2>3 DEF AsSession
<1>4. CASE ChildFails(c)
  <2>1. descs' = descs /\ content' = content
    BY <1>4 DEF ChildFails
  <2>2. DescsOf(f)' = DescsOf(f) /\ AsPositions(f)' = AsPositions(f)
    BY <2>1 DEF DescsOf, AsPositions
  <2>3. CASE d \notin DescsOf(f)
    BY <1>3, <2>1, <2>2, <2>3, StoreStays
  <2>4. CASE d \in DescsOf(f)
    BY <1>3, <2>1, <2>2, <2>4, StoreDrops
  <2> QED
    BY <2>3, <2>4
<1>5. CASE ChildWrites(c)
  <2> DEFINE g == descs[d].file
             p == descs[d].pos
  <2>1. /\ d # 0 /\ p <= MaxPos
        /\ content' = [content EXCEPT ![g] = Put(content[g], p, c.block)]
        /\ descs' = [descs EXCEPT ![d].pos = p + 1]
    BY <1>5 DEF ChildWrites, Lands, Writable, Advance
  <2>2. d \in 1..Len(descs) /\ g \in Files /\ p \in Nat
    BY <1>0, <1>1, <2>1, DescType
  <2>3. /\ DescsOf(f)' = DescsOf(f)
        /\ d \in DescsOf(f) => AsPositions(f)' = [AsPositions(f) EXCEPT ![d] = p + 1]
        /\ d \notin DescsOf(f) => AsPositions(f)' = AsPositions(f)
    BY <1>0, <2>1, <2>2, Moved
  <2>4. CASE d \notin DescsOf(f)
    <3>1. f # g
      BY <1>0, <2>2, <2>4 DEF DescsOf
    <3>2. content'[f] = content[f]
      BY <1>0, <2>1, <3>1 DEF KernelOK
    <3> QED
      BY <1>3, <2>3, <2>4, <3>2, StoreStays
  <2>5. CASE d \in DescsOf(f)
    <3>1. f = g /\ content[f] \in Seq(Int) /\ DOMAIN content = Files
      BY <1>0, <2>5 DEF DescsOf, KernelOK
    <3>2. content'[f] = Put(content[f], p, c.block)
      BY <2>1, <3>1
    <3>3. AsPositions(f)[w.session] = p
      BY <2>5 DEF AsPositions
    <3> HIDE DEF p, g
    <3>4. /\ DOMAIN (content'[f]) = DOMAIN content[f] \union 1..(p + 1)
          /\ \A i \in DOMAIN (content'[f]) :
               content'[f][i] = IF i = p + 1 THEN c.block
                                ELSE IF i \in DOMAIN content[f] THEN content[f][i] ELSE 0
      <4> DEFINE s == content[f]
                 b == c.block
                 new == Put(s, p, b)
      <4>1. s \in Seq(Int) /\ p \in Nat
        BY <2>2, <3>1
      <4> HIDE DEF s, b
      <4>2. DOMAIN new = DOMAIN s \union 1..(p + 1)
        BY <4>1, PutReaches
      <4>3. \A i \in DOMAIN new :
              new[i] = IF i = p + 1 THEN b ELSE IF i \in DOMAIN s THEN s[i] ELSE 0
        BY DEF Put
      <4> QED
        BY <3>2, <4>2, <4>3 DEF s, b
    <3>5. w.session = d /\ w.block = c.block
      OBVIOUS
    <3>6. AsSession(f)' = AsSession(f) /\ w \in AsPending(f) /\ AsPending(f)' = AsPending(f) \ {w}
      BY <1>3, <2>3, <2>5
    <3> HIDE DEF w
    <3> QED
      BY <2>1, <2>3, <2>5, <3>3, <3>4, <3>5, <3>6, StorePerforms
  <2> QED
    BY <2>4, <2>5
<1> QED
  BY <1>4, <1>5 DEF Child

\* Every step of the clients and children is one of every file's FileStore, or a stutter.
LEMMA EveryStoreSteps ==
  ASSUME IInv, IInv', [Next]_vars, NEW f \in Files
  PROVE  StoreStep(f)
<1>1. ASSUME NEW t \in Threads, Request(t) \/ Enter(t) \/ Return(t) PROVE StoreStep(f)
  BY <1>1, Untouched DEF Request, Call, Enter, Return, kernel
<1>2. ASSUME NEW t \in Threads, Body(t) PROVE StoreStep(f)
  <2>1. CASE OpenAgain(t) \/ OpenFails(t) \/ OpenRegistered(t)
    BY <2>1, Untouched DEF OpenAgain, OpenFails, OpenRegistered, kernel
  <2> QED
    BY <1>2, <2>1, OpenIsOpen, CloseIsClose, WriteIsAccepted, ReadIsRead, SeekIsSeek DEF Body
<1>3. CASE UNCHANGED vars
  BY <1>3, Untouched DEF vars, kernel
<1> QED
  BY <1>1, <1>2, <1>3, ChildPerforms DEF Next

\* Refinement of FileStore, for any number of clients that call what they like, files and
\* descriptors, and calls of the kernel that may fail: a write that is performed late keeps
\* to the file and to the session that its number led to when it was accepted, whatever was
\* closed, opened and written since.
THEOREM FilesAreStores == Spec => ImplementsFileStore
<1>1. Init => \A f \in Files : Store(f)!Closed
  <2> SUFFICES ASSUME Init, NEW f \in Files PROVE Store(f)!Closed
    OBVIOUS
  <2>1. DescsOf(f) = {}
    BY DEF Init, DescsOf
  <2> QED
    BY <2>1 DEF Init, Store!Closed, LiveOf
<1>2. IInv /\ IInv' /\ [Next]_vars
        => [\A f \in Files : [Store(f)!StoreNext]_(Store(f)!storeVars)]_vars
  BY EveryStoreSteps DEF StoreStep
<1> QED
  BY <1>1, <1>2, SpecIInv, PTL DEF Spec, ImplementsFileStore

-----------------------------------------------------------------------------
\* The blocks.

\* A client has a write under way.
Writing(t) == pc[t] \in {"lock", "in"} /\ call[t].op = "write"

\* The numbers of the writes: each is one client's or one answered write's.
WritesAreNumbered ==
  /\ \A t \in Threads : Writing(t) =>
       /\ call[t].arg \in 1..issued
       /\ \A w \in acked : w.block # call[t].arg
       /\ \A u \in Threads : Writing(u) /\ call[u].arg = call[t].arg => u = t
  /\ \A w \in acked : w.block \in 1..issued
  /\ \A w, v \in acked : w.block = v.block => w = v

\* A child has the block of an answered write that no file holds yet, and a description
\* of that write's file if the file was open.
ChildHasItsWrite(c) ==
  /\ \E w \in acked :
       w.block = c.block /\ (w.opened /\ c.desc # 0 => descs[c.desc].file = w.file)
  /\ \A e \in children : e.block = c.block => e = c
  /\ \A f \in Files : \A i \in DOMAIN content[f] : content[f][i] # c.block

ChildrenHaveWrites == \A c \in children : ChildHasItsWrite(c)

BlocksInv == WritesAreNumbered /\ ChildrenHaveWrites /\ ContentIsWritten

\* Every step keeps the numbers apart.
LEMMA NumbersStep ==
  TypeOK /\ WritesAreNumbered /\ [Next]_vars => WritesAreNumbered'
<1> SUFFICES ASSUME TypeOK, WritesAreNumbered, [Next]_vars PROVE WritesAreNumbered'
  OBVIOUS
<1>0. /\ DOMAIN call = Threads /\ issued \in Nat
      /\ pc \in [Threads -> {"idle", "lock", "in", "reg", "done"}]
  BY FileAssumption DEF TypeOK, ThreadsOK
<1>1. ASSUME NEW t \in Threads, Request(t) PROVE WritesAreNumbered'
  <2>1. PICK op \in Ops, f \in Files : \E arg \in Arguments(op) : Call(t, op, f, arg)
    BY <1>1 DEF Request
  <2>2. PICK arg \in Arguments(op) : Call(t, op, f, arg)
    BY <2>1
  <2>3. /\ acked' = acked /\ pc'[t] = "lock" /\ call'[t].op = op /\ call'[t].arg = arg
        /\ issued' = IF op = "write" THEN arg ELSE issued
        /\ \A u \in Threads \ {t} : pc'[u] = pc[u] /\ call'[u] = call[u]
    BY <1>0, <2>2 DEF Call
  <2>4. op = "write" => arg = issued + 1
    BY DEF Arguments
  <2>5. CASE op = "write"
    <3>1. issued' = issued + 1 /\ call'[t].arg = issued + 1
      BY <2>3, <2>4, <2>5
    <3>2. \A u \in Threads \ {t} : Writing(u)' => Writing(u) /\ call'[u].arg \in 1..issued
      BY <2>3 DEF Writing, WritesAreNumbered
    <3>3. \A w \in acked : w.block \in 1..issued
      BY DEF WritesAreNumbered
    <3>4. \A k \in 1..issued : k # issued + 1 /\ k \in 1..(issued + 1)
      BY <1>0
    <3>5. issued + 1 \in 1..(issued + 1)
      BY <1>0
    <3>6. \A w \in acked : w.block \in 1..issued' /\ w.block # call'[t].arg
      BY <3>1, <3>3, <3>4
    <3>7. \A u \in Threads \ {t} : Writing(u)' =>
            call'[u].arg \in 1..issued' /\ call'[u].arg # call'[t].arg
      BY <3>1, <3>2, <3>4
    <3>8. call'[t].arg \in 1..issued'
      BY <3>1, <3>5
    <3> QED
      BY <2>3, <3>2, <3>6, <3>7, <3>8 DEF WritesAreNumbered, Writing
  <2>6. CASE op # "write"
    BY <2>3, <2>6 DEF WritesAreNumbered, Writing
  <2> QED
    BY <2>5, <2>6
<1>2. ASSUME NEW t \in Threads, Enter(t) PROVE WritesAreNumbered'
  BY <1>0, <1>2 DEF Enter, WritesAreNumbered, Writing
<1>3. ASSUME NEW t \in Threads, Return(t) \/ Body(t), ~Write(t) PROVE WritesAreNumbered'
  <2>1. acked' = acked /\ issued' = issued /\ pc'[t] \notin {"lock", "in"}
    BY <1>0, <1>3
    DEF Return, Body, OpenAgain, OpenFile, OpenFails, OpenRegistered, Close, Read, Seek, In,
        Reply
  <2>2. \A u \in Threads \ {t} : pc'[u] = pc[u] /\ call'[u] = call[u]
    BY <1>3, Advances
  <2> QED
    BY <2>1, <2>2 DEF WritesAreNumbered, Writing
<1>4. ASSUME NEW t \in Threads, Write(t) PROVE WritesAreNumbered'
  <2>1. /\ \E w : w.block = call[t].arg /\ acked' = acked \union {w}
        /\ issued' = issued /\ pc'[t] = "done" /\ Writing(t)
        /\ \A u \in Threads \ {t} : pc'[u] = pc[u] /\ call'[u] = call[u]
    BY <1>0, <1>4 DEF Write, Reply, In, Writing
  <2> QED
    BY <2>1 DEF WritesAreNumbered, Writing
<1>5. ASSUME NEW c \in children, Child(c) PROVE WritesAreNumbered'
  BY <1>5 DEF Child, ChildWrites, Lands, ChildFails, threads, WritesAreNumbered, Writing
<1>6. CASE UNCHANGED vars
  BY <1>6 DEF vars, threads, WritesAreNumbered, Writing
<1> QED
  BY <1>1, <1>2, <1>3, <1>4, <1>5, <1>6 DEF Next

\* Descriptions are added, and none comes to lead to another file.
LEMMA DescriptionsKeepTheirFile ==
  ASSUME TypeOK, [Next]_vars
  PROVE  \A d \in 1..Len(descs) : descs'[d].file = descs[d].file
<1>0. KernelOK /\ Len(descs) \in Nat
  BY DEF TypeOK, KernelOK
<1>1. ASSUME NEW t \in Threads, Request(t) \/ Enter(t) \/ Return(t) PROVE descs' = descs
  BY <1>1 DEF Request, Call, Enter, Return, kernel
<1>2. ASSUME NEW t \in Threads, Body(t)
      PROVE  \A d \in 1..Len(descs) : descs'[d].file = descs[d].file
  <2>1. CASE OpenFile(t)
    BY <1>0, <2>1 DEF OpenFile, KernelOK
  <2>2. CASE Read(t) \/ Seek(t)
    <3>1. MyDesc(t) # 0 => MyDesc(t) \in 1..Len(descs)
      BY <1>0, <2>2, MyDescType DEF Read, Seek, In
    <3>2. \/ descs' = descs
          \/ MyDesc(t) # 0 /\ \E p : descs' = [descs EXCEPT ![MyDesc(t)].pos = p]
      BY <2>2 DEF Read, Seek
    <3> QED
      BY <1>0, <3>1, <3>2, MoveKeeps
  <2> QED
    BY <1>2, <2>1, <2>2 DEF Body, OpenAgain, OpenFails, OpenRegistered, Close, Write, kernel
<1>3. ASSUME NEW c \in children, Child(c)
      PROVE  \A d \in 1..Len(descs) : descs'[d].file = descs[d].file
  <2>1. CASE ChildWrites(c)
    <3>1. c.desc \in 1..Len(descs)
      BY <1>0, <2>1 DEF ChildWrites, Lands, Writable, KernelOK
    <3> QED
      BY <1>0, <2>1, <3>1, MoveKeeps DEF ChildWrites, Advance
  <2> QED
    BY <1>3, <2>1 DEF Child, ChildFails
<1> QED
  BY <1>1, <1>2, <1>3 DEF Next, vars, kernel

\* Nothing is written and no child comes.
LEMMA NothingWritten ==
  ASSUME KernelOK, BlocksInv, acked \subseteq acked', children' \subseteq children,
         content' = content,
         \A d \in 1..Len(descs) : descs'[d].file = descs[d].file
  PROVE  ChildrenHaveWrites' /\ ContentIsWritten'
<1>1. \A c \in children : c.desc # 0 => c.desc \in 1..Len(descs)
  BY DEF KernelOK
<1>2. ASSUME NEW c \in children' PROVE ChildHasItsWrite(c)'
  <2>1. ChildHasItsWrite(c) /\ c \in children
    BY <1>2 DEF BlocksInv, ChildrenHaveWrites
  <2> QED
    BY <1>1, <2>1 DEF ChildHasItsWrite
<1> QED
  BY <1>2 DEF BlocksInv, ChildrenHaveWrites, ContentIsWritten

\* i_write's child takes a block that no file and no other child has.
LEMMA WriteKeepsBlocks ==
  ASSUME PoliteInv, BlocksInv, NEW t \in Threads, Write(t)
  PROVE  ChildrenHaveWrites' /\ ContentIsWritten'
<1> DEFINE w == [file |-> call[t].file, block |-> call[t].arg,
                 opened |-> opened[call[t].file]]
           new == [desc |-> MyDesc(t), block |-> call[t].arg]
<1>0. TypeOK /\ KernelOK
  BY DEF PoliteInv, IInv, TypeOK
<1>1. /\ acked' = acked \union {w} /\ children' \subseteq children \union {new}
      /\ UNCHANGED <<descs, content>>
      /\ In(t, "write") /\ Writing(t)
  BY DEF Write, In, Writing
<1>2. \A v \in acked : v.block # call[t].arg
  BY <1>1 DEF BlocksInv, WritesAreNumbered
<1>3. call[t].arg # 0
  <2>1. call[t].arg \in 1..issued /\ issued \in Nat
    BY <1>0, <1>1 DEF BlocksInv, WritesAreNumbered, TypeOK, ThreadsOK
  <2> QED
    BY <2>1
<1>4. \A e \in children : e.block # call[t].arg
  BY <1>2 DEF BlocksInv, ChildrenHaveWrites, ChildHasItsWrite
<1>5. \A f \in Files : \A i \in DOMAIN content[f] : content[f][i] # call[t].arg
  <2>1. ASSUME NEW f \in Files, NEW i \in DOMAIN content[f], content[f][i] = call[t].arg
        PROVE  FALSE
    <3>1. \E v \in acked : v.block = content[f][i]
      BY <1>3, <2>1 DEF BlocksInv, ContentIsWritten
    <3> QED
      BY <1>2, <2>1, <3>1
  <2> QED
    BY <2>1
<1>6. w.opened /\ MyDesc(t) # 0 => descs[MyDesc(t)].file = call[t].file
  <2>1. call[t].file \in Files /\ -1 \notin Fds
    BY <1>1, Facts, FileAssumption DEF PoliteInv, In, Fds
  <2> QED
    BY <2>1 DEF PoliteInv, AccessorsLeadHome, LeadsHome, FileOf, MyDesc, DescOf
<1>7. ASSUME NEW c \in children' PROVE ChildHasItsWrite(c)'
  <2>1. CASE c \in children
    <3>1. ChildHasItsWrite(c)
      BY <2>1 DEF BlocksInv, ChildrenHaveWrites
    <3>2. c.block # call[t].arg
      BY <1>4, <2>1
    <3> QED
      BY <1>1, <3>1, <3>2 DEF ChildHasItsWrite
  <2>2. CASE c = new
    <3>1. /\ w \in acked' /\ w.block = c.block
          /\ w.opened /\ c.desc # 0 => descs'[c.desc].file = w.file
      BY <1>1, <1>6, <2>2
    <3>2. \A e \in children' : e.block = c.block => e = c
      BY <1>1, <1>4, <2>2
    <3>3. \A f \in Files : \A i \in DOMAIN content'[f] : content'[f][i] # c.block
      BY <1>1, <1>5, <2>2
    <3> QED
      BY <3>1, <3>2, <3>3 DEF ChildHasItsWrite
  <2> QED
    BY <1>1, <1>7, <2>1, <2>2
<1> QED
  BY <1>1, <1>7 DEF BlocksInv, ChildrenHaveWrites, ContentIsWritten

\* What is in a file after a write(2).
LEMMA PutHolds ==
  ASSUME NEW s, NEW p, NEW b, NEW i \in DOMAIN Put(s, p, b)
  PROVE  \/ i = p + 1 /\ Put(s, p, b)[i] = b
         \/ i \in DOMAIN s /\ Put(s, p, b)[i] = s[i]
         \/ Put(s, p, b)[i] = 0
  BY DEF Put

\* A child puts its block, which no file has, into the file of its write.
LEMMA LandingKeepsBlocks ==
  ASSUME TypeOK, TypeOK', [Next]_vars, BlocksInv, NEW c \in children, ChildWrites(c)
  PROVE  ChildrenHaveWrites' /\ ContentIsWritten'
<1> DEFINE g == descs[c.desc].file
           p == descs[c.desc].pos
<1>0. KernelOK /\ content' \in [Files -> Seq(Int)] /\ content \in [Files -> Seq(Int)]
  BY DEF TypeOK, KernelOK
<1>1. /\ content' = [content EXCEPT ![g] = Put(@, p, c.block)]
      /\ children' = children \ {c} /\ acked' = acked
      /\ c.desc \in 1..Len(descs)
  BY <1>0 DEF ChildWrites, Lands, Writable, KernelOK
<1>2. \A d \in 1..Len(descs) : descs'[d].file = descs[d].file
  BY DescriptionsKeepTheirFile
<1>3. g \in Files /\ c.desc # 0
  BY <1>0, <1>1, DescType
<1>4. ChildHasItsWrite(c)
  BY DEF BlocksInv, ChildrenHaveWrites
<1>5. \E w \in acked : w.block = c.block /\ (w.opened => w.file = g)
  BY <1>3, <1>4 DEF ChildHasItsWrite
<1>6. ASSUME NEW f \in Files, NEW i \in DOMAIN content'[f]
      PROVE  \/ f = g /\ i = p + 1 /\ content'[f][i] = c.block
             \/ i \in DOMAIN content[f] /\ content'[f][i] = content[f][i]
             \/ content'[f][i] = 0
  <2>1. CASE f = g
    <3>1. content'[f] = Put(content[g], p, c.block)
      BY <1>0, <1>1, <1>3, <2>1
    <3> HIDE DEF g, p
    <3> QED
      BY <1>6, <2>1, <3>1, PutHolds
  <2>2. CASE f # g
    BY <1>0, <1>1, <1>6, <2>2
  <2> QED
    BY <2>1, <2>2
<1>7. ASSUME NEW e \in children' PROVE ChildHasItsWrite(e)'
  <2>1. ChildHasItsWrite(e) /\ e \in children /\ e # c
    BY <1>1, <1>7 DEF BlocksInv, ChildrenHaveWrites
  <2>2. e.block # c.block /\ e.block # 0
    <3>1. e.block # c.block
      BY <1>4, <2>1 DEF ChildHasItsWrite
    <3>2. PICK w \in acked : w.block = e.block
      BY <2>1 DEF ChildHasItsWrite
    <3>3. w.block \in 1..issued /\ issued \in Nat
      BY DEF BlocksInv, WritesAreNumbered, TypeOK, ThreadsOK
    <3> QED
      BY <3>1, <3>2, <3>3
  <2>3. \A f \in Files : \A i \in DOMAIN content'[f] : content'[f][i] # e.block
    BY <1>6, <2>1, <2>2 DEF ChildHasItsWrite
  <2>4. e.desc # 0 => descs'[e.desc].file = descs[e.desc].file
    BY <1>0, <1>2, <2>1 DEF KernelOK
  <2> QED
    BY <1>1, <2>1, <2>3, <2>4 DEF ChildHasItsWrite
<1>8. ASSUME NEW f \in Files, NEW i \in DOMAIN content'[f], content'[f][i] # 0
      PROVE  /\ \E w \in acked' : w.block = content'[f][i] /\ (w.opened => w.file = f)
             /\ \A h \in Files : \A j \in DOMAIN content'[h] :
                  content'[h][j] = content'[f][i] => h = f /\ j = i
  <2>1. \A h \in Files : \A j \in DOMAIN content[h] : content[h][j] # c.block
    BY <1>4 DEF ChildHasItsWrite
  <2>2. CASE f = g /\ i = p + 1 /\ content'[f][i] = c.block
    <3>1. ASSUME NEW h \in Files, NEW j \in DOMAIN content'[h], content'[h][j] = c.block
          PROVE  h = g /\ j = p + 1
      BY <1>6, <1>8, <2>1, <2>2, <3>1
    <3> HIDE DEF g, p
    <3> QED
      BY <1>1, <1>5, <2>2, <3>1
  <2>3. CASE i \in DOMAIN content[f] /\ content'[f][i] = content[f][i]
    <3>1. /\ \E w \in acked : w.block = content[f][i] /\ (w.opened => w.file = f)
          /\ \A h \in Files : \A j \in DOMAIN content[h] :
               content[h][j] = content[f][i] => h = f /\ j = i
      BY <1>8, <2>3 DEF BlocksInv, ContentIsWritten
    <3>2. content[f][i] # c.block
      BY <2>1, <2>3
    <3> HIDE DEF g, p
    <3> QED
      BY <1>1, <1>6, <1>8, <2>3, <3>1, <3>2
  <2> QED
    BY <1>6, <1>8, <2>2, <2>3
<1> QED
  BY <1>7, <1>8 DEF ChildrenHaveWrites, ContentIsWritten

\* Every step of the clients keeps the blocks.
LEMMA BlocksStep ==
  PoliteInv /\ PoliteInv' /\ BlocksInv /\ [PoliteNext]_clientVars => BlocksInv'
<1> SUFFICES ASSUME PoliteInv, PoliteInv', BlocksInv, [PoliteNext]_clientVars
             PROVE  BlocksInv'
  OBVIOUS
<1>0. TypeOK /\ TypeOK' /\ KernelOK /\ [Next]_vars
  BY PoliteStep DEF PoliteInv, IInv, TypeOK
<1>1. WritesAreNumbered'
  BY <1>0, NumbersStep DEF BlocksInv
<1>2. \A d \in 1..Len(descs) : descs'[d].file = descs[d].file
  BY <1>0, DescriptionsKeepTheirFile
<1>3. CASE acked' = acked /\ children' \subseteq children /\ content' = content
  BY <1>0, <1>1, <1>2, <1>3, NothingWritten DEF BlocksInv
<1>4. ASSUME NEW t \in Threads, Request(t) \/ Enter(t) \/ Return(t) PROVE BlocksInv'
  BY <1>3, <1>4 DEF Request, Call, Enter, Return, kernel
<1>5. ASSUME NEW t \in Threads, Body(t) PROVE BlocksInv'
  <2>1. CASE Write(t)
    BY <1>1, <2>1, WriteKeepsBlocks DEF BlocksInv
  <2>2. CASE ~Write(t)
    BY <1>3, <1>5, <2>2
    DEF Body, OpenAgain, OpenFile, OpenFails, OpenRegistered, Close, Read, Seek, kernel
  <2> QED
    BY <2>1, <2>2
<1>6. ASSUME NEW c \in children, Child(c) PROVE BlocksInv'
  <2>1. CASE ChildWrites(c)
    BY <1>0, <1>1, <2>1, LandingKeepsBlocks DEF BlocksInv
  <2>2. CASE ChildFails(c)
    BY <1>3, <2>2 DEF ChildFails
  <2> QED
    BY <1>6, <2>1, <2>2 DEF Child
<1>7. CASE UNCHANGED vars
  BY <1>3, <1>7 DEF vars, kernel
<1> QED
  BY <1>0, <1>4, <1>5, <1>6, <1>7 DEF Next

\* So they are always kept.
LEMMA SpecBlocksInv == PoliteSpec => [](PoliteInv /\ BlocksInv)
<1>1. PoliteInit => PoliteInv /\ BlocksInv
  <2> SUFFICES ASSUME PoliteInit PROVE PoliteInv /\ BlocksInv
    OBVIOUS
  <2>1. WritesAreNumbered
    BY DEF PoliteInit, Init, WritesAreNumbered, Writing
  <2>2. ChildrenHaveWrites /\ ContentIsWritten
    BY DEF PoliteInit, Init, ChildrenHaveWrites, ContentIsWritten
  <2> QED
    BY <2>1, <2>2, InitPoliteInv DEF BlocksInv
<1> QED
  BY <1>1, NextPoliteInv, BlocksStep, PTL DEF PoliteSpec

\* For any number of clients that share the files, files, descriptors and writes: a write
\* that was accepted while its file was open gets into that file or nowhere, and there to
\* one place (ContentIsWritten).
THEOREM FilesHoldWhatWasWritten == PoliteSpec => []ContentIsWritten
<1>1. PoliteInv /\ BlocksInv => ContentIsWritten
  BY DEF BlocksInv
<1> QED
  BY <1>1, SpecBlocksInv, PTL

-----------------------------------------------------------------------------
\* The accessors and the supervisor.

\* No call of the supervisor returns: setFileDescriptor waits for the lock, or has it to
\* write and waits in getSyncFileAccessorStr to read.
NothingRegistered ==
  /\ at \in [Threads -> {"idle", "enter_set", "enter_str"}]
  /\ \A t \in Threads : at[t] = "enter_str" => writer = t

\* The invariant of the accessors with the supervisor.
ServiceInv == IInv /\ NothingRegistered

\* What FileAccessor's threads do as long as nothing is registered.
AccessorStep ==
  \/ \E t \in Threads : Accessor(t) \/ Request(t)
  \/ \E c \in children : Child(c)
  \/ UNCHANGED vars

\* No call of setFileDescriptor comes back.
LEMMA NobodyRegisters ==
  NothingRegistered /\ [ServiceNext]_serviceVars => AccessorStep /\ NothingRegistered'
<1> SUFFICES ASSUME NothingRegistered, [ServiceNext]_serviceVars
             PROVE  AccessorStep /\ NothingRegistered'
  OBVIOUS
<1> USE DEF NothingRegistered, AccessorStep
<1>1. ASSUME UNCHANGED supervisor PROVE NothingRegistered'
  BY <1>1 DEF supervisor
<1>2. ASSUME NEW t \in Threads, Register(t) PROVE AccessorStep /\ NothingRegistered'
  <2>1. UNCHANGED vars /\ Supervisor!Call(t, "setFd", call[t].file, fd[call[t].file])
    BY <1>2 DEF Register
  <2>2. at' = [at EXCEPT ![t] = "enter_set"] /\ writer' = writer
    BY <2>1 DEF Supervisor!Call, Supervisor!Go, Supervisor!FirstPoint
  <2> QED
    BY <2>1, <2>2
<1>3. ASSUME NEW t \in Threads, Supervisor!Step(t) PROVE NothingRegistered'
  <2>1. ~Supervisor!EnterToRead(t)
    <3>1. t # NoThread
      BY FileAssumption
    <3> QED
      BY <3>1 DEF Supervisor!EnterToRead, Supervisor!Go, Supervisor!Lock!BeginRead
  <2>2. ~Supervisor!Find(t) /\ ~Supervisor!At(t)
    BY DEF Supervisor!Find, Supervisor!At, Supervisor!Go
  <2>3. Supervisor!EnterToWrite(t)
    BY <1>3, <2>1, <2>2 DEF Supervisor!Step
  <2>4. at' = [at EXCEPT ![t] = "enter_str"] /\ writer = NoThread /\ writer' = t
    BY <2>3 DEF Supervisor!EnterToWrite, Supervisor!Go, Supervisor!Lock!BeginWrite
  <2> QED
    BY <2>4, FileAssumption
<1>4. CASE UNCHANGED serviceVars
  BY <1>1, <1>4 DEF serviceVars
<1> QED
  BY <1>1, <1>2, <1>3, <1>4 DEF ServiceNext, ServiceStep

\* Such steps are steps of FileAccessor.
LEMMA AccessorStepIsNext == AccessorStep => [Next]_vars
  BY DEF AccessorStep, Accessor, Body, Next

\* It holds at first, when the supervisor has no call.
LEMMA InitServiceInv == ServiceInit => ServiceInv
  BY InitIInv, FileAssumption DEF ServiceInit, Supervisor!Init, ServiceInv, NothingRegistered

\* The invariant is kept.
LEMMA NextServiceInv == ServiceInv /\ [ServiceNext]_serviceVars => ServiceInv'
  BY NobodyRegisters, AccessorStepIsNext, NextIInv DEF ServiceInv

\* Who registers a file goes on doing so.
LEMMA RegistrationLasts ==
  ASSUME IInv, AccessorStep, NEW t \in Threads, pc[t] = "reg"
  PROVE  pc'[t] = "reg" /\ call'[t] = call[t]
<1>0. TypeOK /\ DOMAIN pc = Threads /\ DOMAIN call = Threads
  BY Facts DEF IInv
<1>1. ASSUME NEW u \in Threads, Accessor(u) \/ Request(u)
      PROVE  pc'[t] = "reg" /\ call'[t] = call[t]
  <2>1. u # t
    BY <1>1
    DEF Accessor, Enter, Return, OpenAgain, OpenFile, OpenFails, Close, Write, Read, Seek,
        In, Request, Call
  <2>2. CASE Enter(u)
    BY <1>0, <2>1, <2>2 DEF Enter
  <2>3. CASE ~Enter(u)
    BY <1>0, <1>1, <2>1, <2>3, Advances DEF Accessor, Body
  <2> QED
    BY <2>2, <2>3
<1>2. ASSUME NEW c \in children, Child(c) PROVE pc'[t] = "reg" /\ call'[t] = call[t]
  BY <1>2 DEF Child, ChildWrites, Lands, ChildFails, threads
<1>3. CASE UNCHANGED vars
  BY <1>3 DEF vars, threads
<1> QED
  BY <1>1, <1>2, <1>3 DEF AccessorStep

\* And alone in the file.
LEMMA FileIsWedged ==
  ASSUME IInv, LockIsKept', AccessorStep, NEW t \in Threads, pc[t] = "reg"
  PROVE  /\ pc'[t] = "reg"
         /\ Inside(call[t].file)' = {t}
         /\ fd'[call[t].file] = fd[call[t].file]
<1> DEFINE f == call[t].file
<1>0. /\ TypeOK /\ LockIsKept /\ call[t].op = "open" /\ f \in Files /\ DOMAIN fd = Files
      /\ DOMAIN pc = Threads /\ DOMAIN call = Threads
  BY Facts DEF IInv, RegistersAnOpen
<1>1. pc'[t] = "reg" /\ call'[t] = call[t]
  BY RegistrationLasts
<1>2. Inside(f)' = {t}
  BY <1>0, <1>1 DEF LockIsKept, Inside
<1>3. fd'[f] = fd[f]
  <2>1. ASSUME NEW u \in Threads, OpenFile(u) \/ OpenFails(u) PROVE fd'[f] = fd[f]
    <3>1. pc[u] = "in" /\ call[u].op = "open" /\ u # t
      BY <2>1 DEF OpenFile, OpenFails, In
    <3>2. call[u].file # f
      BY <1>0, <3>1 DEF LockIsKept
    <3> QED
      BY <1>0, <2>1, <3>2 DEF OpenFile, OpenFails
  <2>2. ASSUME NEW u \in Threads, Accessor(u) \/ Request(u), ~OpenFile(u) /\ ~OpenFails(u)
        PROVE  fd' = fd
    BY <2>2
    DEF Accessor, Enter, Return, OpenAgain, Close, Write, Read, Seek, Request, Call, members
  <2>3. ASSUME NEW c \in children, Child(c) PROVE fd' = fd
    BY <2>3 DEF Child, ChildWrites, Lands, ChildFails, members
  <2>4. CASE UNCHANGED vars
    BY <2>4 DEF vars, members
  <2> QED
    BY <2>1, <2>2, <2>3, <2>4 DEF AccessorStep
<1> QED
  BY <1>1, <1>2, <1>3

\* However many threads and files there are: an open that got its descriptor never ends,
\* and nobody gets into its file again.
THEOREM OpensWedgeFiles == ServiceSpec => OpenWedgesFile
<1>1. ServiceInv /\ [ServiceNext]_serviceVars
        => [\A t \in Threads :
              pc[t] = "reg" => /\ pc'[t] = "reg"
                               /\ Inside(call[t].file)' = {t}
                               /\ fd'[call[t].file] = fd[call[t].file]]_serviceVars
  BY NobodyRegisters, NextServiceInv, FileIsWedged DEF ServiceInv, IInv
<1> QED
  BY <1>1, InitServiceInv, NextServiceInv, PTL DEF ServiceSpec, OpenWedgesFile

\* What becomes of the files: none is open, a descriptor is behind the lock that its
\* open keeps, and the children of i_write have no description to write to.
NothingComesOfIt ==
  /\ \A f \in Files : content[f] = <<>>
  /\ \A f \in Files : ~opened[f] /\ (fd[f] # -1 => Registering(f))
  /\ \A c \in children : c.desc = 0

\* Who registers a file keeps it from those who would write.
LEMMA NobodyHasADescriptor ==
  ASSUME IInv, NothingComesOfIt, NEW t \in Threads, pc[t] = "in", call[t].op # "read"
  PROVE  MyDesc(t) = 0
<1> DEFINE f == call[t].file
<1>1. f \in Files
  BY Facts
<1>2. ~Registering(f)
  BY DEF IInv, Registering, LockIsKept, RegistersAnOpen
<1>3. fd[f] = -1 /\ -1 \notin Fds
  BY <1>1, <1>2, FileAssumption DEF NothingComesOfIt, Fds
<1> QED
  BY <1>3 DEF MyDesc, DescOf

\* Nothing comes of a step either.
LEMMA NothingComesOfAStep ==
  ASSUME IInv, LockIsKept', NothingComesOfIt, AccessorStep
  PROVE  NothingComesOfIt'
<1>0. TypeOK /\ DOMAIN fd = Files /\ DOMAIN pc = Threads
  BY Facts DEF IInv
<1>1. ASSUME NEW f \in Files, Registering(f) PROVE Registering(f)'
  <2>1. PICK t \in Threads : pc[t] = "reg" /\ call[t].file = f
    BY <1>1 DEF Registering
  <2>2. pc'[t] = "reg" /\ call'[t] = call[t]
    BY <2>1, RegistrationLasts
  <2> QED
    BY <2>1, <2>2 DEF Registering
<1>2. ASSUME NEW t \in Threads, OpenFile(t) \/ OpenFails(t) PROVE NothingComesOfIt'
  <2> DEFINE f == call[t].file
  <2>1. /\ pc' = [pc EXCEPT ![t] = "reg"] /\ call' = call
        /\ UNCHANGED <<opened, content, children>>
        /\ \E n : fd' = [fd EXCEPT ![f] = n]
    BY <1>2 DEF OpenFile, OpenFails, kernel
  <2>2. Registering(f)'
    BY <1>0, <2>1 DEF Registering
  <2>3. ASSUME NEW g \in Files, fd'[g] # -1 PROVE Registering(g)'
    BY <1>0, <1>1, <2>1, <2>2, <2>3 DEF NothingComesOfIt
  <2> QED
    BY <2>1, <2>3 DEF NothingComesOfIt
<1>3. ASSUME NEW t \in Threads, Close(t) PROVE NothingComesOfIt'
  <2>1. /\ UNCHANGED <<fd, content, children>>
        /\ \A f \in Files : ~opened'[f]
    BY <1>0, <1>3 DEF Close, NothingComesOfIt, TypeOK, MembersOK
  <2> QED
    BY <1>1, <2>1 DEF NothingComesOfIt
<1>4. ASSUME NEW t \in Threads, Write(t) PROVE NothingComesOfIt'
  <2>1. MyDesc(t) = 0
    BY <1>4, NobodyHasADescriptor DEF Write, In
  <2>2. /\ UNCHANGED <<fd, opened, content>>
        /\ \A c \in children' : c \in children \/ c.desc = 0
    BY <1>4, <2>1 DEF Write, members
  <2> QED
    BY <1>1, <2>2 DEF NothingComesOfIt
<1>5. ASSUME UNCHANGED <<fd, opened, content, children>> PROVE NothingComesOfIt'
  BY <1>1, <1>5 DEF NothingComesOfIt
<1>6. ASSUME NEW c \in children, Child(c) PROVE NothingComesOfIt'
  <2>1. ~ChildWrites(c)
    BY DEF NothingComesOfIt, ChildWrites, Lands, Writable
  <2>2. UNCHANGED <<fd, opened, content>> /\ children' \subseteq children
    BY <1>6, <2>1 DEF Child, ChildFails, members
  <2> QED
    BY <1>1, <2>2 DEF NothingComesOfIt
<1>7. ASSUME NEW t \in Threads,
             Request(t) \/ Enter(t) \/ Return(t) \/ OpenAgain(t) \/ Read(t) \/ Seek(t)
      PROVE  UNCHANGED <<fd, opened, content, children>>
  BY <1>7 DEF Request, Call, Enter, Return, OpenAgain, Read, Seek, members, kernel
<1>8. CASE UNCHANGED vars
  BY <1>5, <1>8 DEF vars, members, kernel
<1> QED
  BY <1>2, <1>3, <1>4, <1>5, <1>6, <1>7, <1>8 DEF AccessorStep, Accessor

\* However many threads and files there are: as long as the supervisor hangs in the first
\* open, i_write's promise is kept for no write at all.
THEOREM WritesAreLost == ServiceSpec => []NoWriteLands
<1>1. ServiceInit => ServiceInv /\ NothingComesOfIt
  BY InitServiceInv DEF ServiceInit, Init, NothingComesOfIt
<1>2. ServiceInv /\ NothingComesOfIt /\ [ServiceNext]_serviceVars
        => ServiceInv' /\ NothingComesOfIt'
  BY NobodyRegisters, NextServiceInv, NothingComesOfAStep DEF ServiceInv, IInv
<1>3. NothingComesOfIt => NoWriteLands
  BY DEF NothingComesOfIt, NoWriteLands
<1> QED
  BY <1>1, <1>2, <1>3, PTL DEF ServiceSpec

\* The two parts keep to themselves: what FileService composes implements FileAccessor and
\* FileSupervisor, so all that is proved of these holds of it.
THEOREM ServiceImplementsItsParts == ServiceSpec => Spec /\ Supervisor!Spec
<1>1. ServiceInit => Init /\ Supervisor!Init
  BY DEF ServiceInit
<1>2. ServiceInv /\ [ServiceNext]_serviceVars => [Next]_vars /\ [Supervisor!Next]_(Supervisor!supVars)
  <2> SUFFICES ASSUME ServiceInv, [ServiceNext]_serviceVars
               PROVE  [Next]_vars /\ [Supervisor!Next]_(Supervisor!supVars)
    OBVIOUS
  <2>0. UNCHANGED supervisor => UNCHANGED Supervisor!supVars
    BY DEF Supervisor!supVars, supervisor
  <2>1. ASSUME NEW t \in Threads, Accessor(t) /\ UNCHANGED supervisor
        PROVE  Next /\ UNCHANGED supervisor
    BY <2>1 DEF Accessor, Body, Next
  <2>2. ASSUME NEW t \in Threads, Register(t) PROVE [Next]_vars /\ Supervisor!Next
    <3>1. CASE at[t] = "done"
      BY <2>2, <3>1 DEF Register, Body, Next, Supervisor!Next
    <3>2. CASE at[t] # "done"
      <4>1. UNCHANGED vars /\ Supervisor!Call(t, "setFd", call[t].file, fd[call[t].file])
        BY <2>2, <3>2 DEF Register
      <4>2. call[t].file \in Files /\ fd[call[t].file] \in Fds \union {-1}
        BY <2>2, <3>2, Facts DEF Register, ServiceInv, IInv, TypeOK, MembersOK
      <4> QED
        BY <4>1, <4>2 DEF Supervisor!Next, Supervisor!Functions
    <3> QED
      BY <3>1, <3>2
  <2>3. ASSUME NEW t \in Threads, Supervisor!Step(t) /\ UNCHANGED vars
        PROVE  Supervisor!Next /\ UNCHANGED vars
    BY <2>3 DEF Supervisor!Next
  <2>4. (\E t \in Threads : Request(t)) \/ (\E c \in children : Child(c)) => Next
    BY DEF Next
  <2>5. CASE UNCHANGED serviceVars
    BY <2>0, <2>5 DEF serviceVars
  <2>6. ASSUME NEW t \in Threads, ServiceStep(t)
        PROVE  [Next]_vars /\ [Supervisor!Next]_(Supervisor!supVars)
    BY <2>0, <2>1, <2>2, <2>3, <2>6 DEF ServiceStep
  <2> QED
    BY <2>0, <2>4, <2>5, <2>6 DEF ServiceNext
<1> QED
  BY <1>1, <1>2, InitServiceInv, NextServiceInv, PTL DEF ServiceSpec, Spec, Supervisor!Spec
=============================================================================
