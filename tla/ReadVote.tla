------------------------------ MODULE ReadVote ------------------------------
(***************************************************************************)
(* SyncFileAccessor.cpp, read_w: a read asks the peers for their bytes, reads  *)
(* its own file, and answers what most of them have at each index.              *)
(*                                                                           *)
(* The module takes e_read at its type: it returns a message for each peer,     *)
(* with any of the statuses that readSyncClient assigns, and OK with a string.    *)
(* The vote is modelled for all of these, which is what it is written for.  In    *)
(* this code none of them gets here: e_read does not return (PeerSync), it        *)
(* would return an empty vector, because the messages are written in the memory   *)
(* of the forked processes, and the last statement of readSyncClient replaces     *)
(* an OK by SYNC_FAIL.                                                            *)
(* A peer's string comes from a C string, so it has no NUL.  The own message is   *)
(* that of FileAccessor's read_w: `bytes' bytes, with NULs where the file gave     *)
(* fewer, or FAIL with the text of the error.  Bytes are numbers, 0 is NUL.        *)
(***************************************************************************)
EXTENDS RWLock, Sequences, FiniteSetsExt, SequencesExt

CONSTANTS
  Readers, Writers,  \* the threads that call read_w, and those that write
  NumReplies,        \* how many messages e_read returns
  MaxByte,           \* bytes are 0..MaxByte
  bytes,             \* read_w's argument
  MaxReply,          \* bound: the length of a peer's string
  MaxReads           \* bound: reads of a thread that fail

ASSUME VoteAssumption ==
  /\ Readers \union Writers \subseteq Threads /\ NoThread \notin Threads
  /\ {NumReplies, MaxByte, bytes, MaxReply, MaxReads} \subseteq Nat

VARIABLES
  allBytes,  \* the messages of each thread's read, the own one last
  reply,     \* the answer of its last read, with what it passed on to the peers
  failed     \* how many of its reads were answered FAIL

vars == <<allBytes, reply, failed, lockVars>>

Byte == 0..MaxByte

Messages(status, strings) == [status : {status}, data : strings]

\* What e_read may return for a peer by its type, and what FileAccessor::read_w
\* returns.
Replies == Messages("SYNC_FAIL", {<<>>})
             \union Messages("OK", BoundedSeq(Byte \ {0}, MaxReply))
Own == Messages("OK", [1..bytes -> Byte])
         \union Messages("FAIL", BoundedSeq(Byte \ {0}, MaxReply) \ {<<>>})

NoReply == [status |-> "none", data |-> <<>>, passedOn |-> <<>>]

-----------------------------------------------------------------------------
\* The vote.

okCounter(ms)   == Cardinality({k \in DOMAIN ms : ms[k].status = "OK"})
failCounter(ms) == Cardinality({k \in DOMAIN ms : ms[k].status # "OK"})

max_length(ms) == Max({Len(ms[k].data) : k \in DOMAIN ms})

\* A slip: the strings are not asked for their length, and end with a NUL.
countsTheEnd(ms, i, b) ==
  Cardinality({k \in DOMAIN ms :
    IF i <= Len(ms[k].data) THEN ms[k].data[i] = b ELSE b = 0})

\* How many messages have byte b at index i.
counts(ms, i, b) ==
  Cardinality({k \in DOMAIN ms : i <= Len(ms[k].data) /\ ms[k].data[i] = b})

\* A slip: max_count is not kept.
most_commonForgets(ms, i) ==
  LET scan[j \in Byte] ==
        LET best == IF j = 0 THEN 0 ELSE scan[j - 1]
        IN  IF counts(ms, i, j) > 0 THEN j ELSE best
  IN  scan[MaxByte]

\* The bytes are gone through upwards, and one that more messages have replaces
\* the best so far.
most_common(ms, i) ==
  LET scan[j \in Byte] ==
        LET best == IF j = 0 THEN [byte |-> 0, max_count |-> 0] ELSE scan[j - 1]
            here == counts(ms, i, j)
        IN  IF here > best.max_count THEN [byte |-> j, max_count |-> here] ELSE best
  IN  scan[MaxByte].byte

\* A slip: the last index is left out.
resultTooShort(ms) == [i \in 1..(max_length(ms) - 1) |-> most_common(ms, i)]

\* Index by index, up to the first NUL, which still belongs to the result.
result(ms) ==
  LET nuls == {i \in 1..max_length(ms) : most_common(ms, i) = 0}
      end  == IF nuls = {} THEN max_length(ms) ELSE Min(nuls)
  IN  [i \in 1..end |-> most_common(ms, i)]

-----------------------------------------------------------------------------
\* The calls.

\* rwlock_start_read, and the messages of the peers and of the own file.
Gather(t) ==
  /\ allBytes[t] = <<>>
  /\ failed[t] < MaxReads
  /\ BeginRead(t)
  /\ \E replies \in [1..NumReplies -> Replies], own \in Own :
       allBytes' = [allBytes EXCEPT ![t] = Append(replies, own)]
  /\ reply' = [reply EXCEPT ![t] = NoReply]
  /\ UNCHANGED failed

TooManyFail(t) == failCounter(allBytes[t]) > okCounter(allBytes[t])

\* A slip that would be a repair: the lock is given back here too.
AnswerFailUnlocks(t) ==
  /\ allBytes[t] # <<>> /\ reply[t] = NoReply
  /\ TooManyFail(t)
  /\ reply' = [reply EXCEPT ![t] = [status |-> "FAIL", data |-> <<>>,
                                    passedOn |-> <<>>]]
  /\ failed' = [failed EXCEPT ![t] = @ + 1]
  /\ EndRead(t)
  /\ UNCHANGED allBytes

\* Most messages are failures: the peers are told to go back, and to write the own
\* string.  The function returns without rwlock_end_read.
AnswerFail(t) ==
  /\ allBytes[t] # <<>> /\ reply[t] = NoReply
  /\ TooManyFail(t)
  /\ reply' = [reply EXCEPT ![t] =
       [status |-> "FAIL", data |-> <<>>,
        passedOn |-> <<[op |-> "seek", arg |-> -bytes],
                       [op |-> "write", arg |-> Last(allBytes[t]).data]>>]]
  /\ failed' = [failed EXCEPT ![t] = @ + 1]
  /\ UNCHANGED <<allBytes, lockVars>>

AnswerOk(t) ==
  /\ allBytes[t] # <<>> /\ reply[t] = NoReply
  /\ ~TooManyFail(t)
  /\ reply' = [reply EXCEPT ![t] = [status |-> "OK", data |-> result(allBytes[t]),
                                    passedOn |-> <<>>]]
  /\ EndRead(t)
  /\ UNCHANGED <<allBytes, failed>>

\* The caller has its answer.
Return(t) ==
  /\ reply[t] # NoReply /\ allBytes[t] # <<>>
  /\ allBytes' = [allBytes EXCEPT ![t] = <<>>]
  /\ reply' = [reply EXCEPT ![t] = NoReply]
  /\ UNCHANGED <<failed, lockVars>>

\* Another client's write_w, open, close or seek.
Write(t) ==
  /\ BeginWrite(t) \/ EndWrite(t)
  /\ UNCHANGED <<allBytes, reply, failed>>

Init ==
  /\ allBytes = [t \in Readers |-> <<>>]
  /\ reply = [t \in Readers |-> NoReply]
  /\ failed = [t \in Readers |-> 0]
  /\ Unlocked

Next ==
  \/ \E t \in Readers : Gather(t) \/ AnswerFail(t) \/ AnswerOk(t) \/ Return(t)
  \/ \E t \in Writers : Write(t)

Spec == Init /\ [][Next]_vars

-----------------------------------------------------------------------------
\* Properties.

\* Every variable has its type.
TypeOK ==
  /\ reading \in [Threads -> Nat]
  /\ writer \in Writers \union {NoThread}
  /\ failed \in [Readers -> 0..MaxReads]
  /\ \A t \in Readers :
       /\ Len(allBytes[t]) \in {0, NumReplies + 1}
       /\ reply[t].status \in {"none", "OK", "FAIL"}
       /\ \A i \in DOMAIN reply[t].data : reply[t].data[i] \in Byte

\* The byte that an answer has at an index was there in a message, and in as many
\* messages as any other byte (the counting loops of read_w against what they are
\* to compute).
AnswerIsThePlurality ==
  \A t \in Readers : \A i \in DOMAIN reply[t].data :
    LET having(b) == {k \in DOMAIN allBytes[t] :
                        i <= Len(allBytes[t][k].data) /\ allBytes[t][k].data[i] = b}
    IN  /\ having(reply[t].data[i]) # {}
        /\ \A b \in Byte :
             Cardinality(having(b)) <= Cardinality(having(reply[t].data[i]))

\* A string without NUL that more than half of the messages report is the answer,
\* unless some message is longer: the failures of a minority do not fail the read,
\* and its bytes do not get into it.
AgreedReadIsAnswered ==
  \A t \in Readers : reply[t] # NoReply =>
    \A s \in {allBytes[t][k].data : k \in DOMAIN allBytes[t]} :
      LET having == {k \in DOMAIN allBytes[t] :
                       allBytes[t][k] = [status |-> "OK", data |-> s]}
      IN  /\ 2 * Cardinality(having) > Len(allBytes[t])
          /\ 0 \notin {s[i] : i \in DOMAIN s}
          /\ max_length(allBytes[t]) = Len(s)
          => reply[t].status = "OK" /\ reply[t].data = s

\* Once a read was answered FAIL nobody gets in to write, open, close or seek again: the
\* read lock of line 97 stays taken (SyncFileAccessor.cpp:113-117).  A child that i_write
\* forked before does not need the lock and may still write.
FailedReadEndsWriting ==
  [][(\E t \in Readers : failed[t] > 0) => writer' = NoThread]_vars

=============================================================================
