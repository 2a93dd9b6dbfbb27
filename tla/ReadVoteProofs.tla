--------------------------- MODULE ReadVoteProofs ---------------------------
(***************************************************************************)
(* For any number of threads, peers and bytes, and for messages of any length:   *)
(* the loops of read_w compute the vote, and a read that fails keeps its lock.    *)
(*                                                                           *)
(* The loop over the bytes is a function that is defined by recursion.  That       *)
(* there is such a function, and that it finds the most frequent byte, holds       *)
(* because a least byte for which it fails would be 0 or come after another one:    *)
(* LeastOf stands for induction.                                                *)
(***************************************************************************)
EXTENDS ReadVote, FiniteSetTheorems, WellFoundedInduction, TLAPS

\* The order on numbers, as the relation that the library speaks of.
Below == {pair \in Nat \X Nat : pair[1] < pair[2]}

\* Some numbers have a least one.
LEMMA LeastOf ==
  ASSUME NEW S, S \subseteq Nat, S # {}
  PROVE  \E m \in S : \A n \in S : m <= n
<1>1. IsWellFoundedOn(Below, Nat)
  <2>1. OpToRel(<, Nat) = Below
    BY DEF OpToRel, Below
  <2> QED
    BY <2>1, NatLessThanWellFounded
<1>2. PICK m \in S : \A n \in S : ~ (<<n, m>> \in Below)
  <2>1. \E m \in S : \A n \in S : ~ (<<n, m>> \in Below)
    BY <1>1, WFMin
  <2> QED
    BY <2>1
<1>3. ASSUME NEW n \in S PROVE m <= n
  <2>1. m \in Nat /\ n \in Nat /\ <<n, m>> \notin Below
    BY <1>2
  <2>2. n < m => <<n, m>> \in Below
    BY <2>1 DEF Below
  <2> QED
    BY <2>1, <2>2
<1> QED
  BY <1>3

\* No string is longer than this.
Bound == MaxReply + bytes

\* A message, of a peer or of the own accessor.
Message == [status : {"OK", "FAIL", "SYNC_FAIL"}, data : Seq(Byte)]

\* What a read may have to vote on.
Gathered ==
  {ms \in Seq(Message) :
     /\ Len(ms) = NumReplies + 1
     /\ \A k \in DOMAIN ms : Len(ms[k].data) <= Bound}

\* The constants are numbers.
LEMMA BoundIsNat ==
  /\ Bound \in Nat /\ MaxByte \in Nat /\ bytes \in Nat
  /\ NumReplies \in Nat /\ MaxReply \in Nat
  BY VoteAssumption DEF Bound

\* What e_read and FileAccessor return are such messages.
LEMMA MessagesAre ==
  \A m \in Replies \union Own : m \in Message /\ Len(m.data) <= Bound
<1>1. \A s \in BoundedSeq(Byte \ {0}, MaxReply) :
        s \in Seq(Byte) /\ Len(s) <= MaxReply /\ Len(s) \in Nat
  BY BoundIsNat DEF BoundedSeq, SeqOf
<1>2. \A s \in [1..bytes -> Byte] : s \in Seq(Byte) /\ Len(s) = bytes /\ Len(s) \in Nat
  BY BoundIsNat
<1>3. <<>> \in Seq(Byte) /\ Len(<<>>) = 0
  OBVIOUS
<1>4. \A s : s \in BoundedSeq(Byte \ {0}, MaxReply) \/ s = <<>> \/ s \in [1..bytes -> Byte]
              => s \in Seq(Byte) /\ Len(s) <= Bound
  <2> SUFFICES ASSUME NEW s,
                      s \in BoundedSeq(Byte \ {0}, MaxReply) \/ s = <<>> \/ s \in [1..bytes -> Byte]
               PROVE  s \in Seq(Byte) /\ Len(s) <= Bound
    OBVIOUS
  <2>1. s \in Seq(Byte) /\ (Len(s) <= MaxReply \/ Len(s) = 0 \/ Len(s) = bytes) /\ Len(s) \in Nat
    <3>1. CASE s \in BoundedSeq(Byte \ {0}, MaxReply)
      BY <1>1, <3>1, BoundIsNat
    <3>2. CASE s = <<>>
      BY <1>3, <3>2
    <3>3. CASE s \in [1..bytes -> Byte]
      BY <1>2, <3>3, BoundIsNat
    <3> QED
      BY <3>1, <3>2, <3>3
  <2>2. \A n \in Nat : n <= MaxReply \/ n = 0 \/ n = bytes => n <= MaxReply + bytes
    BY BoundIsNat
  <2> QED
    BY <2>1, <2>2 DEF Bound
<1>5. \A m \in Replies \union Own :
        /\ \E status \in {"OK", "FAIL", "SYNC_FAIL"} : \E data :
             m = [status |-> status, data |-> data]
        /\ \/ m.data \in BoundedSeq(Byte \ {0}, MaxReply)
           \/ m.data = <<>>
           \/ m.data \in [1..bytes -> Byte]
  BY DEF Replies, Own, Messages
<1>6. ASSUME NEW m \in Replies \union Own PROVE m \in Message /\ Len(m.data) <= Bound
  <2>1. m.data \in Seq(Byte) /\ Len(m.data) <= Bound
    BY <1>4, <1>5
  <2> QED
    BY <1>5, <2>1 DEF Message
<1> QED
  BY <1>6

\* The messages of the peers with the own one at the end are voted on.
LEMMA GatheredAre ==
  ASSUME NEW replies \in [1..NumReplies -> Replies], NEW own \in Own
  PROVE  Append(replies, own) \in Gathered
<1>1. replies \in Seq(Message) /\ own \in Message
  BY MessagesAre, BoundIsNat
<1>2. Append(replies, own) \in Seq(Message) /\ Len(Append(replies, own)) = NumReplies + 1
  BY <1>1, BoundIsNat
<1>3. \A k \in DOMAIN Append(replies, own) : Append(replies, own)[k] \in Replies \union Own
  BY <1>1, BoundIsNat
<1> QED
  BY <1>2, <1>3, MessagesAre DEF Gathered

-----------------------------------------------------------------------------
\* max_length is the length of a longest string.
LEMMA MaxLength ==
  ASSUME NEW ms \in Gathered
  PROVE  /\ max_length(ms) \in Nat
         /\ \A k \in DOMAIN ms : Len(ms[k].data) <= max_length(ms)
         /\ \E k \in DOMAIN ms : Len(ms[k].data) = max_length(ms)
<1> DEFINE L == {Len(ms[k].data) : k \in DOMAIN ms}
           Short == {Bound - x : x \in L}
<1>1. \A k \in DOMAIN ms : Len(ms[k].data) \in Nat /\ Len(ms[k].data) <= Bound
  BY DEF Gathered, Message
<1>2. L \subseteq Nat /\ L # {} /\ \A x \in L : x <= Bound
  <2>1. 1 \in DOMAIN ms
    BY BoundIsNat DEF Gathered
  <2> QED
    BY <1>1, <2>1
<1>3. Short \subseteq Nat /\ Short # {}
  BY <1>2, BoundIsNat
<1>4. PICK least \in Short : \A n \in Short : least <= n
  BY <1>3, LeastOf
<1>5. \E x \in L : \A y \in L : x >= y
  <2>1. PICK x \in L : least = Bound - x
    OBVIOUS
  <2>2. ASSUME NEW y \in L PROVE x >= y
    <3>1. Bound - x <= Bound - y
      BY <1>4, <2>1
    <3>2. x \in Nat /\ y \in Nat
      BY <1>2
    <3> QED
      BY <3>1, <3>2, BoundIsNat
  <2> QED
    BY <2>2
<1>6. max_length(ms) \in L /\ \A y \in L : max_length(ms) >= y
  BY <1>5 DEF max_length, Max
<1> QED
  BY <1>2, <1>6

\* The messages that have byte b at index i.
Having(ms, i, b) == {k \in DOMAIN ms : i <= Len(ms[k].data) /\ ms[k].data[i] = b}

\* Some of the messages are finitely many, and as many as they are at most.
LEMMA SomeOf ==
  ASSUME NEW ms \in Gathered, NEW K, K \subseteq DOMAIN ms
  PROVE  /\ IsFiniteSet(K) /\ Cardinality(K) \in Nat
         /\ \A J : J \subseteq K => IsFiniteSet(J) /\ Cardinality(J) <= Cardinality(K)
         /\ Cardinality(K) <= Len(ms)
         /\ Cardinality(K) = 0 <=> K = {}
<1>1. DOMAIN ms = 1..Len(ms) /\ Len(ms) \in Nat
  BY DEF Gathered
<1>2. IsFiniteSet(DOMAIN ms) /\ Cardinality(DOMAIN ms) = Len(ms)
  BY <1>1, FS_Interval
<1> QED
  BY <1>2, FS_Subset, FS_CardinalityType, FS_EmptySet

\* Two groups of messages that share none are not more than all.
LEMMA Disjoint ==
  ASSUME NEW ms \in Gathered, NEW J, J \subseteq DOMAIN ms, NEW K, K \subseteq DOMAIN ms,
         J \intersect K = {}
  PROVE  Cardinality(J) + Cardinality(K) <= Len(ms)
<1>1. Cardinality(J \union K) = Cardinality(J) + Cardinality(K) - Cardinality(J \intersect K)
  BY SomeOf, FS_Union
<1>2. Cardinality(J \union K) <= Len(ms)
  BY SomeOf
<1> QED
  BY <1>1, <1>2, SomeOf, FS_EmptySet

\* counts counts, and is zero for what is not in any message.
LEMMA CountsAre ==
  ASSUME NEW ms \in Gathered, NEW i, NEW b
  PROVE  counts(ms, i, b) = Cardinality(Having(ms, i, b)) /\ counts(ms, i, b) \in Nat
<1>1. Having(ms, i, b) \subseteq DOMAIN ms
  BY DEF Having
<1> QED
  BY <1>1, SomeOf DEF counts, Having

-----------------------------------------------------------------------------
\* The best byte after byte j, where scan is the best after each one before it.
Best(ms, i, scan, j) ==
  LET best == IF j = 0 THEN [byte |-> 0, max_count |-> 0] ELSE scan[j - 1]
      here == counts(ms, i, j)
  IN  IF here > best.max_count THEN [byte |-> j, max_count |-> here] ELSE best

\* The function that the loop over the bytes fills in.
Scan(ms, i) == CHOOSE scan : scan = [j \in Byte |-> Best(ms, i, scan, j)]

\* most_common reads its result off that function.
LEMMA ScanIs == \A ms, i : most_common(ms, i) = Scan(ms, i)[MaxByte].byte
  BY DEF most_common, Scan, Best

\* One turn of the loop looks at the result of the turn before it only.
LEMMA BestLooksBack ==
  ASSUME NEW ms, NEW i, NEW f, NEW g, NEW j, j = 0 \/ f[j - 1] = g[j - 1]
  PROVE  Best(ms, i, f, j) = Best(ms, i, g, j)
  BY DEF Best

\* The loop is defined: there is a function that each of its turns agrees with.
LEMMA ScanDefined ==
  ASSUME NEW ms, NEW i
  PROVE  Scan(ms, i) = [j \in Byte |-> Best(ms, i, Scan(ms, i), j)]
<1> DEFINE Upto(n) == \E f : f = [j \in 0..n |-> Best(ms, i, f, j)]
           Fails == {n \in Nat : ~Upto(n)}
<1>1. Upto(0)
  <2> DEFINE f == [j \in 0..0 |-> Best(ms, i, <<>>, 0)]
  <2>1. \A j \in 0..0 : Best(ms, i, f, j) = Best(ms, i, <<>>, 0)
    BY BestLooksBack
  <2>2. f = [j \in 0..0 |-> Best(ms, i, f, j)]
    BY <2>1
  <2> QED
    BY <2>2
<1>2. ASSUME NEW n \in Nat, n > 0, Upto(n - 1) PROVE Upto(n)
  <2>1. PICK f : f = [j \in 0..(n - 1) |-> Best(ms, i, f, j)]
    BY <1>2
  <2> DEFINE g == [j \in 0..n |-> IF j = n THEN Best(ms, i, f, n) ELSE f[j]]
  <2>2. ASSUME NEW j \in 0..n PROVE g[j] = Best(ms, i, g, j)
    <3>1. j = 0 \/ g[j - 1] = f[j - 1]
      OBVIOUS
    <3>2. Best(ms, i, g, j) = Best(ms, i, f, j)
      BY <3>1, BestLooksBack
    <3>3. j # n => j \in 0..(n - 1)
      OBVIOUS
    <3>4. j # n => f[j] = Best(ms, i, f, j)
      BY <2>1, <3>3
    <3> QED
      BY <3>2, <3>4
  <2>3. g = [j \in 0..n |-> Best(ms, i, g, j)]
    BY <2>2
  <2> QED
    BY <2>3
<1>3. Fails = {}
  <2> SUFFICES ASSUME Fails # {} PROVE FALSE
    OBVIOUS
  <2>1. PICK n \in Fails : \A m \in Fails : n <= m
    <3> HIDE DEF Upto
    <3>1. Fails \subseteq Nat
      OBVIOUS
    <3> QED
      BY <3>1, LeastOf
  <2> HIDE DEF Upto
  <2>2. n \in Nat /\ n # 0
    BY <1>1
  <2>3. n - 1 \in Nat /\ n - 1 \notin Fails
    BY <2>1, <2>2
  <2> QED
    BY <1>2, <2>2, <2>3
<1>4. Upto(MaxByte)
  <2> HIDE DEF Upto
  <2> QED
    BY <1>3, BoundIsNat
<1> QED
  BY <1>4 DEF Scan, Byte

\* After byte n the loop has a byte, its count, and no byte up to n with more.
LEMMA ScanFindsMost ==
  ASSUME NEW ms \in Gathered, NEW i
  PROVE  \A n \in Byte :
           LET best == Scan(ms, i)[n]
           IN  /\ best.byte \in Byte
               /\ best.max_count = counts(ms, i, best.byte)
               /\ \A b \in 0..n : counts(ms, i, b) <= best.max_count
<1> DEFINE scan == Scan(ms, i)
           Right(n) == /\ scan[n].byte \in Byte
                       /\ scan[n].max_count = counts(ms, i, scan[n].byte)
                       /\ \A b \in 0..n : counts(ms, i, b) <= scan[n].max_count
           Wrong == {n \in Byte : ~Right(n)}
<1>1. \A n \in Byte : scan[n] = Best(ms, i, scan, n)
  BY ScanDefined
<1>2. \A b : counts(ms, i, b) \in Nat
  BY CountsAre
<1> HIDE DEF scan
<1>3. Right(0)
  <2>1. 0 \in Byte
    BY BoundIsNat DEF Byte
  <2>2. scan[0] = IF counts(ms, i, 0) > 0 THEN [byte |-> 0, max_count |-> counts(ms, i, 0)]
                                         ELSE [byte |-> 0, max_count |-> 0]
    BY <1>1, <2>1 DEF Best
  <2>3. counts(ms, i, 0) \in Nat
    BY <1>2
  <2>4. scan[0].byte = 0 /\ scan[0].max_count = counts(ms, i, 0)
    BY <2>2, <2>3
  <2>5. \A b \in 0..0 : b = 0
    OBVIOUS
  <2> QED
    BY <2>1, <2>3, <2>4, <2>5
<1>4. ASSUME NEW n \in Byte, n > 0, Right(n - 1) PROVE Right(n)
  <2>1. scan[n] = IF counts(ms, i, n) > scan[n - 1].max_count
                    THEN [byte |-> n, max_count |-> counts(ms, i, n)] ELSE scan[n - 1]
    BY <1>1, <1>4 DEF Best, Byte
  <2>2. \A b \in 0..n : b = n \/ b \in 0..(n - 1)
    BY DEF Byte
  <2>3. CASE counts(ms, i, n) > scan[n - 1].max_count
    <3>1. scan[n].byte = n /\ scan[n].max_count = counts(ms, i, n)
      BY <2>1, <2>3
    <3>2. scan[n - 1].max_count \in Nat
      BY <1>2, <1>4
    <3> QED
      BY <1>2, <1>4, <2>2, <2>3, <3>1, <3>2
  <2>4. CASE ~(counts(ms, i, n) > scan[n - 1].max_count)
    <3>1. scan[n] = scan[n - 1] /\ scan[n - 1].max_count \in Nat
      BY <1>2, <1>4, <2>1, <2>4
    <3>2. counts(ms, i, n) <= scan[n].max_count
      BY <1>2, <2>4, <3>1
    <3> QED
      BY <1>4, <2>2, <3>1, <3>2
  <2> QED
    BY <2>3, <2>4
<1>5. Wrong = {}
  <2> HIDE DEF Right
  <2> SUFFICES ASSUME Wrong # {} PROVE FALSE
    OBVIOUS
  <2>0. Byte \subseteq Nat
    BY DEF Byte
  <2>1. PICK n \in Wrong : \A m \in Wrong : n <= m
    <3>1. Wrong \subseteq Nat
      BY <2>0
    <3> QED
      BY <3>1, LeastOf
  <2>2. n \in Nat /\ n # 0 /\ n > 0
    BY <1>3, <2>0
  <2>3. n - 1 \in Byte /\ n - 1 \notin Wrong
    BY <2>1, <2>2, BoundIsNat DEF Byte
  <2> QED
    BY <1>4, <2>2, <2>3
<1> QED
  BY <1>5 DEF scan

\* No byte is in more messages at index i than the one that the loop finds.
LEMMA MostCommon ==
  ASSUME NEW ms \in Gathered, NEW i
  PROVE  /\ most_common(ms, i) \in Byte
         /\ \A b \in Byte : counts(ms, i, b) <= counts(ms, i, most_common(ms, i))
<1>1. MaxByte \in Byte
  BY BoundIsNat DEF Byte
<1> QED
  BY <1>1, ScanFindsMost, ScanIs DEF Byte

\* The result has the most common bytes, and all of them if none is NUL.
LEMMA ResultIs ==
  ASSUME NEW ms \in Gathered
  PROVE  \E end \in Nat :
           /\ end <= max_length(ms)
           /\ result(ms) = [i \in 1..end |-> most_common(ms, i)]
           /\ (\A i \in 1..max_length(ms) : most_common(ms, i) # 0) => end = max_length(ms)
<1> DEFINE nuls == {i \in 1..max_length(ms) : most_common(ms, i) = 0}
           end == IF nuls = {} THEN max_length(ms) ELSE Min(nuls)
<1>1. max_length(ms) \in Nat
  BY MaxLength
<1>2. nuls # {} => Min(nuls) \in nuls
  <2>1. nuls \subseteq Nat
    BY <1>1
  <2>2. nuls # {} => \E m \in nuls : \A n \in nuls : m <= n
    BY <2>1, LeastOf
  <2> HIDE DEF nuls
  <2> QED
    BY <2>2 DEF Min
<1>3. result(ms) = [i \in 1..end |-> most_common(ms, i)]
  BY DEF result
<1>4. end \in Nat /\ end <= max_length(ms)
  BY <1>1, <1>2
<1> QED
  BY <1>3, <1>4

-----------------------------------------------------------------------------
\* Each byte of the result is in a message, and in as many as any other byte.
LEMMA ResultIsPlurality ==
  ASSUME NEW ms \in Gathered, NEW i \in DOMAIN result(ms)
  PROVE  /\ Having(ms, i, result(ms)[i]) # {}
         /\ result(ms)[i] \in Byte
         /\ \A b \in Byte :
              Cardinality(Having(ms, i, b)) <= Cardinality(Having(ms, i, result(ms)[i]))
<1>1. i \in 1..max_length(ms) /\ result(ms)[i] = most_common(ms, i)
  BY ResultIs, MaxLength
<1>2. \E b \in Byte : Having(ms, i, b) # {}
  <2>1. PICK k \in DOMAIN ms : Len(ms[k].data) = max_length(ms)
    BY MaxLength
  <2>2. ms[k].data \in Seq(Byte) /\ i \in 1..Len(ms[k].data)
    <3>1. ms[k] \in Message
      BY DEF Gathered
    <3>2. ms[k].data \in Seq(Byte)
      BY <3>1 DEF Message
    <3> QED
      BY <1>1, <2>1, <3>2
  <2>3. ms[k].data[i] \in Byte /\ k \in Having(ms, i, ms[k].data[i])
    BY <2>2 DEF Having
  <2> QED
    BY <2>3
<1>3. ASSUME NEW x
      PROVE  /\ counts(ms, i, x) = Cardinality(Having(ms, i, x))
             /\ counts(ms, i, x) \in Nat
             /\ counts(ms, i, x) = 0 <=> Having(ms, i, x) = {}
  <2>1. \A y : Having(ms, i, y) \subseteq DOMAIN ms
    BY DEF Having
  <2> QED
    BY <2>1, SomeOf, CountsAre
<1>4. most_common(ms, i) \in Byte
      /\ \A b \in Byte : counts(ms, i, b) <= counts(ms, i, most_common(ms, i))
  BY MostCommon
<1>5. Having(ms, i, most_common(ms, i)) # {}
  <2>1. PICK b \in Byte : Having(ms, i, b) # {}
    BY <1>2
  <2>2. counts(ms, i, b) \in Nat /\ counts(ms, i, b) # 0
    BY <1>3, <2>1
  <2>3. counts(ms, i, b) <= counts(ms, i, most_common(ms, i))
    BY <1>4
  <2>4. counts(ms, i, most_common(ms, i)) \in Nat
    BY <1>3
  <2>5. counts(ms, i, most_common(ms, i)) # 0
    BY <2>2, <2>3, <2>4
  <2> QED
    BY <1>3, <2>5
<1>6. \A b \in Byte :
        Cardinality(Having(ms, i, b)) <= Cardinality(Having(ms, i, most_common(ms, i)))
  BY <1>3, <1>4
<1> QED
  BY <1>1, <1>4, <1>5, <1>6

\* A string without NUL that more than half of the messages report is the result,
\* and the failures do not outnumber the rest.
LEMMA MajorityWins ==
  ASSUME NEW ms \in Gathered, NEW s \in Seq(Byte), 0 \notin {s[i] : i \in DOMAIN s},
         max_length(ms) = Len(s),
         NEW H, H = {k \in DOMAIN ms : ms[k] = [status |-> "OK", data |-> s]},
         2 * Cardinality(H) > Len(ms)
  PROVE  ~(failCounter(ms) > okCounter(ms)) /\ result(ms) = s
<1> DEFINE Ok == {k \in DOMAIN ms : ms[k].status = "OK"}
           Fail == {k \in DOMAIN ms : ms[k].status # "OK"}
<1>0. Len(ms) \in Nat /\ H \subseteq DOMAIN ms /\ Cardinality(H) \in Nat
  BY SomeOf DEF Gathered
<1>1. ~(failCounter(ms) > okCounter(ms))
  <2>1. H \subseteq Ok /\ Ok \subseteq DOMAIN ms /\ Fail \subseteq DOMAIN ms /\ H \intersect Fail = {}
    OBVIOUS
  <2> HIDE DEF Ok, Fail
  <2>2. Cardinality(H) <= Cardinality(Ok) /\ Cardinality(Ok) \in Nat /\ Cardinality(Fail) \in Nat
    BY <2>1, SomeOf
  <2>3. Cardinality(H) + Cardinality(Fail) <= Len(ms)
    BY <1>0, <2>1, Disjoint
  <2>4. Cardinality(Fail) <= Cardinality(Ok)
    BY <1>0, <2>2, <2>3
  <2>5. failCounter(ms) = Cardinality(Fail) /\ okCounter(ms) = Cardinality(Ok)
    BY DEF failCounter, okCounter, Ok, Fail
  <2> QED
    BY <2>2, <2>4, <2>5
<1>2. ASSUME NEW i \in 1..Len(s) PROVE most_common(ms, i) = s[i]
  <2>1. s[i] \in Byte
    OBVIOUS
  <2>2. H \subseteq Having(ms, i, s[i]) /\ Having(ms, i, s[i]) \subseteq DOMAIN ms
    BY DEF Having
  <2>3. Cardinality(H) <= counts(ms, i, s[i]) /\ counts(ms, i, s[i]) \in Nat
    BY <2>2, SomeOf, CountsAre
  <2>4. ASSUME NEW b \in Byte, b # s[i] PROVE counts(ms, i, b) < counts(ms, i, s[i])
    <3>1. Having(ms, i, b) \subseteq DOMAIN ms /\ H \intersect Having(ms, i, b) = {}
      BY <2>4 DEF Having
    <3>2. Cardinality(H) + Cardinality(Having(ms, i, b)) <= Len(ms)
      BY <1>0, <3>1, Disjoint
    <3>3. counts(ms, i, b) = Cardinality(Having(ms, i, b)) /\ counts(ms, i, b) \in Nat
      BY CountsAre
    <3> QED
      BY <1>0, <2>3, <3>2, <3>3
  <2>5. /\ most_common(ms, i) \in Byte
        /\ counts(ms, i, s[i]) <= counts(ms, i, most_common(ms, i))
        /\ counts(ms, i, most_common(ms, i)) \in Nat
    BY <2>1, MostCommon, CountsAre
  <2> QED
    BY <2>3, <2>4, <2>5
<1>3. \A i \in 1..Len(s) : s[i] # 0
  OBVIOUS
<1>4. result(ms) = [i \in 1..Len(s) |-> most_common(ms, i)]
  BY <1>2, <1>3, ResultIs
<1>5. s = [i \in 1..Len(s) |-> s[i]]
  OBVIOUS
<1>6. [i \in 1..Len(s) |-> most_common(ms, i)] = [i \in 1..Len(s) |-> s[i]]
  BY <1>2
<1> QED
  BY <1>1, <1>4, <1>5, <1>6

-----------------------------------------------------------------------------
\* A read between Gather and its answer.
Unanswered(t) == allBytes[t] # <<>> /\ reply[t] = NoReply

\* The types that the proof needs.
Typed ==
  /\ reading \in [Threads -> Nat]
  /\ writer \in Writers \union {NoThread}
  /\ allBytes \in [Readers -> Gathered \union {<<>>}]
  /\ DOMAIN reply = Readers
  /\ failed \in [Readers -> Nat]

\* A read that failed, or that has no answer yet, holds a read lock of its own.
LockPerRead ==
  \A t \in Readers :
    /\ reading[t] >= failed[t]
    /\ Unanswered(t) => reading[t] >= failed[t] + 1

\* No thread fails more often than the bound allows.
FailsAreBounded ==
  \A t \in Readers : failed[t] <= MaxReads /\ (Unanswered(t) => failed[t] < MaxReads)

\* Nobody writes while somebody reads.
ReadersKeepOut == (\E t \in Threads : reading[t] > 0) => writer = NoThread

\* An answer is what the vote on its messages says.
AnswersAreVotes ==
  \A t \in Readers : reply[t] # NoReply =>
    /\ allBytes[t] # <<>>
    /\ IF TooManyFail(t) THEN reply[t].status = "FAIL" /\ reply[t].data = <<>>
                         ELSE reply[t].status = "OK" /\ reply[t].data = result(allBytes[t])

\* The inductive invariant.
IInv == Typed /\ LockPerRead /\ FailsAreBounded /\ ReadersKeepOut /\ AnswersAreVotes

\* It holds at first.
LEMMA InitIInv == Init => IInv
  BY VoteAssumption
  DEF Init, IInv, Typed, LockPerRead, FailsAreBounded, ReadersKeepOut, AnswersAreVotes,
      Unanswered, Unlocked

\* Every step keeps it.
LEMMA NextIInv == IInv /\ [Next]_vars => IInv'
<1> SUFFICES ASSUME IInv, [Next]_vars PROVE IInv'
  OBVIOUS
<1> USE VoteAssumption DEF IInv, Typed
<1>0. /\ DOMAIN allBytes = Readers /\ DOMAIN failed = Readers /\ Readers \subseteq Threads
      /\ NoThread \notin Threads
      /\ \A t \in Readers : failed[t] \in Nat /\ reading[t] \in Nat
  OBVIOUS
<1>1. ASSUME NEW t \in Readers, Gather(t) PROVE IInv'
  <2>1. PICK ms \in Gathered :
          /\ allBytes' = [allBytes EXCEPT ![t] = ms]
          /\ reply' = [reply EXCEPT ![t] = NoReply]
          /\ reading' = [reading EXCEPT ![t] = reading[t] + 1]
          /\ writer = NoThread /\ writer' = writer /\ failed' = failed
    BY <1>1, GatheredAre DEF Gather, BeginRead
  <2>2. Typed' /\ ReadersKeepOut'
    BY <2>1 DEF ReadersKeepOut
  <2>3. LockPerRead' /\ FailsAreBounded'
    BY <1>0, <1>1, <2>1 DEF LockPerRead, FailsAreBounded, Unanswered, Gather
  <2>4. AnswersAreVotes'
    BY <2>1 DEF AnswersAreVotes, TooManyFail
  <2> QED
    BY <2>2, <2>3, <2>4
<1>2. ASSUME NEW t \in Readers, AnswerFail(t) PROVE IInv'
  <2>1. /\ TooManyFail(t) /\ Unanswered(t)
        /\ \E passedOn : reply' = [reply EXCEPT ![t] =
             [status |-> "FAIL", data |-> <<>>, passedOn |-> passedOn]]
        /\ failed' = [failed EXCEPT ![t] = failed[t] + 1]
        /\ UNCHANGED <<allBytes, reading, writer>>
    BY <1>2 DEF AnswerFail, lockVars, Unanswered
  <2>2. Typed' /\ ReadersKeepOut'
    BY <2>1 DEF ReadersKeepOut
  <2>3. LockPerRead' /\ FailsAreBounded'
    <3>1. reply'[t] # NoReply
      BY <2>1 DEF NoReply
    <3> QED
      BY <1>0, <2>1, <3>1 DEF LockPerRead, FailsAreBounded, Unanswered
  <2>4. AnswersAreVotes'
    BY <2>1 DEF AnswersAreVotes, TooManyFail, Unanswered
  <2> QED
    BY <2>2, <2>3, <2>4
<1>3. ASSUME NEW t \in Readers, AnswerOk(t) PROVE IInv'
  <2>1. /\ ~TooManyFail(t) /\ Unanswered(t)
        /\ reply' = [reply EXCEPT ![t] =
             [status |-> "OK", data |-> result(allBytes[t]), passedOn |-> <<>>]]
        /\ reading' = [reading EXCEPT ![t] = reading[t] - 1] /\ reading[t] > 0
        /\ UNCHANGED <<allBytes, failed, writer>>
    BY <1>3 DEF AnswerOk, EndRead, Unanswered
  <2>2. Typed' /\ ReadersKeepOut'
    BY <1>0, <2>1 DEF ReadersKeepOut
  <2>3. LockPerRead' /\ FailsAreBounded'
    <3>1. reply'[t] # NoReply
      BY <2>1 DEF NoReply
    <3> QED
      BY <1>0, <2>1, <3>1 DEF LockPerRead, FailsAreBounded, Unanswered
  <2>4. AnswersAreVotes'
    BY <2>1 DEF AnswersAreVotes, TooManyFail, Unanswered
  <2> QED
    BY <2>2, <2>3, <2>4
<1>4. ASSUME NEW t \in Readers, Return(t) PROVE IInv'
  BY <1>0, <1>4
  DEF Return, lockVars, ReadersKeepOut, LockPerRead, FailsAreBounded, Unanswered,
      AnswersAreVotes, TooManyFail
<1>5. ASSUME NEW t \in Writers, Write(t) PROVE IInv'
  BY <1>0, <1>5
  DEF Write, BeginWrite, EndWrite, ReadersKeepOut, LockPerRead, FailsAreBounded, Unanswered,
      AnswersAreVotes, TooManyFail
<1>6. CASE UNCHANGED vars
  BY <1>6
  DEF vars, lockVars, ReadersKeepOut, LockPerRead, FailsAreBounded, Unanswered,
      AnswersAreVotes, TooManyFail
<1> QED
  BY <1>1, <1>2, <1>3, <1>4, <1>5, <1>6 DEF Next

\* So it always holds.
LEMMA SpecIInv == Spec => []IInv
  BY InitIInv, NextIInv, PTL DEF Spec

\* A read has no bytes to give, or it succeeded with the result of its vote.
LEMMA AnswerOf ==
  ASSUME IInv, NEW t \in Readers
  PROVE  \/ reply[t].data = <<>> /\ (reply[t] = NoReply \/ TooManyFail(t))
         \/ /\ ~TooManyFail(t) /\ reply[t].status = "OK"
            /\ reply[t].data = result(allBytes[t])
  BY DEF IInv, AnswersAreVotes, NoReply

\* Whatever the messages are, the variables of ReadVote keep their types.
THEOREM TypeCorrect == Spec => []TypeOK
<1>1. IInv => TypeOK
  <2> SUFFICES ASSUME IInv PROVE TypeOK
    OBVIOUS
  <2>1. failed \in [Readers -> 0..MaxReads]
    BY BoundIsNat DEF IInv, Typed, FailsAreBounded
  <2>2. ASSUME NEW t \in Readers PROVE Len(allBytes[t]) \in {0, NumReplies + 1}
    BY DEF IInv, Typed, Gathered
  <2>3. ASSUME NEW t \in Readers
        PROVE  /\ reply[t].status \in {"none", "OK", "FAIL"}
               /\ \A i \in DOMAIN reply[t].data : reply[t].data[i] \in Byte
    <3>1. CASE reply[t] = NoReply \/ TooManyFail(t)
      BY <3>1 DEF IInv, AnswersAreVotes, NoReply
    <3>2. CASE ~(reply[t] = NoReply \/ TooManyFail(t))
      <4>1. /\ reply[t].status = "OK" /\ reply[t].data = result(allBytes[t])
            /\ allBytes[t] \in Gathered
        BY <3>2 DEF IInv, Typed, AnswersAreVotes
      <4> QED
        BY <4>1, ResultIsPlurality
    <3> QED
      BY <3>1, <3>2
  <2> QED
    BY <2>1, <2>2, <2>3 DEF TypeOK, IInv, Typed
<1> QED
  BY <1>1, SpecIInv, PTL

\* Whatever the messages are, each byte of an answer was reported, by as many
\* messages as any other byte: the counting loops of read_w compute the vote.
THEOREM VotesAreRight == Spec => []AnswerIsThePlurality
<1>1. IInv => AnswerIsThePlurality
  <2> SUFFICES ASSUME IInv, NEW t \in Readers, NEW i \in DOMAIN reply[t].data
               PROVE  /\ Having(allBytes[t], i, reply[t].data[i]) # {}
                      /\ \A b \in Byte :
                           Cardinality(Having(allBytes[t], i, b))
                             <= Cardinality(Having(allBytes[t], i, reply[t].data[i]))
    BY DEF AnswerIsThePlurality, Having
  <2>1. reply[t].data # <<>>
    OBVIOUS
  <2>2. reply[t].data = result(allBytes[t]) /\ reply[t] # NoReply
    BY <2>1, AnswerOf DEF NoReply
  <2>3. allBytes[t] \in Gathered
    BY <2>2 DEF IInv, Typed, AnswersAreVotes
  <2> QED
    BY <2>2, <2>3, ResultIsPlurality
<1> QED
  BY <1>1, SpecIInv, PTL

\* However many peers there are: what more than half of the messages report is the
\* answer of read_w, if it has no NUL and no message is longer.
THEOREM MajoritiesAreAnswered == Spec => []AgreedReadIsAnswered
<1>1. IInv => AgreedReadIsAnswered
  <2> SUFFICES ASSUME IInv, NEW t \in Readers, reply[t] # NoReply,
                      NEW k \in DOMAIN allBytes[t], NEW s, s = allBytes[t][k].data,
                      NEW H, H = {j \in DOMAIN allBytes[t] :
                                    allBytes[t][j] = [status |-> "OK", data |-> s]},
                      2 * Cardinality(H) > Len(allBytes[t]),
                      0 \notin {s[i] : i \in DOMAIN s},
                      max_length(allBytes[t]) = Len(s)
               PROVE  reply[t].status = "OK" /\ reply[t].data = s
    BY DEF AgreedReadIsAnswered
  <2>1. allBytes[t] \in Gathered
    BY DEF IInv, Typed, AnswersAreVotes
  <2>2. s \in Seq(Byte)
    <3>1. allBytes[t][k] \in Message
      BY <2>1 DEF Gathered
    <3> QED
      BY <3>1 DEF Message
  <2>3. ~(failCounter(allBytes[t]) > okCounter(allBytes[t])) /\ result(allBytes[t]) = s
    BY <2>1, <2>2, MajorityWins
  <2> QED
    BY <2>3 DEF IInv, AnswersAreVotes, TooManyFail
<1> QED
  BY <1>1, SpecIInv, PTL

\* read_w's return without rwlock_end_read: however many threads and reads there are,
\* after a read that was answered FAIL nobody ever gets the lock to write.
THEOREM FailedReadsEndWriting == Spec => FailedReadEndsWriting
<1>1. IInv /\ [Next]_vars => [(\E t \in Readers : failed[t] > 0) => writer' = NoThread]_vars
  <2> SUFFICES ASSUME IInv, Next, NEW t \in Readers, failed[t] > 0 PROVE writer' = NoThread
    OBVIOUS
  <2>1. t \in Threads /\ reading[t] > 0
    BY VoteAssumption DEF IInv, Typed, LockPerRead
  <2>2. writer = NoThread
    BY <2>1 DEF IInv, ReadersKeepOut
  <2> QED
    BY <2>1, <2>2
    DEF Next, Gather, AnswerFail, AnswerOk, Return, Write, BeginRead, EndRead, BeginWrite,
        EndWrite, lockVars, IInv, Typed
<1> QED
  BY <1>1, SpecIInv, PTL DEF Spec, FailedReadEndsWriting
=============================================================================
