----------------------------- MODULE FileStore -----------------------------
(***************************************************************************)
(* What the code of FileAccesser.cpp makes of one file.  The file is used in      *)
(* sessions, each with a position of its own.  A write is accepted at once and     *)
(* performed later, if it does not fail, in any order and even after its session    *)
(* has ended, but always at the position that its own session has by then.  All     *)
(* else has its effect in one step.                                              *)
(***************************************************************************)
EXTENDS Integers, Sequences

CONSTANT MaxPos   \* the largest position in a file

VARIABLES
  session,    \* the session that is going on, or 0
  positions,  \* the position of each session that there was
  pending,    \* the writes that were accepted and not performed
  content     \* the blocks of the file; 0 is a hole

storeVars == <<session, positions, pending, content>>

Closed == session = 0 /\ DOMAIN positions = {} /\ pending = {} /\ content = <<>>

\* A new session begins at the beginning of the file.
Open ==
  /\ session = 0 /\ session' \notin DOMAIN positions \union {0}
  /\ positions' = [s \in DOMAIN positions \union {session'} |->
                     IF s = session' THEN 0 ELSE positions[s]]
  /\ UNCHANGED <<pending, content>>

Close ==
  /\ session # 0 /\ session' = 0
  /\ UNCHANGED <<positions, pending, content>>

Accept(b) ==
  /\ session # 0
  /\ pending' = pending \union {[session |-> session, block |-> b]}
  /\ UNCHANGED <<session, positions, content>>

\* A read goes no farther than the end of the file.
Read ==
  /\ session # 0
  /\ \E n \in positions[session]..Len(content) :
       positions' = [positions EXCEPT ![session] = n]
  /\ UNCHANGED <<session, pending, content>>

Seek ==
  /\ session # 0
  /\ \E n \in 0..MaxPos : positions' = [positions EXCEPT ![session] = n]
  /\ UNCHANGED <<session, pending, content>>

\* The block takes the place at the position of the write's session, and nothing else
\* of what is in the file changes.
Perform(w) ==
  LET here == positions[w.session] + 1
  IN  /\ positions[w.session] <= MaxPos
      /\ DOMAIN content' = DOMAIN content \union 1..here
      /\ \A i \in DOMAIN content' :
           content'[i] = IF i = here THEN w.block
                         ELSE IF i \in DOMAIN content THEN content[i] ELSE 0
      /\ positions' = [positions EXCEPT ![w.session] = here]
      /\ pending' = pending \ {w}
      /\ UNCHANGED session

\* The write fails, and leaves everything else as it is.
Drop(w) ==
  /\ pending' = pending \ {w}
  /\ UNCHANGED <<session, positions, content>>

StoreNext ==
  \/ Open \/ Close \/ Read \/ Seek
  \/ \E w \in pending' : Accept(w.block)
  \/ \E w \in pending : Perform(w) \/ Drop(w)

=============================================================================
