---------------------------- MODULE DynamicBuffer ----------------------------
(***************************************************************************)
(* The DynamicBuffer concept (doc/types/DynamicBuffer.qbk): an input       *)
(* sequence of octets followed by an output sequence.  The output sequence *)
(* that is left by anything but prepare and commit is unspecified, and so  *)
(* are the octets nobody has written.  Where the buffers of the library    *)
(* differ from the concept, a definition of its own says how.              *)
(***************************************************************************)
EXTENDS Naturals, Sequences

CONSTANTS
  Octets,     \* the octets of a buffer, Uninit among them
  max_size,   \* the permitted sum of the sizes of input and output
  Sizes       \* the arguments of the calls

VARIABLES input, output

TypeOK ==
  /\ input \in Seq(Octets)
  /\ output \in Seq(Octets)
  /\ Len(input) + Len(output) <= max_size

Least(m, n) == IF m <= n THEN m ELSE n

Init == input = << >> /\ output = << >>

\* prepare(n) throws length_error if and only if this holds.
Exceeds(n) == Len(input) + n > max_size

\* The output sequence has exactly n octets.
Prepare(n) ==
  /\ ~Exceeds(n)
  /\ input' = input
  /\ output' \in Seq(Octets)
  /\ Len(output') = n

\* The caller writes to the output sequence.
Write ==
  /\ input' = input
  /\ output' \in Seq(Octets)
  /\ Len(output') = Len(output)

\* The first octets of the output sequence are appended to the input sequence, and
\* the remainder of the output sequence is discarded.
Commit(n) ==
  /\ input' = input \o SubSeq(output, 1, Least(n, Len(output)))
  /\ output' = << >>

\* The first octets of the input sequence are removed.
Consume(n) ==
  LET k == Least(n, Len(input))
  IN /\ input' = SubSeq(input, k + 1, Len(input))
     /\ output' \in Seq(Octets)
     /\ Len(input') + Len(output') <= max_size

\* The storage is replaced or moved to another object, which the concept leaves to the
\* buffers.
Relocate ==
  /\ input' = input
  /\ output' \in Seq(Octets)
  /\ Len(input) + Len(output') <= max_size

\* All octets are removed.
Clear == input' = << >> /\ output' = << >>

Next ==
  \/ \E n \in Sizes : Prepare(n) \/ Commit(n) \/ Consume(n)
  \/ Write
  \/ Relocate
  \/ Clear

Spec == Init /\ [][Next]_<<input, output>>

-----------------------------------------------------------------------------
(* Where the buffers of the library differ *)

\* They keep the remainder of the output sequence that the concept discards: a second
\* commit() without a prepare() in between appends octets of it.
CommitKeepsRest(n) ==
  LET k == Least(n, Len(output))
  IN /\ input' = input \o SubSeq(output, 1, k)
     /\ output' = SubSeq(output, k + 1, Len(output))

\* The concept's commit when all of the output sequence is committed, else that.
CommitOrKeep(n) == CommitKeepsRest(n) /\ (n >= Len(output) => Commit(n))
=============================================================================
