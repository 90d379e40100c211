--------------------------- MODULE BuffersAdapter ---------------------------
(***************************************************************************)
(* buffers_adapter: a dynamic buffer over a sequence of buffers that the   *)
(* caller owns.  The input sequence runs from in_pos_ of begin_ to         *)
(* out_pos_ of out_, the output sequence from there to out_end_ of the     *)
(* buffer in front of end_.  Room that is consumed is not used again.      *)
(* Iterators are indices, and Len(bs_) + 1 stands for bs_.end().           *)
(***************************************************************************)
EXTENDS Naturals, Sequences, SequencesExt, FiniteSetsExt

CONSTANTS
  Octets,     \* what the caller writes
  Uninit,     \* an octet nobody has written
  Shapes,     \* the sizes of the buffers wrapped
  Sizes       \* the arguments of the calls

VARIABLES
  bs_, begin_, out_, end_, max_size_, in_pos_, in_size_, out_pos_, out_end_,
  threw       \* the last call was a prepare that threw length_error

\* Iterators are kept as distances, as a copy and a move of an adapter take them over.
positions == <<begin_, out_, end_>>
vars == <<bs_, positions, max_size_, in_pos_, in_size_, out_pos_, out_end_, threw>>

BsEnd == Len(bs_) + 1
buffer_size(i) == Len(bs_[i])
Least(m, n) == IF m <= n THEN m ELSE n

Init ==
  /\ \E shape \in Shapes :
       /\ bs_ = [i \in DOMAIN shape |-> [j \in 1 .. shape[i] |-> Uninit]]
       /\ max_size_ = FoldLeft(LAMBDA a, b : a + b, 0, shape)
  /\ begin_ = 1 /\ out_ = 1 /\ end_ = 1
  /\ in_pos_ = 0 /\ in_size_ = 0 /\ out_pos_ = 0 /\ out_end_ = 0 /\ threw = FALSE

\* Buffers i up to and without j, the first from octet skip on, the last up to octet stop
Span(i, j, skip, stop) ==
  FlattenSeq([k \in 1 .. j - i |->
    SubSeq(bs_[i + k - 1], 1 + (IF k = 1 THEN skip ELSE 0), IF k = j - i THEN stop ELSE buffer_size(i + k - 1))])

\* const_buffers_type
data ==
  LET last == IF out_ = end_ THEN end_ ELSE out_ + 1
  IN Span(begin_, last, in_pos_,
          IF out_ = BsEnd \/ last - 1 # out_ THEN buffer_size(last - 1) ELSE out_pos_)

\* mutable_buffers_type
prepared == Span(out_, end_, out_pos_, out_end_)

\* The buffers from i on for n more octets: the new end_ and out_end_, and the octets without room.
Find(i, n) ==
  LET at[k \in i .. BsEnd] ==
        LET before == Len(Span(i, k, 0, buffer_size(k - 1)))
        IN IF k = BsEnd THEN [end |-> k, out_end |-> IF k = i THEN out_end_ ELSE buffer_size(k - 1), left |-> n - before]
           ELSE IF n - before < buffer_size(k) THEN [end |-> k + 1, out_end |-> n - before, left |-> 0]
           ELSE at[k + 1]
  IN at[i]

prepare(n) ==
  LET size == buffer_size(out_) - out_pos_
      found == IF out_ = BsEnd THEN [end |-> out_, out_end |-> out_end_, left |-> n]
               ELSE IF n > size THEN Find(out_ + 1, n - size)
               ELSE [end |-> out_ + 1, out_end |-> out_pos_ + n, left |-> 0]
  IN /\ end_' = found.end /\ out_end_' = found.out_end /\ threw' = (found.left > 0)
     /\ UNCHANGED <<bs_, begin_, out_, max_size_, in_pos_, in_size_, out_pos_>>

\* The caller writes to the output sequence.
Write ==
  /\ ~threw /\ prepared # <<>>
  /\ \E x \in Octets :
       bs_' = [i \in DOMAIN bs_ |-> [j \in DOMAIN bs_[i] |->
                 IF /\ i \in out_ .. end_ - 1 /\ (i = out_ => j > out_pos_)
                    /\ (i = end_ - 1 => j <= out_end_) THEN x ELSE bs_[i][j]]]
  /\ UNCHANGED <<positions, max_size_, in_pos_, in_size_, out_pos_, out_end_, threw>>

\* The buffers in front of the last are filled, then what is left goes to the last.
commit(n) ==
  LET last == end_ - 1
      from[k \in out_ .. last] ==   \* octets committed when out_ has come to k
        IF k = out_ THEN 0 ELSE from[k - 1] + buffer_size(k - 1) - (IF k - 1 = out_ THEN out_pos_ ELSE 0)
      pos(k) == IF k = out_ THEN out_pos_ ELSE 0
      k == CHOOSE i \in out_ .. last :
             /\ i = last \/ n - from[i] < buffer_size(i) - pos(i)
             /\ \A j \in out_ .. i - 1 : n - from[j] >= buffer_size(j) - pos(j)
      m == IF k = last THEN Least(n - from[k], out_end_ - pos(k)) ELSE n - from[k]
      full == k = last /\ pos(k) + m = buffer_size(k)
  IN /\ out_ # end_
     /\ out_' = IF full THEN k + 1 ELSE k
     /\ out_pos_' = IF full THEN 0 ELSE pos(k) + m
     /\ out_end_' = IF full THEN 0 ELSE out_end_
     /\ in_size_' = in_size_ + from[k] + m /\ max_size_' = max_size_ - from[k] - m
     /\ threw' = FALSE
     /\ UNCHANGED <<bs_, begin_, end_, in_pos_>>

consume(n) ==
  LET gone[k \in begin_ .. out_] ==   \* octets consumed when begin_ has come to k
        IF k = begin_ THEN 0 ELSE gone[k - 1] + buffer_size(k - 1) - (IF k - 1 = begin_ THEN in_pos_ ELSE 0)
      pos(k) == IF k = begin_ THEN in_pos_ ELSE 0
      k == CHOOSE i \in begin_ .. out_ :
             /\ i = out_ \/ n - gone[i] < buffer_size(i) - pos(i)
             /\ \A j \in begin_ .. i - 1 : n - gone[j] >= buffer_size(j) - pos(j)
      m == IF k = out_ THEN Least(n - gone[k], out_pos_ - pos(k)) ELSE n - gone[k]
  IN /\ begin_' = k /\ in_pos_' = pos(k) + m
     /\ in_size_' = in_size_ - gone[k] - m
     /\ threw' = FALSE
     /\ UNCHANGED <<bs_, out_, end_, max_size_, out_pos_, out_end_>>

Next ==
  \/ \E n \in Sizes : prepare(n) \/ commit(n) \/ consume(n)
  \/ Write

-----------------------------------------------------------------------------
(* Properties *)

\* Type invariant of the members of the buffer.
TypeOK ==
  /\ begin_ \in 1 .. out_ /\ out_ \in 1 .. end_ /\ end_ \in 1 .. BsEnd
  /\ max_size_ \in Nat /\ in_size_ \in Nat /\ in_pos_ \in Nat /\ out_pos_ \in Nat /\ out_end_ \in Nat

\* Room of the longest sequence
Total == Max({FoldLeft(LAMBDA a, b : a + b, 0, shape) : shape \in Shapes})

DB == INSTANCE DynamicBuffer
        WITH input <- data, output <- prepared, max_size <- Total,
             Octets <- Octets \cup {Uninit}

\* The octets consumed, and the room of the sequence wrapped.
Consumed == in_pos_ + FoldLeft(LAMBDA a, b : a + Len(b), 0, SubSeq(bs_, 1, begin_ - 1))
Room == FoldLeft(LAMBDA a, b : a + Len(b), 0, bs_)

\* max_size() is "the largest size output sequence possible" and not, as DynamicBuffer has
\* it, the largest sum of the sizes of input and output.  prepare() throws if and only if
\* size() + n exceeds the room less the octets consumed, which is not used again.
ThrowsEarly(n) == Consumed + Len(data) + n > Room

\* Every call does to the input and output sequences what DynamicBuffer says, however they
\* lie in the buffers, but for ThrowsEarly and what a commit leaves of the output sequence;
\* a prepare that throws keeps the input sequence; size() is the size of the input sequence
\* and max_size() what can be prepared; consume() keeps what was prepared.
CallConforms ==
  /\ in_size_ = Len(data)
  /\ max_size_ = Room - Consumed - Len(data)
  /\ \A n \in Sizes :
       /\ prepare(n) => /\ threw' <=> ThrowsEarly(n)
                        /\ IF threw' THEN data' = data ELSE DB!Prepare(n)
       /\ commit(n) => DB!CommitOrKeep(n)
       /\ consume(n) => DB!Consume(n) /\ prepared' = prepared
  /\ Write => DB!Write
=============================================================================
