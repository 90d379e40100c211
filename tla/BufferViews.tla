----------------------------- MODULE BufferViews -----------------------------
(***************************************************************************)
(* The views of sequences of buffers: consuming_buffers, buffer_prefix and *)
(* buffer_cat.  A buffer is a sequence of addresses, and an iterator of a  *)
(* buffer sequence its index in it.                                        *)
(***************************************************************************)
EXTENDS Naturals, Sequences, SequencesExt

-----------------------------------------------------------------------------
(* consuming_buffers *)

consuming_buffers(bs) == [bs |-> bs, begin |-> 1, skip |-> 0]

\* What the iterators from begin() to end() give.
consuming_view(c) ==
  [i \in 1 .. Len(c.bs) + 1 - c.begin |->
    LET b == c.bs[c.begin + i - 1] IN IF i = 1 THEN SubSeq(b, c.skip + 1, Len(b)) ELSE b]

\* Buffer by buffer, until no octet is left to remove or no buffer.
consume(c, n) ==
  LET skip(k) == IF k = c.begin THEN c.skip ELSE 0
      before[k \in c.begin .. Len(c.bs) + 1] ==
        IF k = c.begin THEN 0 ELSE before[k - 1] + Len(c.bs[k - 1]) - skip(k - 1)
      at[k \in c.begin .. Len(c.bs) + 1] ==
        IF k > Len(c.bs) \/ n = before[k] THEN [c EXCEPT !.begin = k, !.skip = skip(k)]
        ELSE IF n - before[k] < Len(c.bs[k]) - skip(k)
        THEN [c EXCEPT !.begin = k, !.skip = skip(k) + n - before[k]]
        ELSE at[k + 1]
  IN at[c.begin]

-----------------------------------------------------------------------------
(* buffer_prefix *)

\* Bug: a buffer that ends the prefix is taken whole.
setup_Whole(bs, n) ==
  LET at[k \in 1 .. Len(bs) + 1] ==
        LET before == Len(FlattenSeq(SubSeq(bs, 1, k - 1)))
        IN IF k > Len(bs) THEN [back |-> k, end |-> k, size |-> 0]
           ELSE IF n - before <= Len(bs[k]) THEN [back |-> k, end |-> k + 1, size |-> Len(bs[k])]
           ELSE at[k + 1]
  IN at[1]

\* Where the prefix of n octets ends: its last buffer, and how much of that.
setup(bs, n) ==
  LET at[k \in 1 .. Len(bs) + 1] ==
        LET before == Len(FlattenSeq(SubSeq(bs, 1, k - 1)))
        IN IF k > Len(bs) THEN [back |-> k, end |-> k, size |-> 0]
           ELSE IF n - before <= Len(bs[k]) THEN [back |-> k, end |-> k + 1, size |-> n - before]
           ELSE at[k + 1]
  IN at[1]

buffer_prefix(n, bs) ==
  LET p == setup(bs, n)
  IN [i \in 1 .. p.end - 1 |-> IF i = p.back THEN SubSeq(bs[i], 1, p.size) ELSE bs[i]]

-----------------------------------------------------------------------------
(* buffer_cat: an iterator is the sequence it is in (n) and the place there (it).        *)

\* The first sequence from I on that is not empty
construct(bn, I) ==
  LET some == {J \in I .. Len(bn) : bn[J] # <<>>}
  IN IF some = {} THEN [n |-> Len(bn) + 1, it |-> 0]
     ELSE LET J == CHOOSE j \in some : \A k \in some : j <= k IN [n |-> J, it |-> 1]

cat_begin(bn) == construct(bn, 1)
cat_end(bn) == [n |-> Len(bn) + 1, it |-> 0]
dereference(bn, i) == bn[i.n][i.it]

increment(bn, i) == IF i.it < Len(bn[i.n]) THEN [i EXCEPT !.it = @ + 1] ELSE construct(bn, i.n + 1)

\* From the end of a sequence backwards, over those that are empty
decrement(bn, i) ==
  LET back[k \in 0 .. Len(bn)] ==   \* the last buffer of sequences 1 .. k
        IF k = 0 \/ bn[k] # <<>> THEN [n |-> k, it |-> IF k = 0 THEN 0 ELSE Len(bn[k])]
        ELSE back[k - 1]
  IN IF i.n <= Len(bn) /\ i.it > 1 THEN [i EXCEPT !.it = @ - 1] ELSE back[i.n - 1]

Count(bn) == Len(FlattenSeq(bn))

\* The iterators from begin() on, and from end() back
Forward(bn) ==
  LET w[k \in 0 .. Count(bn)] == IF k = 0 THEN cat_begin(bn) ELSE increment(bn, w[k - 1]) IN w
Backward(bn) ==
  LET w[k \in 0 .. Count(bn)] == IF k = 0 THEN cat_end(bn) ELSE decrement(bn, w[k - 1]) IN w

\* The buffers an algorithm finds that goes through buffer_cat(bn...)
buffer_cat(bn) == [k \in 1 .. Count(bn) |-> dereference(bn, Forward(bn)[k - 1])]
=============================================================================
