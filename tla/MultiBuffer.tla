----------------------------- MODULE MultiBuffer -----------------------------
(***************************************************************************)
(* basic_multi_buffer: a dynamic buffer in a list of blocks.  The input    *)
(* sequence starts at in_pos_ of the first block and ends at out_pos_ of   *)
(* the block out_ points to, where the output sequence starts; that ends   *)
(* at out_end_ of the last block.  out_ is an index, and Len(list_) + 1    *)
(* stands for list_.end().                                                 *)
(***************************************************************************)
EXTENDS Naturals, Sequences, SequencesExt

CONSTANTS
  Octets,       \* the octets; new storage holds any of them
  AllocSizes,   \* the values given to alloc_size()
  Sizes,        \* the arguments of the calls
  MaxSize,      \* bound on the sum of the sizes of input and output
  Low           \* the smallest block read_size_helper asks for

VARIABLES list_, out_, alloc_size_, in_size_, in_pos_, out_pos_, out_end_

positions == <<in_size_, in_pos_, out_pos_, out_end_>>
vars == <<list_, out_, alloc_size_, positions>>

Least(m, n) == IF m <= n THEN m ELSE n
Greatest(m, n) == IF m >= n THEN m ELSE n

\* The number of octets in a sequence of blocks.
Storage(blocks) == Len(FlattenSeq(blocks))
AtEnd == out_ = Len(list_) + 1

Init ==
  /\ list_ = << >>
  /\ out_ = 1
  /\ alloc_size_ \in AllocSizes
  /\ in_size_ = 0 /\ in_pos_ = 0 /\ out_pos_ = 0 /\ out_end_ = 0

capacity ==
  in_size_ + (IF AtEnd THEN 0
              ELSE Storage(SubSeq(list_, out_, Len(list_))) - out_pos_)

\* const_buffers_type: the input sequence, block by block.
data ==
  FlattenSeq([i \in 1 .. Least(out_, Len(list_)) |->
    SubSeq(list_[i], 1 + (IF i = 1 THEN in_pos_ ELSE 0),
           IF i = out_ THEN out_pos_ ELSE Len(list_[i]))])

\* mutable_buffers_type: the output sequence, block by block.
prepared ==
  FlattenSeq([j \in 1 .. Len(list_) + 1 - out_ |->
    LET i == out_ + j - 1
    IN SubSeq(list_[i], 1 + (IF i = out_ THEN out_pos_ ELSE 0),
              IF i = Len(list_) THEN out_end_ ELSE Len(list_[i]))])

\* The blocks after out_ are reused as far as they are needed, one block is
\* allocated if they are not enough, and what is left over is deallocated.
prepare(n) ==
  LET avail == IF AtEnd THEN 0 ELSE Len(list_[out_]) - out_pos_
      kept == SubSeq(list_, 1, Least(out_, Len(list_)))
      reuse == SubSeq(list_, out_ + 1, Len(list_))
      rest == IF n > avail THEN n - avail ELSE 0
      k == CHOOSE i \in 0 .. Len(reuse) :
             /\ i = Len(reuse) \/ Storage(SubSeq(reuse, 1, i)) >= rest
             /\ \A j \in 0 .. i - 1 : Storage(SubSeq(reuse, 1, j)) < rest
      found == Storage(SubSeq(reuse, 1, k))
      more == IF rest > found THEN rest - found ELSE 0
  IN /\ in_size_ + n <= MaxSize
     /\ \/ /\ more = 0
           /\ list_' = kept \o SubSeq(reuse, 1, k)
        \/ /\ more > 0
           /\ \E e \in [1 .. Greatest(alloc_size_, more) -> Octets] :
                list_' = Append(kept \o reuse, e)
     /\ out_end_' = IF more > 0 THEN more
                    ELSE IF rest > 0 THEN rest - Storage(SubSeq(reuse, 1, k - 1))
                    ELSE IF AtEnd THEN out_end_
                    ELSE out_pos_ + n
     /\ UNCHANGED <<out_, alloc_size_, in_size_, in_pos_, out_pos_>>

\* The caller writes an octet of the output sequence.
Write ==
  /\ \E i \in out_ .. Len(list_), x \in Octets :
       \E j \in (IF i = out_ THEN out_pos_ + 1 ELSE 1) ..
                (IF i = Len(list_) THEN out_end_ ELSE Len(list_[i])) :
         list_' = [list_ EXCEPT ![i][j] = x]
  /\ UNCHANGED <<out_, alloc_size_, positions>>

\* Where commit() stops: in the first block that is not filled, or in the last one,
\* behind which out_ goes when it is full.
CommitEnd(n) ==
  LET last == Len(list_)
      pos(i) == IF i = out_ THEN out_pos_ ELSE 0
      before(i) == IF i = out_ THEN 0 ELSE Storage(SubSeq(list_, out_, i - 1)) - out_pos_
      fits(i) == n < before(i) + Len(list_[i]) - pos(i)
      k == CHOOSE i \in out_ .. last :
             (i = last \/ fits(i)) /\ \A j \in out_ .. i - 1 : ~fits(j)
      m == IF k = last THEN Least(n - before(k), out_end_ - pos(k)) ELSE n - before(k)
      full == k = last /\ pos(k) + m = Len(list_[k])
  IN [out |-> IF full THEN k + 1 ELSE k,
      pos |-> IF full THEN 0 ELSE pos(k) + m,
      end |-> IF full THEN 0 ELSE out_end_,
      size |-> in_size_ + before(k) + m]

\* Bug: out_ stays at a block that is full.
commit_Stays(n) ==
  /\ ~AtEnd
  /\ LET c == CommitEnd(n)
         full == c.out > Len(list_)
     IN /\ out_' = IF full THEN Len(list_) ELSE c.out
        /\ out_pos_' = IF full THEN Len(list_[Len(list_)]) ELSE c.pos
        /\ out_end_' = IF full THEN Len(list_[Len(list_)]) ELSE c.end
        /\ in_size_' = c.size
  /\ UNCHANGED <<list_, alloc_size_, in_pos_>>

\* Without an output sequence nothing happens.
commit(n) ==
  /\ ~AtEnd
  /\ LET c == CommitEnd(n)
     IN /\ out_' = c.out
        /\ out_pos_' = c.pos
        /\ out_end_' = c.end
        /\ in_size_' = c.size
  /\ UNCHANGED <<list_, alloc_size_, in_pos_>>

\* Where consume() stops: blocks in front of the first that is not emptied, or of out_,
\* are deallocated; when nothing is left in input and output the block is used again.
\* When no block is left, back() of the empty list is the list's own node, so is end().
ConsumeEnd(n) ==
  LET pos(i) == IF i = 1 THEN in_pos_ ELSE 0
      before(i) == IF i = 1 THEN 0 ELSE Storage(SubSeq(list_, 1, i - 1)) - in_pos_
      stops(i) == n < before(i) + Len(list_[i]) - pos(i)
      k == CHOOSE i \in 1 .. out_ :
             (i = out_ \/ stops(i)) /\ \A j \in 1 .. i - 1 : ~stops(j)
      drained == k = out_ /\ n - before(k) >= out_pos_ - pos(k)
      reused == drained /\ out_ >= Len(list_) /\ out_pos_ = out_end_
  IN [list |-> SubSeq(list_, k, Len(list_)),
      out |-> out_ - k + 1,
      pos |-> IF reused THEN 0 ELSE out_pos_,
      end |-> IF reused THEN 0 ELSE out_end_,
      in |-> IF reused THEN 0 ELSE IF drained THEN out_pos_ ELSE pos(k) + n - before(k),
      size |-> IF drained THEN 0 ELSE in_size_ - n]

\* Bug: the room of the first block is reused although octets are prepared.
consume_Reuses(n) ==
  /\ list_ # << >>
  /\ LET c == ConsumeEnd(n)
         empty == c.size = 0
     IN /\ list_' = c.list
        /\ out_' = c.out
        /\ out_pos_' = IF empty THEN 0 ELSE c.pos
        /\ out_end_' = IF empty THEN 0 ELSE c.end
        /\ in_pos_' = IF empty THEN 0 ELSE c.in
        /\ in_size_' = c.size
  /\ UNCHANGED alloc_size_

consume(n) ==
  /\ list_ # << >>
  /\ LET c == ConsumeEnd(n)
     IN /\ list_' = c.list
        /\ out_' = c.out
        /\ out_pos_' = c.pos
        /\ out_end_' = c.end
        /\ in_pos_' = c.in
        /\ in_size_' = c.size
  /\ UNCHANGED alloc_size_

\* Bug: out_ is left alone.
clear_KeepsOut ==
  /\ list_' = << >>
  /\ in_size_' = 0 /\ in_pos_' = 0 /\ out_pos_' = 0 /\ out_end_' = 0
  /\ UNCHANGED <<out_, alloc_size_>>

clear ==
  /\ list_' = << >>
  /\ out_' = 1
  /\ in_size_' = 0 /\ in_pos_' = 0 /\ out_pos_' = 0 /\ out_end_' = 0
  /\ UNCHANGED alloc_size_

\* A copy, made with alloc_size_ equal to a: commit(buffer_copy(prepare(size()),
\* data())) on an empty buffer.
copy(a) ==
  LET m == Greatest(a, in_size_)
      full == m = in_size_
  IN /\ \/ /\ in_size_ = 0
           /\ list_' = << >>
        \/ /\ in_size_ > 0
           /\ \E e \in [1 .. m - in_size_ -> Octets] : list_' = <<data \o e>>
     /\ out_' = IF full /\ in_size_ > 0 THEN 2 ELSE 1
     /\ out_pos_' = IF full THEN 0 ELSE in_size_
     /\ out_end_' = IF full THEN 0 ELSE in_size_
     /\ in_pos_' = 0
     /\ alloc_size_' = a
     /\ UNCHANGED in_size_

\* The object is replaced by the one it is moved to: the list goes over with the
\* positions in it, or the octets do if the allocators are not equal.
move_from == UNCHANGED vars \/ copy(alloc_size_)

\* What is left of the object moved from.
moved_from ==
  /\ list_' = << >>
  /\ out_' = 1
  /\ in_size_' = 0 /\ in_pos_' = 0 /\ out_pos_' = 0 /\ out_end_' = 0
  /\ UNCHANGED alloc_size_

\* alloc_size(n)
set_alloc_size(a) ==
  /\ alloc_size_' = a
  /\ UNCHANGED <<list_, out_, positions>>

Next ==
  \/ \E n \in Sizes : prepare(n) \/ commit(n) \/ consume(n)
  \/ Write
  \/ clear \/ move_from \/ moved_from
  \/ \E a \in AllocSizes : copy(a) \/ set_alloc_size(a)

Spec == Init /\ [][Next]_vars

\* Bug: the size of a block is returned without regard to the room left.
read_size_helper_Blocks(m) == Least(m, Greatest(alloc_size_, Low))

\* How much a composed read asks prepare() for.
read_size_helper(m) ==
  IF capacity > in_size_ THEN Least(capacity - in_size_, m)
  ELSE Least(m, Greatest(alloc_size_, Low))

-----------------------------------------------------------------------------
(* Properties *)

\* Type invariant of the members of the buffer.
TypeOK ==
  /\ list_ \in Seq(Seq(Octets))
  /\ out_ \in 1 .. Len(list_) + 1
  /\ alloc_size_ \in AllocSizes
  /\ positions \in Seq(Nat)

\* What debug_check() asserts after every step of every operation.
debug_check ==
  /\ Len(data) = in_size_
  /\ list_ = << >> => in_pos_ = 0 /\ in_size_ = 0
  /\ list_ # << >> => in_pos_ < Len(list_[1])
  /\ AtEnd => out_pos_ = 0 /\ out_end_ = 0
  /\ ~AtEnd =>
       /\ out_end_ <= Len(list_[Len(list_)])
       /\ out_pos_ < Len(list_[out_])
       /\ out_ = 1 => out_pos_ - in_pos_ = in_size_
       /\ out_ = Len(list_) => out_pos_ <= out_end_

DB == INSTANCE DynamicBuffer
        WITH input <- data, output <- prepared, max_size <- MaxSize

\* Every call does to the input and output sequences what DynamicBuffer says, but for what
\* a commit leaves of the output sequence, however they are spread over the blocks;
\* consume() keeps what was prepared.  max_size() is the largest size_t: MaxSize bounds
\* the model, and prepare() does not throw.
CallConforms ==
  /\ \A n \in Sizes : /\ prepare(n) => DB!Prepare(n)
                      /\ commit(n) => DB!CommitOrKeep(n)
                      /\ consume(n) => DB!Consume(n) /\ prepared' = prepared
  /\ Write => DB!Write
  /\ clear \/ moved_from => DB!Clear
  /\ move_from => data' = data
  /\ \A a \in AllocSizes : copy(a) => DB!Relocate /\ prepared' = << >>

\* capacity() is what can be held without an allocation.
CapacityIsThere ==
  \A n \in Sizes : prepare(n) /\ in_size_ + n <= capacity =>
    Len(list_') <= Len(list_) /\ capacity' <= capacity

\* A composed read asks for some octets, and for no more than the blocks hold
\* as long as they have room.
ReadSizeFits ==
  \A m \in Sizes \ {0} :
    /\ read_size_helper(m) \in 1 .. m
    /\ capacity > in_size_ => in_size_ + read_size_helper(m) <= capacity
=============================================================================
