----------------------------- MODULE FlatBuffer -----------------------------
(***************************************************************************)
(* basic_flat_buffer: one allocated block                                  *)
(*                                                                         *)
(*     p_ ..|.. in_ ..|.. out_ ..|.. last_ ..|.. end_                      *)
(*                                                                         *)
(* Pointers are offsets from p_; p_ is the null pointer when end_ is 0.    *)
(* The block is a function that is only meaningful below end_.             *)
(***************************************************************************)
EXTENDS Naturals, Sequences

CONSTANTS
  Octets,     \* what the caller writes
  Uninit,     \* an octet nobody has written
  max_,       \* the limit given to the constructor
  min_size,   \* the smallest allocation, if the limit allows it
  Sizes       \* the arguments of the calls

\* What is assumed of the constants.
FlatConstants ==
  /\ Uninit \notin Octets
  /\ max_ \in Nat \ {0}
  /\ min_size \in Nat \ {0}
  /\ Sizes \subseteq Nat

VARIABLES
  block,                     \* the octets at p_
  in_, out_, last_, end_

vars == <<block, in_, out_, last_, end_>>

Index == 0 .. max_ - 1
Blank == [i \in Index |-> Uninit]

size == out_ - in_
capacity == end_

\* The octets from offset a up to offset b.
Area(a, b) == [i \in 1 .. b - a |-> block[a + i - 1]]
data == Area(in_, out_)
prepared == Area(out_, last_)

Least(m, n) == IF m <= n THEN m ELSE n
Greatest(m, n) == IF m >= n THEN m ELSE n

\* The constructors that take a limit.
Init ==
  /\ block = Blank
  /\ in_ = 0 /\ out_ = 0 /\ last_ = 0 /\ end_ = 0

\* 1 << the number of bits of x.
next_pow2[x \in 0 .. max_] == IF x = 0 THEN 1 ELSE 2 * next_pow2[x \div 2]

\* The size of a new block for n octets.
NewSize(n) == Least(max_, Greatest(next_pow2[n], min_size))

\* The input sequence, copied to the start of block b.
Moved(b) == [i \in Index |-> IF i < size THEN block[in_ + i] ELSE b[i]]

\* Copy the input sequence to a new block of m octets.
Reallocate(m) ==
  /\ block' = Moved(Blank)
  /\ in_' = 0
  /\ out_' = size
  /\ end_' = m

\* prepare() throws length_error before it changes anything.
Throws(n) == n > capacity - size /\ n > max_ - size

prepare(n) ==
  \/ /\ n <= end_ - out_                           \* room after out_
     /\ last_' = out_ + n
     /\ UNCHANGED <<block, in_, out_, end_>>
  \/ /\ n > end_ - out_ /\ n <= capacity - size    \* room after a memmove
     /\ block' = Moved(block)
     /\ in_' = 0
     /\ out_' = size
     /\ last_' = size + n
     /\ UNCHANGED <<end_>>
  \/ /\ n > capacity - size /\ ~Throws(n)
     /\ Reallocate(NewSize(size + n))
     /\ last_' = size + n

\* The caller writes to the buffers prepare returned.
Write ==
  /\ \E f \in [Index -> Octets] :
       block' = [i \in Index |-> IF out_ <= i /\ i < last_ THEN f[i] ELSE block[i]]
  /\ UNCHANGED <<in_, out_, last_, end_>>

commit(n) ==
  /\ out_' = out_ + Least(n, last_ - out_)
  /\ UNCHANGED <<block, in_, last_, end_>>

\* Bug: everything is removed one octet early.
consume_Early(n) ==
  /\ \/ n + 1 >= size /\ in_' = 0 /\ out_' = 0
     \/ n + 1 < size /\ in_' = in_ + n /\ out_' = out_
  /\ UNCHANGED <<block, last_, end_>>

consume(n) ==
  /\ \/ n >= size /\ in_' = 0 /\ out_' = 0
     \/ n < size /\ in_' = in_ + n /\ out_' = out_
  /\ UNCHANGED <<block, last_, end_>>

\* Nothing happens when the capacity is sufficient or the limit exceeded.
reserve(n) ==
  /\ n > capacity /\ n <= max_
  /\ Reallocate(NewSize(n))
  /\ last_' = size

shrink_to_fit ==
  /\ size # capacity
  /\ block' = Moved(Blank)
  /\ in_' = 0 /\ out_' = size /\ last_' = size /\ end_' = size

\* The object is replaced by one that was move constructed from it.
move_from ==
  /\ last_' = out_
  /\ UNCHANGED <<block, in_, out_, end_>>

\* The object is replaced by a copy of it.
copy_from ==
  /\ block' = Moved(Blank)
  /\ in_' = 0 /\ out_' = size /\ last_' = size /\ end_' = size

\* An object that was moved from has no block and keeps its limit.
moved_from ==
  /\ block' = Blank
  /\ in_' = 0 /\ out_' = 0 /\ last_' = 0 /\ end_' = 0

Next ==
  \/ \E n \in Sizes : prepare(n) \/ commit(n) \/ consume(n) \/ reserve(n)
  \/ Write
  \/ shrink_to_fit
  \/ move_from
  \/ copy_from
  \/ moved_from

Spec == Init /\ [][Next]_vars

\* Bug: a full buffer is not grown.
read_size_helper_Stuck(m) ==
  IF capacity > size THEN Least(capacity - size, m)
  ELSE Least(Least(2 * capacity, max_) - size, m)

\* How much read_until and the composed reads ask prepare() for.
read_size_helper(m) ==
  LET grown == Least(2 * capacity, max_) - size
  IN IF capacity > size THEN Least(capacity - size, m)
     ELSE Least(IF grown = 0 THEN 1 ELSE grown, m)

-----------------------------------------------------------------------------
(* Properties *)

\* Type invariant of the members of the buffer.
TypeOK ==
  /\ block \in [Index -> Octets \cup {Uninit}]
  /\ in_ \in 0 .. max_ /\ out_ \in 0 .. max_ /\ last_ \in 0 .. max_ /\ end_ \in 0 .. max_

\* The pointers stay in order and inside the block: the output area handed to
\* the caller is memory of the block, even after a consume that resets in_ and
\* out_ below last_.
PointersInOrder == in_ <= out_ /\ out_ <= last_ /\ last_ <= end_

DB == INSTANCE DynamicBuffer
        WITH input <- data, output <- prepared, max_size <- max_,
             Octets <- Octets \cup {Uninit}

\* Every call does to the input and output sequences what DynamicBuffer says, but for what
\* a commit leaves of the output sequence; prepare() throws if and only if it must.
CallConforms ==
  /\ \A n \in Sizes : /\ Throws(n) <=> DB!Exceeds(n)
                      /\ prepare(n) => DB!Prepare(n)
                      /\ commit(n) => DB!CommitOrKeep(n)
                      /\ consume(n) => DB!Consume(n)
                      /\ reserve(n) => DB!Relocate /\ capacity' >= n
  /\ Write => DB!Write
  /\ shrink_to_fit \/ move_from \/ copy_from => DB!Relocate
  /\ moved_from => DB!Clear

\* Unless the buffer is full, a composed read asks for some octets, and for no
\* more than prepare() can return.
ReadSizeFits ==
  \A m \in Sizes \ {0} :
    size < max_ => read_size_helper(m) \in 1 .. Least(m, max_ - size)
=============================================================================
