---------------------------- MODULE BuffersProofs ----------------------------
(***************************************************************************)
(* Theorems about the buffers that keep their octets in one block, for     *)
(* every limit, smallest block and set of octets.                          *)
(***************************************************************************)
EXTENDS Buffers, NatInduction, SequenceTheorems

\* The equation of next_pow2 on 0 .. m.
PowerUpTo(m, f) ==
  f \in [0 .. m -> Nat] /\ \A x \in 0 .. m : f[x] = IF x = 0 THEN 1 ELSE 2 * f[x \div 2]

\* next_pow2's equation has a solution.
LEMMA PowerExists == \A m \in Nat : \E f : PowerUpTo(m, f)
  <1> DEFINE T == {m \in Nat : \E f : PowerUpTo(m, f)}
  <1>1. 0 \in T
    <2>1. PowerUpTo(0, [x \in 0 .. 0 |-> 1])
      BY DEF PowerUpTo
    <2> QED
      BY <2>1
  <1>2. ASSUME NEW m \in T PROVE m + 1 \in T
    <2>1. PICK f : PowerUpTo(m, f)
      OBVIOUS
    <2> DEFINE g == [x \in 0 .. m + 1 |-> IF x = m + 1 THEN 2 * f[(m + 1) \div 2] ELSE f[x]]
    <2>2. m \in Nat /\ (m + 1) \div 2 \in 0 .. m
      OBVIOUS
    <2>3. \A x \in 1 .. m + 1 : x \div 2 \in 0 .. m /\ x \div 2 # m + 1
      BY <2>2
    <2>4. g \in [0 .. m + 1 -> Nat]
      BY <2>1, <2>2 DEF PowerUpTo
    <2>5. \A x \in 0 .. m + 1 : g[x] = IF x = 0 THEN 1 ELSE 2 * g[x \div 2]
      <3>1. TAKE x \in 0 .. m + 1
      <3>2. CASE x = 0
        BY <2>1, <2>2, <3>2 DEF PowerUpTo
      <3>3. CASE x \in 1 .. m
        <4>1. x \div 2 \in 0 .. m /\ x \div 2 # m + 1 /\ x # m + 1
          BY <2>2, <2>3, <3>3
        <4>2. g[x \div 2] = f[x \div 2] /\ g[x] = f[x]
          BY <2>2, <3>3, <4>1
        <4>3. x \in 0 .. m /\ x # 0
          BY <2>2, <3>3
        <4>4. f[x] = IF x = 0 THEN 1 ELSE 2 * f[x \div 2]
          BY <2>1, <4>3 DEF PowerUpTo
        <4> HIDE DEF g
        <4> QED
          BY <4>2, <4>3, <4>4
      <3>4. CASE x = m + 1
        <4>1. g[x \div 2] = f[x \div 2] /\ g[x] = 2 * f[x \div 2]
          BY <2>2, <2>3, <3>4
        <4> QED
          BY <2>2, <3>4, <4>1
      <3> QED
        BY <2>2, <3>2, <3>3, <3>4
    <2>6. PowerUpTo(m + 1, g)
      BY <2>4, <2>5 DEF PowerUpTo
    <2> QED
      BY <2>2, <2>6
  <1>3. T = Nat
    <2> HIDE DEF T
    <2>1. T \in SUBSET Nat
      BY DEF T
    <2> QED
      BY <1>1, <1>2, <2>1, NatBySuccessor
  <1> QED
    BY <1>3

\* next_pow2 satisfies its equation.
LEMMA PowerEquation ==
  \A x \in 0 .. Limit : Flat!next_pow2[x] = IF x = 0 THEN 1 ELSE 2 * Flat!next_pow2[x \div 2]
  <1> DEFINE Eq(g) == g = [x \in 0 .. Limit |-> IF x = 0 THEN 1 ELSE 2 * g[x \div 2]]
  <1>1. PICK f : PowerUpTo(Limit, f)
    BY PowerExists, BuffersAssumption DEF Flat!FlatConstants
  <1>2. Eq(f)
    BY <1>1 DEF PowerUpTo
  <1>3. Flat!next_pow2 = CHOOSE g : Eq(g)
    BY DEF Flat!next_pow2
  <1>4. Eq(Flat!next_pow2)
    <2> HIDE DEF Eq
    <2> QED
      BY <1>2, <1>3
  <1> QED
    BY <1>4

\* next_pow2 returns more than its argument.
LEMMA PowerBound ==
  \A x \in 0 .. Limit : Flat!next_pow2[x] \in Nat /\ Flat!next_pow2[x] > x
  <1> DEFINE f == Flat!next_pow2
             T == {m \in Nat : \A x \in 0 .. m : x <= Limit => f[x] \in Nat /\ f[x] > x}
  <1>0. Limit \in Nat
    BY BuffersAssumption DEF Flat!FlatConstants
  <1>1. 0 \in T
    BY <1>0, PowerEquation
  <1>2. ASSUME NEW m \in T PROVE m + 1 \in T
    <2>1. m \in Nat /\ \A x \in 0 .. m : x <= Limit => f[x] \in Nat /\ f[x] > x
      OBVIOUS
    <2>2. ASSUME m + 1 <= Limit PROVE f[m + 1] \in Nat /\ f[m + 1] > m + 1
      <3>1. PICK h \in 0 .. m : h = (m + 1) \div 2 /\ 2 * (h + 1) > m + 1 /\ h <= Limit
        BY <1>0, <2>1, <2>2
      <3>2. f[m + 1] = 2 * f[h]
        BY <1>0, <2>1, <2>2, <3>1, PowerEquation
      <3>3. f[h] \in Nat /\ f[h] >= h + 1
        BY <2>1, <3>1
      <3> QED
        BY <2>1, <3>1, <3>2, <3>3
    <2>3. \A x \in 0 .. m + 1 : x \in 0 .. m \/ x = m + 1
      BY <2>1
    <2> QED
      BY <2>1, <2>2, <2>3
  <1>3. T = Nat
    <2> HIDE DEF T
    <2>1. T \in SUBSET Nat
      BY DEF T
    <2> QED
      BY <1>1, <1>2, <2>1, NatBySuccessor
  <1> QED
    BY <1>0, <1>3

-----------------------------------------------------------------------------
\* The pointers of a flat buffer, which are an inductive invariant as they stand.
FlatInv == Flat!TypeOK /\ Flat!PointersInOrder
StaticInv == Static!TypeOK /\ Static!PointersInOrder

\* What the proofs use of the constants.
LEMMA Constants ==
  Limit \in Nat \ {0} /\ min_size \in Nat \ {0} /\ Sizes \subseteq Nat
  BY BuffersAssumption DEF Flat!FlatConstants, Sizes

\* A new block holds what it is allocated for and respects the limit.
LEMMA NewSizeBound ==
  ASSUME NEW n \in 0 .. Limit
  PROVE  Flat!NewSize(n) \in n .. Limit
  <1>1. PICK p \in Nat : p = Flat!next_pow2[n] /\ p > n
    BY PowerBound
  <1> QED
    BY <1>1, Constants DEF Flat!NewSize, Flat!Least, Flat!Greatest

\* The octets moved to the start of a block are octets.
LEMMA MovedType ==
  ASSUME FlatInv, NEW b \in [Flat!Index -> Octets \cup {Uninit}]
  PROVE  Flat!Moved(b) \in [Flat!Index -> Octets \cup {Uninit}]
  BY Constants DEF FlatInv, Flat!TypeOK, Flat!PointersInOrder, Flat!Moved, Flat!Index, Flat!size

\* A new block is a block.
LEMMA BlankType == Flat!Blank \in [Flat!Index -> Octets \cup {Uninit}]
  BY DEF Flat!Blank

\* prepare() of a flat buffer, with room, after a memmove and in a new block.
LEMMA FlatPrepare ==
  ASSUME FlatInv, NEW n \in Sizes, Flat!prepare(n)
  PROVE  FlatInv'
  <1> USE DEF FlatInv, Flat!TypeOK, Flat!PointersInOrder
  <1>0. n \in Nat /\ Limit \in Nat
    BY Constants
  <1>1. CASE n <= f_end - f_out /\ f_last' = f_out + n /\ UNCHANGED <<f_block, f_in, f_out, f_end>>
    BY <1>0, <1>1 DEF Flat!Index
  <1>2. CASE /\ n <= Flat!capacity - Flat!size /\ f_block' = Flat!Moved(f_block) /\ f_in' = 0
             /\ f_out' = Flat!size /\ f_last' = Flat!size + n /\ UNCHANGED f_end
    <2>1. f_block' \in [Flat!Index -> Octets \cup {Uninit}]
      BY <1>2, MovedType
    <2> QED
      BY <1>0, <1>2, <2>1 DEF Flat!size, Flat!capacity, Flat!Index
  <1>3. CASE /\ n <= Limit - Flat!size /\ Flat!Reallocate(Flat!NewSize(Flat!size + n))
             /\ f_last' = Flat!size + n
    <2>1. PICK t \in 0 .. Limit : t = Flat!size + n
      BY <1>0, <1>3 DEF Flat!size
    <2>2. PICK m \in t .. Limit : m = Flat!NewSize(t)
      BY <2>1, NewSizeBound
    <2>3. f_block' \in [Flat!Index -> Octets \cup {Uninit}]
      BY <1>3, MovedType, BlankType DEF Flat!Reallocate
    <2>4. f_in' = 0 /\ f_out' = Flat!size /\ f_end' = m /\ f_last' = t
      BY <1>3, <2>1, <2>2 DEF Flat!Reallocate
    <2> QED
      BY <1>0, <2>1, <2>2, <2>3, <2>4 DEF Flat!size, Flat!Index
  <1>4. n > Flat!capacity - Flat!size /\ ~Flat!Throws(n) => n <= Limit - Flat!size
    BY <1>0 DEF Flat!Throws, Flat!size, Flat!capacity
  <1> QED
    BY <1>1, <1>2, <1>3, <1>4 DEF Flat!prepare

\* reserve() of a flat buffer.
LEMMA FlatReserve ==
  ASSUME FlatInv, NEW n \in Sizes, Flat!reserve(n)
  PROVE  FlatInv' /\ f_end' >= n
  <1> USE DEF FlatInv, Flat!TypeOK, Flat!PointersInOrder
  <1>1. n \in 0 .. Limit /\ Limit \in Nat /\ n > f_end
    BY Constants DEF Flat!reserve, Flat!capacity
  <1>2. PICK m \in n .. Limit : m = Flat!NewSize(n)
    BY <1>1, NewSizeBound
  <1>3. f_block' \in [Flat!Index -> Octets \cup {Uninit}]
    BY MovedType, BlankType DEF Flat!reserve, Flat!Reallocate
  <1>4. f_in' = 0 /\ f_out' = Flat!size /\ f_end' = m /\ f_last' = Flat!size
    BY <1>2 DEF Flat!reserve, Flat!Reallocate
  <1> QED
    BY <1>1, <1>2, <1>3, <1>4 DEF Flat!size, Flat!Index

\* The other calls on a flat buffer.
LEMMA FlatOther ==
  ASSUME FlatInv,
         \/ \E n \in Sizes : Flat!commit(n) \/ Flat!consume(n)
         \/ Flat!Write \/ Flat!shrink_to_fit \/ Flat!move_from \/ Flat!copy_from \/ Flat!moved_from
  PROVE  FlatInv'
  <1> USE DEF FlatInv, Flat!TypeOK, Flat!PointersInOrder
  <1>0. Sizes \subseteq Nat /\ Limit \in Nat
    BY Constants
  <1>1. ASSUME NEW n \in Sizes, Flat!commit(n) PROVE FlatInv'
    BY <1>0, <1>1 DEF Flat!commit, Flat!Least, Flat!Index
  <1>2. ASSUME NEW n \in Sizes, Flat!consume(n) PROVE FlatInv'
    BY <1>0, <1>2 DEF Flat!consume, Flat!size, Flat!Index
  <1>3. CASE Flat!Write
    <2>1. f_block' \in [Flat!Index -> Octets \cup {Uninit}]
      BY <1>3 DEF Flat!Write
    <2> QED
      BY <1>3, <2>1 DEF Flat!Write, Flat!Index
  <1>4. CASE Flat!shrink_to_fit \/ Flat!copy_from
    <2>1. f_block' \in [Flat!Index -> Octets \cup {Uninit}]
      BY <1>4, MovedType, BlankType DEF Flat!shrink_to_fit, Flat!copy_from
    <2> QED
      BY <1>0, <1>4, <2>1 DEF Flat!shrink_to_fit, Flat!copy_from, Flat!size, Flat!Index
  <1>5. CASE Flat!move_from
    BY <1>5 DEF Flat!move_from, Flat!Index
  <1>6. CASE Flat!moved_from
    BY <1>0, <1>6, BlankType DEF Flat!moved_from, Flat!Index
  <1> QED
    BY <1>1, <1>2, <1>3, <1>4, <1>5, <1>6

\* FlatInv is inductive.
LEMMA FlatInvStep ==
  ASSUME FlatInv, Flat!Next
  PROVE  FlatInv'
  BY FlatPrepare, FlatReserve, FlatOther DEF Flat!Next

\* StaticInv is inductive.
LEMMA StaticInvStep ==
  ASSUME StaticInv, Static!Next
  PROVE  StaticInv'
  <1> USE DEF StaticInv, Static!TypeOK, Static!PointersInOrder
  <1>0. Sizes \subseteq Nat /\ Limit \in Nat
    BY Constants
  <1>1. s_threw' \in BOOLEAN
    BY DEF Static!Next, Static!prepare, Static!commit, Static!consume, Static!Write, Static!reset
  <1> DEFINE Placed == /\ s_block' \in [Static!Index -> Octets \cup {Uninit}]
                       /\ s_in' \in Nat /\ s_out' \in Nat /\ s_last' \in Nat
                       /\ s_in' <= s_out' /\ s_out' <= s_last' /\ s_last' <= Limit
  <1>2. SUFFICES Placed
    BY <1>1 DEF Static!Index
  <1>3. ASSUME NEW n \in Sizes, Static!prepare(n) PROVE Placed
    BY <1>0, <1>3 DEF Static!prepare
  <1>4. ASSUME NEW n \in Sizes, Static!commit(n) PROVE Placed
    BY <1>0, <1>4 DEF Static!commit, Static!Least
  <1>5. ASSUME NEW n \in Sizes, Static!consume(n) PROVE Placed
    BY <1>0, <1>5 DEF Static!consume, Static!Least
  <1>6. CASE Static!Write
    <2>1. s_block' \in [Static!Index -> Octets \cup {Uninit}]
      BY <1>6 DEF Static!Write
    <2> QED
      BY <1>6, <2>1 DEF Static!Write
  <1>7. CASE Static!reset
    BY <1>0, <1>7 DEF Static!reset
  <1> QED
    BY <1>3, <1>4, <1>5, <1>6, <1>7 DEF Static!Next

-----------------------------------------------------------------------------
\* What a block holds, and the blocks of both buffers.
Cells == Octets \cup {Uninit}
Blocks == [0 .. Limit - 1 -> Cells]

\* The octets of f from offset a up to offset b, as a sequence.
Cut(f, a, b) == [i \in 1 .. b - a |-> f[a + i - 1]]

\* A cut is a sequence.
LEMMA CutSeq ==
  ASSUME NEW f \in Blocks, NEW b \in 0 .. Limit, NEW a \in 0 .. b
  PROVE  /\ Cut(f, a, b) \in Seq(Cells)
         /\ Len(Cut(f, a, b)) = b - a
         /\ \A i \in 1 .. b - a : Cut(f, a, b)[i] = f[a + i - 1]
  <1>0. Limit \in Nat
    BY Constants
  <1>1. PICK n \in Nat : n = b - a
    OBVIOUS
  <1>2. \A i \in 1 .. n : a + i - 1 \in 0 .. Limit - 1
    BY <1>0, <1>1
  <1>3. Cut(f, a, b) \in [1 .. n -> Cells]
    BY <1>1, <1>2 DEF Cut, Blocks
  <1>4. Cut(f, a, b) \in Seq(Cells)
    BY <1>1, <1>3, SeqDef
  <1>5. Len(Cut(f, a, b)) = n
    BY <1>1, <1>3, <1>4, LenProperties
  <1> QED
    BY <1>1, <1>4, <1>5 DEF Cut

\* What SubSeq returns for a range within a sequence.
LEMMA CellsSubSeq ==
  ASSUME NEW s \in Seq(Cells), NEW lo \in Int, NEW hi \in Int, 1 <= lo, lo <= hi + 1, hi <= Len(s)
  PROVE  /\ SubSeq(s, lo, hi) \in Seq(Cells)
         /\ Len(SubSeq(s, lo, hi)) = hi - lo + 1
         /\ \A i \in 1 .. hi - lo + 1 : SubSeq(s, lo, hi)[i] = s[lo + i - 1]
  <1>1. Len(s) \in Nat
    BY LenProperties
  <1>2. \A i \in lo .. hi : s[i] \in Cells
    <2>1. \A i \in lo .. hi : i \in 1 .. Len(s)
      BY <1>1
    <2> QED
      BY <2>1, ElementOfSeq
  <1>3. SubSeq(s, lo, hi) \in Seq(Cells)
    BY <1>2, SubSeqProperties
  <1>4. Len(SubSeq(s, lo, hi)) = IF lo <= hi THEN hi - lo + 1 ELSE 0
    BY <1>2, SubSeqProperties
  <1>5. \A i \in 1 .. hi - lo + 1 : SubSeq(s, lo, hi)[i] = s[lo + i - 1]
    BY <1>2, SubSeqProperties
  <1> QED
    BY <1>3, <1>4, <1>5

\* Nothing is left of a sequence that is taken whole.
LEMMA RestEmpty ==
  ASSUME NEW s \in Seq(Cells), NEW k, k = Len(s)
  PROVE  SubSeq(s, k + 1, Len(s)) = << >>
  <1>1. Len(s) \in Nat
    BY LenProperties
  <1>2. k + 1 \in Int /\ Len(s) \in Int /\ Len(s) < k + 1
    BY <1>1
  <1> QED
    BY <1>2, SubSeqEmpty

\* A part of a cut is a cut.
LEMMA CutPart ==
  ASSUME NEW f \in Blocks, NEW b \in 0 .. Limit, NEW a \in 0 .. b, NEW d \in a .. b, NEW c \in a .. d
  PROVE  Cut(f, c, d) = SubSeq(Cut(f, a, b), c - a + 1, d - a)
  <1>0. c \in 0 .. d /\ d \in 0 .. Limit
    BY Constants
  <1>1. PICK s \in Seq(Cells) : /\ s = Cut(f, a, b) /\ Len(s) = b - a
                                /\ \A i \in 1 .. b - a : s[i] = f[a + i - 1]
    BY CutSeq
  <1>2. PICK t \in Seq(Cells) : /\ t = Cut(f, c, d) /\ Len(t) = d - c
                                /\ \A i \in 1 .. d - c : t[i] = f[c + i - 1]
    BY <1>0, CutSeq
  <1>3. PICK lo \in Int, hi \in Int : lo = c - a + 1 /\ hi = d - a /\ hi - lo + 1 = d - c
    OBVIOUS
  <1>4. 1 <= lo /\ lo <= hi + 1 /\ hi <= Len(s)
    BY <1>1, <1>3
  <1>6. PICK u \in Seq(Cells) : /\ u = SubSeq(s, lo, hi) /\ Len(u) = hi - lo + 1
                                /\ \A i \in 1 .. hi - lo + 1 : u[i] = s[lo + i - 1]
    BY <1>4, CellsSubSeq
  <1>7. Len(u) = d - c
    BY <1>3, <1>6
  <1>8. \A i \in 1 .. d - c : t[i] = u[i]
    <2>1. TAKE i \in 1 .. d - c
    <2>2. u[i] = s[lo + i - 1]
      BY <1>3, <1>6
    <2>3. lo + i - 1 \in 1 .. b - a /\ a + (lo + i - 1) - 1 = c + i - 1
      BY <1>3
    <2>4. s[lo + i - 1] = f[c + i - 1]
      BY <1>1, <2>3
    <2> QED
      BY <1>2, <2>2, <2>4
  <1>9. t = u
    BY <1>2, <1>7, <1>8, SeqEqual
  <1> QED
    BY <1>1, <1>2, <1>3, <1>6, <1>9

\* Two cuts that meet are one.
LEMMA CutConcat ==
  ASSUME NEW f \in Blocks, NEW c \in 0 .. Limit, NEW b \in 0 .. c, NEW a \in 0 .. b
  PROVE  Cut(f, a, c) = Cut(f, a, b) \o Cut(f, b, c)
  <1>1. b \in 0 .. Limit /\ a \in 0 .. c
    BY Constants
  <1>2. PICK s \in Seq(Cells) : /\ s = Cut(f, a, b) /\ Len(s) = b - a
                                /\ \A i \in 1 .. b - a : s[i] = f[a + i - 1]
    BY <1>1, CutSeq
  <1>3. PICK t \in Seq(Cells) : /\ t = Cut(f, b, c) /\ Len(t) = c - b
                                /\ \A i \in 1 .. c - b : t[i] = f[b + i - 1]
    BY <1>1, CutSeq
  <1>4. PICK u \in Seq(Cells) : /\ u = Cut(f, a, c) /\ Len(u) = c - a
                                /\ \A i \in 1 .. c - a : u[i] = f[a + i - 1]
    BY <1>1, CutSeq
  <1>5. PICK v \in Seq(Cells) : /\ v = s \o t /\ Len(v) = Len(s) + Len(t)
                                /\ \A i \in 1 .. Len(s) + Len(t) :
                                     v[i] = IF i <= Len(s) THEN s[i] ELSE t[i - Len(s)]
    <2>1. /\ s \o t \in Seq(Cells)
          /\ Len(s \o t) = Len(s) + Len(t)
          /\ \A i \in 1 .. Len(s) + Len(t) :
               (s \o t)[i] = IF i <= Len(s) THEN s[i] ELSE t[i - Len(s)]
      BY ConcatProperties
    <2> QED
      BY <2>1
  <1>6. Len(v) = c - a
    BY <1>2, <1>3, <1>5
  <1>7. \A i \in 1 .. c - a : u[i] = v[i]
    <2>1. TAKE i \in 1 .. c - a
    <2>2. CASE i <= b - a
      <3>1. i \in 1 .. b - a /\ i \in 1 .. Len(s) + Len(t) /\ i <= Len(s)
        BY <1>2, <1>3, <2>2
      <3> QED
        BY <1>2, <1>4, <1>5, <3>1
    <2>3. CASE i > b - a
      <3>1. i - (b - a) \in 1 .. c - b /\ b + (i - (b - a)) - 1 = a + i - 1
        BY <2>3
      <3>2. t[i - (b - a)] = f[a + i - 1]
        BY <1>3, <3>1
      <3>3. i \in 1 .. Len(s) + Len(t) /\ ~(i <= Len(s)) /\ i - Len(s) = i - (b - a)
        BY <1>2, <1>3, <2>3
      <3>4. v[i] = t[i - (b - a)]
        BY <1>5, <3>3
      <3> QED
        BY <1>4, <3>2, <3>4
    <2> QED
      BY <2>2, <2>3
  <1>8. u = v
    BY <1>4, <1>6, <1>7, SeqEqual
  <1> QED
    BY <1>2, <1>3, <1>4, <1>5, <1>8

\* The sequences of a flat buffer are cuts of its block.
LEMMA FlatView ==
  ASSUME FlatInv
  PROVE  /\ f_block \in Blocks
         /\ f_out \in 0 .. Limit /\ f_in \in 0 .. f_out /\ f_last \in 0 .. Limit /\ f_out \in 0 .. f_last
         /\ f_in \in 0 .. f_last
         /\ Flat!data = Cut(f_block, f_in, f_out) /\ Flat!prepared = Cut(f_block, f_out, f_last)
  BY Constants DEF FlatInv, Flat!TypeOK, Flat!PointersInOrder, Flat!Index, Blocks, Cells, Cut,
                   Flat!data, Flat!prepared, Flat!Area

\* The sequences after a call on a flat buffer.
LEMMA FlatViewNext ==
  ASSUME FlatInv'
  PROVE  /\ f_block' \in Blocks
         /\ f_out' \in 0 .. Limit /\ f_in' \in 0 .. f_out' /\ f_last' \in 0 .. Limit /\ f_out' \in 0 .. f_last'
         /\ f_in' \in 0 .. f_last'
         /\ Flat!data' = Cut(f_block', f_in', f_out') /\ Flat!prepared' = Cut(f_block', f_out', f_last')
  BY Constants DEF FlatInv, Flat!TypeOK, Flat!PointersInOrder, Flat!Index, Blocks, Cells, Cut,
                   Flat!data, Flat!prepared, Flat!Area

\* Cuts of two blocks that hold the same octets there.
LEMMA CutSame ==
  ASSUME NEW f \in Blocks, NEW b \in 0 .. Limit, NEW a \in 0 .. b,
         NEW g \in Blocks, NEW d \in 0 .. Limit, NEW c \in 0 .. d,
         d - c = b - a, \A i \in 0 .. b - a - 1 : f[a + i] = g[c + i]
  PROVE  Cut(f, a, b) = Cut(g, c, d)
  <1>1. \A i \in 1 .. b - a : f[a + i - 1] = g[c + i - 1]
    <2>1. TAKE i \in 1 .. b - a
    <2>2. i - 1 \in 0 .. b - a - 1 /\ a + (i - 1) = a + i - 1 /\ c + (i - 1) = c + i - 1
      BY Constants
    <2> QED
      BY <2>2
  <1> QED
    BY <1>1 DEF Cut

\* The octets that are copied to the start of a block are the input sequence.
LEMMA MovedData ==
  ASSUME FlatInv, NEW b \in Blocks
  PROVE  Flat!Moved(b) \in Blocks /\ Cut(Flat!Moved(b), 0, Flat!size) = Cut(f_block, f_in, f_out)
  <1>1. f_block \in Blocks /\ f_out \in 0 .. Limit /\ f_in \in 0 .. f_out /\ Limit \in Nat
    BY FlatView, Constants
  <1>2. PICK z \in 0 .. Limit : z = Flat!size /\ z = f_out - f_in /\ 0 \in 0 .. z /\ z - 0 = f_out - f_in
    BY <1>1 DEF Flat!size
  <1>3. PICK g \in Blocks : g = Flat!Moved(b)
    BY MovedType DEF Blocks, Cells, Flat!Index
  <1>4. \A i \in 0 .. z - 0 - 1 : g[0 + i] = f_block[f_in + i]
    <2>1. TAKE i \in 0 .. z - 0 - 1
    <2>2. i \in Flat!Index /\ i < Flat!size /\ 0 + i = i
      BY <1>1, <1>2 DEF Flat!Index
    <2> QED
      BY <1>3, <2>2 DEF Flat!Moved
  <1>5. Cut(g, 0, z) = Cut(f_block, f_in, f_out)
    BY <1>1, <1>2, <1>4, CutSame
  <1> QED
    BY <1>2, <1>3, <1>5

\* A call that copies the input sequence to the start of a block keeps it.
LEMMA MoveKeeps ==
  ASSUME FlatInv, FlatInv', f_in' = 0, f_out' = Flat!size,
         f_block' = Flat!Moved(f_block) \/ f_block' = Flat!Moved(Flat!Blank)
  PROVE  Flat!data' = Flat!data
  <1>1. f_block \in Blocks /\ Flat!data = Cut(f_block, f_in, f_out)
    BY FlatView
  <1>2. Flat!Blank \in Blocks
    BY BlankType DEF Blocks, Cells, Flat!Index
  <1>3. Flat!data' = Cut(f_block', 0, Flat!size)
    BY FlatViewNext
  <1> QED
    BY <1>1, <1>2, <1>3, MovedData

\* The sequences of a flat buffer fit its limit.
LEMMA FlatFits ==
  ASSUME FlatInv'
  PROVE  /\ Flat!prepared' \in Seq(Cells)
         /\ Len(Flat!prepared') = f_last' - f_out'
         /\ Len(Flat!data') = f_out' - f_in'
  BY FlatViewNext, CutSeq

\* What is left of a block after two areas.
LEMMA AreasFit ==
  ASSUME NEW i \in Nat, NEW o \in Nat, NEW l \in Nat, l <= Limit
  PROVE  (o - i) + (l - o) <= Limit
  BY Constants

\* prepare() of a flat buffer conforms.
LEMMA FlatPrepareConforms ==
  ASSUME FlatInv, FlatInv', NEW n \in Sizes, Flat!prepare(n)
  PROVE  Flat!DB!Prepare(n)
  <1>0. n \in Nat /\ Limit \in Nat
    BY Constants
  <1>1. f_last' = f_out' + n /\ (\/ f_in' = f_in /\ f_out' = f_out /\ f_block' = f_block
                                 \/ /\ f_in' = 0 /\ f_out' = Flat!size
                                    /\ f_block' \in {Flat!Moved(f_block), Flat!Moved(Flat!Blank)})
    BY DEF Flat!prepare, Flat!Reallocate
  <1>2. Flat!data' = Flat!data
    <2>1. CASE f_in' = f_in /\ f_out' = f_out /\ f_block' = f_block
      BY <2>1, FlatView, FlatViewNext
    <2> QED
      BY <1>1, <2>1, MoveKeeps
  <1>3. f_last' \in Nat /\ f_out' \in Nat /\ f_in' \in Nat /\ f_last' <= Limit
    BY FlatViewNext, Constants
  <1>4. Flat!prepared' \in Seq(Cells) /\ Len(Flat!prepared') = n
    BY <1>0, <1>1, <1>3, FlatFits
  <1>5. Len(Flat!data) + n <= Limit
    <2>1. Len(Flat!data) = f_out' - f_in'
      BY <1>2, FlatFits
    <2>2. f_last' - f_out' = n
      BY <1>4, FlatFits
    <2> QED
      BY <1>0, <1>1, <1>3, <2>1, <2>2, AreasFit
  <1>6. ~Flat!DB!Exceeds(n)
    <2>1. Len(Flat!data) \in Nat
      BY <1>2, <1>3, FlatFits, FlatViewNext
    <2> QED
      BY <1>0, <1>5, <2>1 DEF Flat!DB!Exceeds
  <1> QED
    BY <1>2, <1>4, <1>6 DEF Flat!DB!Prepare, Cells

\* prepare() of a flat buffer throws if and only if the concept says so.
LEMMA FlatThrowsConforms ==
  ASSUME FlatInv, NEW n \in Sizes
  PROVE  Flat!Throws(n) <=> Flat!DB!Exceeds(n)
  <1>1. n \in Nat /\ Limit \in Nat /\ f_end \in 0 .. Limit /\ f_out \in 0 .. Limit /\ f_in \in 0 .. f_out
    BY Constants, FlatView DEF FlatInv, Flat!TypeOK
  <1>2. PICK z \in Nat : z = f_out - f_in /\ z = Flat!size /\ z = Len(Flat!data)
    BY <1>1, FlatView, CutSeq DEF Flat!size
  <1> QED
    BY <1>1, <1>2 DEF Flat!Throws, Flat!DB!Exceeds, Flat!capacity

\* reserve(), shrink_to_fit() and the moves and copies of a flat buffer conform.
LEMMA FlatRelocateConforms ==
  ASSUME FlatInv, FlatInv',
         \/ \E n \in Sizes : Flat!reserve(n)
         \/ Flat!shrink_to_fit \/ Flat!move_from \/ Flat!copy_from
  PROVE  Flat!DB!Relocate
  <1>1. \/ f_in' = f_in /\ f_out' = f_out /\ f_block' = f_block
        \/ f_in' = 0 /\ f_out' = Flat!size /\ f_block' = Flat!Moved(Flat!Blank)
    BY DEF Flat!reserve, Flat!Reallocate, Flat!shrink_to_fit, Flat!move_from, Flat!copy_from
  <1>2. Flat!data' = Flat!data
    <2>1. CASE f_in' = f_in /\ f_out' = f_out /\ f_block' = f_block
      BY <2>1, FlatView, FlatViewNext
    <2> QED
      BY <1>1, <2>1, MoveKeeps
  <1>3. f_last' \in Nat /\ f_out' \in Nat /\ f_in' \in Nat /\ f_last' <= Limit /\ Limit \in Nat
    BY FlatViewNext, Constants
  <1>4. Flat!prepared' \in Seq(Cells) /\ Len(Flat!data) + Len(Flat!prepared') <= Limit
    <2>1. /\ Flat!prepared' \in Seq(Cells) /\ Len(Flat!prepared') = f_last' - f_out'
          /\ Len(Flat!data) = f_out' - f_in'
      BY <1>2, FlatFits
    <2> QED
      BY <1>3, <2>1, AreasFit
  <1> QED
    BY <1>2, <1>4 DEF Flat!DB!Relocate, Cells

\* The caller writes to the output area of a flat buffer only.
LEMMA FlatWriteConforms ==
  ASSUME FlatInv, FlatInv', Flat!Write
  PROVE  Flat!DB!Write
  <1>1. /\ f_in' = f_in /\ f_out' = f_out /\ f_last' = f_last
        /\ \A i \in Flat!Index : i < f_out => f_block'[i] = f_block[i]
    <2>1. PICK f \in [Flat!Index -> Octets] :
            f_block' = [i \in Flat!Index |-> IF f_out <= i /\ i < f_last THEN f[i] ELSE f_block[i]]
      BY DEF Flat!Write
    <2>2. f_out \in Nat /\ \A i \in Flat!Index : i \in Int
      BY FlatView, Constants DEF Flat!Index
    <2>3. \A i \in Flat!Index : i < f_out => ~(f_out <= i)
      BY <2>2
    <2>4. \A i \in Flat!Index : i < f_out => f_block'[i] = f_block[i]
      BY <2>1, <2>3
    <2> QED
      BY <2>4 DEF Flat!Write
  <1>2. /\ f_block \in Blocks /\ f_out \in 0 .. Limit /\ f_in \in 0 .. f_out /\ f_block' \in Blocks
        /\ f_out - f_in = f_out - f_in
    BY FlatView, FlatViewNext
  <1>3. \A i \in 0 .. f_out - f_in - 1 : f_block'[f_in + i] = f_block[f_in + i]
    <2>1. TAKE i \in 0 .. f_out - f_in - 1
    <2>2. f_in + i \in Flat!Index /\ f_in + i < f_out
      BY <1>2, Constants DEF Flat!Index
    <2> QED
      BY <1>1, <2>2
  <1>4. Cut(f_block', f_in, f_out) = Cut(f_block, f_in, f_out)
    BY <1>2, <1>3, CutSame
  <1>5. Flat!data' = Flat!data
    BY <1>1, <1>4, FlatView, FlatViewNext
  <1>6. Flat!prepared' \in Seq(Cells) /\ Len(Flat!prepared') = Len(Flat!prepared)
    BY <1>1, FlatFits, FlatView, CutSeq
  <1> QED
    BY <1>5, <1>6 DEF Flat!DB!Write, Cells

\* commit() of a flat buffer moves a part of the output sequence to the input sequence.
LEMMA FlatCommitConforms ==
  ASSUME FlatInv, FlatInv', NEW n \in Sizes, Flat!commit(n)
  PROVE  Flat!DB!CommitOrKeep(n)
  <1>0. /\ n \in Nat /\ Limit \in Nat /\ f_block \in Blocks
        /\ f_last \in 0 .. Limit /\ f_out \in 0 .. f_last /\ f_in \in 0 .. f_out
    BY Constants, FlatView
  <1>1. PICK o \in f_out .. f_last : /\ f_out' = o /\ o = f_out + Flat!Least(n, f_last - f_out)
                                     /\ f_in' = f_in /\ f_last' = f_last /\ f_block' = f_block
    BY <1>0 DEF Flat!commit, Flat!Least
  <1>2. PICK p \in Seq(Cells) : p = Flat!prepared /\ p = Cut(f_block, f_out, f_last) /\ Len(p) = f_last - f_out
    BY <1>0, FlatView, CutSeq
  <1>3. PICK k \in Int : /\ k = Flat!DB!Least(n, Len(p)) /\ k = o - f_out
                         /\ k + 1 = o - f_out + 1 /\ Len(p) = f_last - f_out
    <2>1. Flat!DB!Least(n, f_last - f_out) = Flat!Least(n, f_last - f_out)
      BY DEF Flat!DB!Least, Flat!Least
    <2>2. o - f_out \in Int /\ Flat!Least(n, f_last - f_out) = o - f_out
      <3>1. Flat!Least(n, f_last - f_out) \in Int
        BY <1>0 DEF Flat!Least
      <3> QED
        BY <1>0, <1>1, <3>1
    <2> QED
      BY <1>2, <2>1, <2>2
  <1>4. Cut(f_block, f_out, o) = SubSeq(p, 1, k)
    <2>1. f_out \in f_out .. o /\ f_out - f_out + 1 = 1
      BY <1>0
    <2>2. Cut(f_block, f_out, o) = SubSeq(Cut(f_block, f_out, f_last), f_out - f_out + 1, o - f_out)
      BY <1>0, <2>1, CutPart
    <2> QED
      BY <1>2, <1>3, <2>1, <2>2
  <1>5. Cut(f_block, o, f_last) = SubSeq(p, k + 1, Len(p))
    <2>1. f_last \in f_out .. f_last /\ o \in f_out .. f_last
      BY <1>0
    <2>2. Cut(f_block, o, f_last) = SubSeq(Cut(f_block, f_out, f_last), o - f_out + 1, f_last - f_out)
      BY <1>0, <2>1, CutPart
    <2> QED
      BY <1>2, <1>3, <2>2
  <1>6. Cut(f_block, f_in, o) = Cut(f_block, f_in, f_out) \o Cut(f_block, f_out, o)
    <2>1. o \in 0 .. Limit /\ f_out \in 0 .. o
      BY <1>0
    <2> QED
      BY <1>0, <2>1, CutConcat
  <1>7. Flat!data' = Flat!data \o SubSeq(Flat!prepared, 1, k)
    BY <1>1, <1>2, <1>4, <1>6, FlatView, FlatViewNext
  <1>8. Flat!prepared' = SubSeq(Flat!prepared, k + 1, Len(Flat!prepared))
    BY <1>1, <1>2, <1>5, FlatViewNext
  <1> QED
    <2>1. Flat!DB!CommitKeepsRest(n)
      BY <1>2, <1>3, <1>7, <1>8 DEF Flat!DB!CommitKeepsRest
    <2>2. ASSUME n >= Len(p) PROVE Flat!DB!Commit(n)
      <3>1. k = Len(p)
        <4>1. Len(p) \in Nat
          BY LenProperties
        <4> QED
          BY <1>0, <1>3, <2>2, <4>1 DEF Flat!DB!Least
      <3>2. Flat!prepared' = << >>
        BY <1>2, <1>8, <3>1, RestEmpty
      <3> QED
        BY <1>2, <1>3, <1>7, <3>2 DEF Flat!DB!Commit
    <2> QED
      BY <1>2, <2>1, <2>2 DEF Flat!DB!CommitOrKeep

\* consume() of a flat buffer removes the first octets of the input sequence.
LEMMA FlatConsumeConforms ==
  ASSUME FlatInv, FlatInv', NEW n \in Sizes, Flat!consume(n)
  PROVE  Flat!DB!Consume(n)
  <1>0. /\ n \in Nat /\ Limit \in Nat /\ f_block \in Blocks
        /\ f_out \in 0 .. Limit /\ f_in \in 0 .. f_out
    BY Constants, FlatView
  <1>1. PICK d \in Seq(Cells) : d = Flat!data /\ d = Cut(f_block, f_in, f_out) /\ Len(d) = f_out - f_in
    BY <1>0, FlatView, CutSeq
  <1>2. PICK k \in Int : k = Flat!DB!Least(n, Len(d)) /\ k = IF n >= f_out - f_in THEN f_out - f_in ELSE n
    <2>1. f_out - f_in \in Int /\ n \in Int /\ Len(d) = f_out - f_in
      BY <1>0, <1>1
    <2>2. Flat!DB!Least(n, f_out - f_in) = IF n >= f_out - f_in THEN f_out - f_in ELSE n
      BY <2>1 DEF Flat!DB!Least
    <2>3. CASE n >= f_out - f_in
      BY <2>1, <2>2, <2>3
    <2>4. CASE ~(n >= f_out - f_in)
      BY <2>1, <2>2, <2>4
    <2> QED
      BY <2>3, <2>4
  <1>3. Flat!data' = SubSeq(d, k + 1, Len(d))
    <2>1. CASE n >= f_out - f_in
      <3>1. f_in' = 0 /\ f_out' = 0
        BY <1>0, <2>1 DEF Flat!consume, Flat!size
      <3>2. Flat!data' = << >>
        <4>1. Flat!data' \in Seq(Cells) /\ Len(Flat!data') = 0
          BY <3>1, FlatViewNext, CutSeq
        <4> QED
          BY <4>1, EmptySeq
      <3>3. SubSeq(d, k + 1, Len(d)) = << >>
        <4>1. k + 1 \in Int /\ Len(d) \in Int /\ Len(d) < k + 1
          BY <1>0, <1>1, <1>2, <2>1
        <4> QED
          BY <4>1, SubSeqEmpty
      <3> QED
        BY <3>2, <3>3
    <2>2. CASE n < f_out - f_in
      <3>1. PICK i \in f_in .. f_out : i = f_in + n /\ f_in' = i /\ f_out' = f_out /\ f_block' = f_block
        BY <1>0, <2>2 DEF Flat!consume, Flat!size
      <3>2. f_out \in f_in .. f_out /\ i - f_in + 1 = k + 1
        BY <1>0, <1>2, <2>2, <3>1
      <3>3. Cut(f_block, i, f_out) = SubSeq(Cut(f_block, f_in, f_out), i - f_in + 1, f_out - f_in)
        BY <1>0, <3>2, CutPart
      <3> QED
        BY <1>1, <3>1, <3>2, <3>3, FlatViewNext
    <2> QED
      BY <1>0, <2>1, <2>2
  <1>4. Flat!prepared' \in Seq(Cells) /\ Len(Flat!data') + Len(Flat!prepared') <= Limit
    <2>1. f_last' \in Nat /\ f_out' \in Nat /\ f_in' \in Nat /\ f_last' <= Limit
      BY FlatViewNext, Constants
    <2>2. /\ Flat!prepared' \in Seq(Cells) /\ Len(Flat!prepared') = f_last' - f_out'
          /\ Len(Flat!data') = f_out' - f_in'
      BY FlatFits
    <2> QED
      BY <1>0, <2>1, <2>2, AreasFit
  <1> QED
    BY <1>1, <1>2, <1>3, <1>4 DEF Flat!DB!Consume, Cells

\* A flat buffer that was moved from is empty.
LEMMA FlatMovedFromConforms ==
  ASSUME FlatInv', Flat!moved_from
  PROVE  Flat!DB!Clear
  <1>1. f_in' = 0 /\ f_out' = 0 /\ f_last' = 0
    BY DEF Flat!moved_from
  <1>2. /\ Flat!data' \in Seq(Cells) /\ Len(Flat!data') = 0
        /\ Flat!prepared' \in Seq(Cells) /\ Len(Flat!prepared') = 0
    BY <1>1, FlatViewNext, CutSeq
  <1>3. Flat!data' = << >> /\ Flat!prepared' = << >>
    BY <1>2, EmptySeq
  <1> QED
    BY <1>3 DEF Flat!DB!Clear

\* Every call on a flat buffer conforms.
LEMMA FlatConforms ==
  ASSUME FlatInv, FlatInv'
  PROVE  Flat!CallConforms
  <1>1. \A n \in Sizes : Flat!reserve(n) => Flat!capacity' >= n
    BY FlatReserve DEF Flat!capacity
  <1> QED
    BY <1>1, FlatPrepareConforms, FlatRelocateConforms, FlatWriteConforms, FlatCommitConforms, FlatConsumeConforms,
       FlatThrowsConforms, FlatMovedFromConforms
       DEF Flat!CallConforms

-----------------------------------------------------------------------------
\* The sequences of a static buffer are cuts of its array.
LEMMA StaticView ==
  ASSUME StaticInv
  PROVE  /\ s_block \in Blocks
         /\ s_out \in 0 .. Limit /\ s_in \in 0 .. s_out /\ s_last \in 0 .. Limit /\ s_out \in 0 .. s_last
         /\ Static!data = Cut(s_block, s_in, s_out) /\ Static!prepared = Cut(s_block, s_out, s_last)
         /\ Static!prepared \in Seq(Cells) /\ Len(Static!prepared) = s_last - s_out
         /\ Static!data \in Seq(Cells) /\ Len(Static!data) = s_out - s_in
  <1>1. /\ s_block \in Blocks
        /\ s_out \in 0 .. Limit /\ s_in \in 0 .. s_out /\ s_last \in 0 .. Limit /\ s_out \in 0 .. s_last
    BY Constants DEF StaticInv, Static!TypeOK, Static!PointersInOrder, Static!Index, Blocks, Cells
  <1>2. Static!data = Cut(s_block, s_in, s_out) /\ Static!prepared = Cut(s_block, s_out, s_last)
    BY DEF Cut, Static!data, Static!prepared, Static!Area
  <1> QED
    BY <1>1, <1>2, CutSeq

\* The sequences after a call on a static buffer.
LEMMA StaticViewNext ==
  ASSUME StaticInv'
  PROVE  /\ s_block' \in Blocks
         /\ s_out' \in 0 .. Limit /\ s_in' \in 0 .. s_out' /\ s_last' \in 0 .. Limit /\ s_out' \in 0 .. s_last'
         /\ Static!data' = Cut(s_block', s_in', s_out') /\ Static!prepared' = Cut(s_block', s_out', s_last')
         /\ Static!prepared' \in Seq(Cells) /\ Len(Static!prepared') = s_last' - s_out'
         /\ Static!data' \in Seq(Cells) /\ Len(Static!data') = s_out' - s_in'
  <1>1. /\ s_block' \in Blocks
        /\ s_out' \in 0 .. Limit /\ s_in' \in 0 .. s_out' /\ s_last' \in 0 .. Limit /\ s_out' \in 0 .. s_last'
    BY Constants DEF StaticInv, Static!TypeOK, Static!PointersInOrder, Static!Index, Blocks, Cells
  <1>2. Static!data' = Cut(s_block', s_in', s_out') /\ Static!prepared' = Cut(s_block', s_out', s_last')
    BY DEF Cut, Static!data, Static!prepared, Static!Area
  <1> QED
    BY <1>1, <1>2, CutSeq

\* The condition under which prepare() of a static buffer throws.
LEMMA StaticThrows ==
  ASSUME StaticInv, NEW n \in Sizes
  PROVE  Static!ThrowsEarly(n) <=> n > Limit - s_out
  <1>1. n \in Nat /\ Limit \in Nat /\ s_out \in 0 .. Limit /\ s_in \in 0 .. s_out
    BY Constants, StaticView
  <1>2. PICK z \in Nat : z = s_out - s_in /\ z = Len(Static!data)
    BY <1>1, StaticView
  <1> QED
    BY <1>1, <1>2 DEF Static!ThrowsEarly, Static!DB!Exceeds

\* prepare() of a static buffer conforms, or throws for want of room and does nothing.
LEMMA StaticPrepareConforms ==
  ASSUME StaticInv, StaticInv', NEW n \in Sizes, Static!prepare(n)
  PROVE  /\ s_threw' <=> Static!ThrowsEarly(n)
         /\ ~s_threw' => Static!DB!Prepare(n)
         /\ s_threw' => Static!data' = Static!data /\ Static!prepared' = Static!prepared
  <1>1. s_block' = s_block /\ s_in' = s_in /\ s_out' = s_out
    BY DEF Static!prepare
  <1>2. Static!data' = Static!data
    BY <1>1, StaticView, StaticViewNext
  <1>3. CASE n <= Limit - s_out /\ s_last' = s_out + n /\ s_threw' = FALSE
    <2>1. PICK i \in Nat, o \in Nat, l \in Nat : i = s_in' /\ o = s_out' /\ l = s_last' /\ l <= Limit
      BY StaticViewNext, Constants
    <2>2. l - o = n
      BY <1>1, <1>3, <2>1, Constants
    <2>3. Len(Static!prepared') = n /\ Len(Static!data) = o - i
      BY <1>2, <2>1, <2>2, StaticViewNext
    <2>4. Len(Static!data) + n <= Limit
      BY <2>1, <2>2, <2>3, AreasFit
    <2>5. ~Static!DB!Exceeds(n)
      <3>1. Len(Static!data) \in Int /\ n \in Int /\ Limit \in Int
        BY <2>1, <2>3, Constants
      <3> QED
        BY <2>4, <3>1 DEF Static!DB!Exceeds
    <2>6. Static!DB!Prepare(n)
      BY <1>2, <2>3, <2>5, StaticViewNext DEF Static!DB!Prepare, Cells
    <2>7. ~Static!ThrowsEarly(n)
      <3>1. ~(n > Limit - s_out)
        BY <1>3, Constants, StaticView
      <3> QED
        BY <3>1, StaticThrows
    <2> QED
      BY <1>3, <2>6, <2>7
  <1>4. CASE n > Limit - s_out /\ s_last' = s_last /\ s_threw' = TRUE
    <2>1. Static!prepared' = Static!prepared
      BY <1>1, <1>4, StaticView, StaticViewNext
    <2>2. Static!ThrowsEarly(n)
      BY <1>4, StaticThrows
    <2> QED
      BY <1>2, <1>4, <2>1, <2>2
  <1> QED
    BY <1>3, <1>4 DEF Static!prepare

\* The caller writes to the output area of a static buffer only.
LEMMA StaticWriteConforms ==
  ASSUME StaticInv, StaticInv', Static!Write
  PROVE  Static!DB!Write
  <1>1. /\ s_in' = s_in /\ s_out' = s_out /\ s_last' = s_last
        /\ \A i \in Static!Index : i < s_out => s_block'[i] = s_block[i]
    <2>1. PICK f \in [Static!Index -> Octets] :
            s_block' = [i \in Static!Index |-> IF s_out <= i /\ i < s_last THEN f[i] ELSE s_block[i]]
      BY DEF Static!Write
    <2>2. s_out \in Nat /\ \A i \in Static!Index : i \in Int
      BY StaticView, Constants DEF Static!Index
    <2>3. \A i \in Static!Index : i < s_out => ~(s_out <= i)
      BY <2>2
    <2>4. \A i \in Static!Index : i < s_out => s_block'[i] = s_block[i]
      BY <2>1, <2>3
    <2> QED
      BY <2>4 DEF Static!Write
  <1>2. /\ s_block \in Blocks /\ s_out \in 0 .. Limit /\ s_in \in 0 .. s_out /\ s_block' \in Blocks
        /\ s_out - s_in = s_out - s_in
    BY StaticView, StaticViewNext
  <1>3. \A i \in 0 .. s_out - s_in - 1 : s_block'[s_in + i] = s_block[s_in + i]
    <2>1. TAKE i \in 0 .. s_out - s_in - 1
    <2>2. s_in + i \in Static!Index /\ s_in + i < s_out
      BY <1>2, Constants DEF Static!Index
    <2> QED
      BY <1>1, <2>2
  <1>4. Cut(s_block', s_in, s_out) = Cut(s_block, s_in, s_out)
    BY <1>2, <1>3, CutSame
  <1>5. Static!data' = Static!data
    BY <1>1, <1>4, StaticView, StaticViewNext
  <1>6. Static!prepared' \in Seq(Cells) /\ Len(Static!prepared') = Len(Static!prepared)
    BY <1>1, StaticView, StaticViewNext
  <1> QED
    BY <1>5, <1>6 DEF Static!DB!Write, Cells

\* commit() of a static buffer moves a part of the output sequence to the input sequence.
LEMMA StaticCommitConforms ==
  ASSUME StaticInv, StaticInv', NEW n \in Sizes, Static!commit(n)
  PROVE  Static!DB!CommitOrKeep(n)
  <1>0. /\ n \in Nat /\ Limit \in Nat /\ s_block \in Blocks
        /\ s_last \in 0 .. Limit /\ s_out \in 0 .. s_last /\ s_in \in 0 .. s_out
    BY Constants, StaticView
  <1>1. PICK o \in s_out .. s_last : /\ s_out' = o /\ o = s_out + Static!Least(n, s_last - s_out)
                                     /\ s_in' = s_in /\ s_last' = s_last /\ s_block' = s_block
    BY <1>0 DEF Static!commit, Static!Least
  <1>2. PICK p \in Seq(Cells) : p = Static!prepared /\ p = Cut(s_block, s_out, s_last) /\ Len(p) = s_last - s_out
    BY StaticView
  <1>3. PICK k \in Int : /\ k = Static!DB!Least(n, Len(p)) /\ k = o - s_out
                         /\ k + 1 = o - s_out + 1 /\ Len(p) = s_last - s_out
    <2>1. Static!DB!Least(n, s_last - s_out) = Static!Least(n, s_last - s_out)
      BY DEF Static!DB!Least, Static!Least
    <2>2. o - s_out \in Int /\ Static!Least(n, s_last - s_out) = o - s_out
      <3>1. Static!Least(n, s_last - s_out) \in Int
        BY <1>0 DEF Static!Least
      <3> QED
        BY <1>0, <1>1, <3>1
    <2> QED
      BY <1>2, <2>1, <2>2
  <1>4. Cut(s_block, s_out, o) = SubSeq(p, 1, k)
    <2>1. s_out \in s_out .. o /\ s_out - s_out + 1 = 1
      BY <1>0
    <2>2. Cut(s_block, s_out, o) = SubSeq(Cut(s_block, s_out, s_last), s_out - s_out + 1, o - s_out)
      BY <1>0, <2>1, CutPart
    <2> QED
      BY <1>2, <1>3, <2>1, <2>2
  <1>5. Cut(s_block, o, s_last) = SubSeq(p, k + 1, Len(p))
    <2>1. s_last \in s_out .. s_last /\ o \in s_out .. s_last
      BY <1>0
    <2>2. Cut(s_block, o, s_last) = SubSeq(Cut(s_block, s_out, s_last), o - s_out + 1, s_last - s_out)
      BY <1>0, <2>1, CutPart
    <2> QED
      BY <1>2, <1>3, <2>2
  <1>6. Cut(s_block, s_in, o) = Cut(s_block, s_in, s_out) \o Cut(s_block, s_out, o)
    <2>1. o \in 0 .. Limit /\ s_out \in 0 .. o
      BY <1>0
    <2> QED
      BY <1>0, <2>1, CutConcat
  <1>7. Static!data' = Static!data \o SubSeq(Static!prepared, 1, k)
    BY <1>1, <1>2, <1>4, <1>6, StaticView, StaticViewNext
  <1>8. Static!prepared' = SubSeq(Static!prepared, k + 1, Len(Static!prepared))
    BY <1>1, <1>2, <1>5, StaticViewNext
  <1> QED
    <2>1. Static!DB!CommitKeepsRest(n)
      BY <1>2, <1>3, <1>7, <1>8 DEF Static!DB!CommitKeepsRest
    <2>2. ASSUME n >= Len(p) PROVE Static!DB!Commit(n)
      <3>1. k = Len(p)
        <4>1. Len(p) \in Nat
          BY LenProperties
        <4> QED
          BY <1>0, <1>3, <2>2, <4>1 DEF Static!DB!Least
      <3>2. Static!prepared' = << >>
        BY <1>2, <1>8, <3>1, RestEmpty
      <3> QED
        BY <1>2, <1>3, <1>7, <3>2 DEF Static!DB!Commit
    <2> QED
      BY <1>2, <2>1, <2>2 DEF Static!DB!CommitOrKeep

\* consume() of a static buffer removes the first octets of the input sequence and keeps the
\* output sequence.
LEMMA StaticConsumeConforms ==
  ASSUME StaticInv, StaticInv', NEW n \in Sizes, Static!consume(n)
  PROVE  Static!DB!Consume(n) /\ Static!prepared' = Static!prepared
  <1>0. /\ n \in Nat /\ Limit \in Nat /\ s_block \in Blocks
        /\ s_out \in 0 .. Limit /\ s_in \in 0 .. s_out
    BY Constants, StaticView
  <1>1. PICK d \in Seq(Cells) : d = Static!data /\ d = Cut(s_block, s_in, s_out) /\ Len(d) = s_out - s_in
    BY StaticView
  <1>2. PICK i \in s_in .. s_out : /\ s_in' = i /\ i = s_in + Static!Least(n, s_out - s_in)
                                   /\ s_out' = s_out /\ s_last' = s_last /\ s_block' = s_block
    <2>0. PICK z \in Nat : z = s_out - s_in
      BY <1>0
    <2>1. PICK k \in 0 .. s_out - s_in : k = Static!Least(n, s_out - s_in)
      <3>1. CASE n <= z
        BY <1>0, <2>0, <3>1 DEF Static!Least
      <3>2. CASE n > z
        <4>1. z \in 0 .. s_out - s_in
          BY <2>0
        <4>2. ~(n <= z)
          BY <1>0, <3>2
        <4>3. z = Static!Least(n, z)
          BY <4>2 DEF Static!Least
        <4> QED
          BY <2>0, <4>1, <4>3
      <3> QED
        BY <1>0, <3>1, <3>2
    <2>2. s_in + k \in s_in .. s_out
      BY <1>0
    <2> QED
      BY <2>1, <2>2 DEF Static!consume
  <1>3. i - s_in = Static!DB!Least(n, Len(d))
    BY <1>0, <1>1, <1>2 DEF Static!DB!Least, Static!Least
  <1>4. Cut(s_block, i, s_out) = SubSeq(d, i - s_in + 1, Len(d))
    <2>1. s_out \in s_in .. s_out
      BY <1>0
    <2> QED
      BY <1>0, <1>1, <2>1, CutPart
  <1>5. Static!data' = SubSeq(d, i - s_in + 1, Len(d))
    BY <1>2, <1>4, StaticViewNext
  <1>6. Static!prepared' = Static!prepared
    BY <1>2, StaticView, StaticViewNext
  <1>7. Static!prepared' \in Seq(Cells) /\ Len(Static!data') + Len(Static!prepared') <= Limit
    <2>1. PICK j \in Nat, o \in Nat, l \in Nat : j = s_in' /\ o = s_out' /\ l = s_last' /\ l <= Limit
      BY StaticViewNext, Constants
    <2>2. /\ Static!prepared' \in Seq(Cells) /\ Len(Static!prepared') = l - o
          /\ Len(Static!data') = o - j
      BY <2>1, StaticViewNext
    <2> QED
      BY <2>1, <2>2, AreasFit
  <1> QED
    BY <1>1, <1>3, <1>5, <1>6, <1>7 DEF Static!DB!Consume, Cells

\* Every call on a static buffer conforms.
LEMMA StaticConforms ==
  ASSUME StaticInv, StaticInv'
  PROVE  Static!CallConforms
  <1>1. ASSUME Static!reset PROVE Static!DB!Clear
    <2>1. s_in' = 0 /\ s_out' = 0 /\ s_last' = 0
      BY <1>1 DEF Static!reset
    <2>2. /\ Static!data' \in Seq(Cells) /\ Len(Static!data') = 0
          /\ Static!prepared' \in Seq(Cells) /\ Len(Static!prepared') = 0
      BY <2>1, StaticViewNext
    <2>3. Static!data' = << >> /\ Static!prepared' = << >>
      BY <2>2, EmptySeq
    <2> QED
      BY <2>3 DEF Static!DB!Clear
  <1> QED
    BY <1>1, StaticPrepareConforms, StaticWriteConforms, StaticCommitConforms, StaticConsumeConforms
       DEF Static!CallConforms

-----------------------------------------------------------------------------
\* The inductive invariant of a program that uses a flat or a static buffer.
BlockInv ==
  /\ kind \in {"flat", "static"}
  /\ kind = "flat" => FlatInv
  /\ kind = "static" => StaticInv

\* BlockInv holds at first.
LEMMA BlockInvInit ==
  ASSUME Kinds \subseteq {"flat", "static"}, Init
  PROVE  BlockInv
  <1>1. FlatInv
    <2>1. f_block \in [Flat!Index -> Octets \cup {Uninit}]
      BY BlankType DEF Init, Flat!Init
    <2> QED
      BY <2>1, Constants DEF Init, Flat!Init, FlatInv, Flat!TypeOK, Flat!PointersInOrder
  <1>2. StaticInv
    <2>1. s_block \in [Static!Index -> Octets \cup {Uninit}]
      BY DEF Init, Static!Init
    <2>2. s_threw \in BOOLEAN
      BY DEF Init, Static!Init
    <2> QED
      BY <2>1, <2>2, Constants DEF Init, Static!Init, StaticInv, Static!TypeOK, Static!PointersInOrder
  <1> QED
    BY <1>1, <1>2 DEF Init, BlockInv

\* Every step keeps BlockInv.
LEMMA BlockInvStep ==
  ASSUME BlockInv, [Next]_vars
  PROVE  BlockInv'
  <1>1. CASE UNCHANGED vars
    <2>1. kind' = kind /\ UNCHANGED flatVars /\ UNCHANGED staticVars
      BY <1>1 DEF vars
    <2>2. FlatInv => FlatInv'
      BY <2>1 DEF flatVars, FlatInv, Flat!TypeOK, Flat!PointersInOrder, Flat!Index
    <2>3. StaticInv => StaticInv'
      BY <2>1 DEF staticVars, StaticInv, Static!TypeOK, Static!PointersInOrder, Static!Index
    <2> QED
      BY <2>1, <2>2, <2>3 DEF BlockInv
  <1>2. CASE Next
    <2>1. kind' = kind /\ (kind = "flat" => Flat!Next) /\ (kind = "static" => Static!Next)
      BY <1>2 DEF Next
    <2> QED
      BY <2>1, FlatInvStep, StaticInvStep DEF BlockInv
  <1> QED
    BY <1>1, <1>2

\* The pointers of a flat and of a static buffer are in order and inside the storage, for every
\* limit, smallest block and set of octets: over any sequence of calls, the output area that
\* prepare() returned is memory of the block.
THEOREM PointersStayInOrder ==
  ASSUME Kinds \subseteq {"flat", "static"}
  PROVE  Spec => []PointersInOrder
  <1>1. Init => BlockInv
    BY BlockInvInit
  <1>2. BlockInv /\ [Next]_vars => BlockInv'
    BY BlockInvStep
  <1>3. BlockInv => PointersInOrder
    BY DEF BlockInv, PointersInOrder, TypeOK, FlatInv, StaticInv
  <1> QED
    BY <1>1, <1>2, <1>3, PTL DEF Spec

\* Unless a flat buffer is full, a composed read asks it for at least one octet, and for no more
\* than prepare() can return: read_size_helper() neither stalls a read nor makes it throw.
THEOREM ReadSizesFit ==
  ASSUME Kinds \subseteq {"flat", "static"}
  PROVE  Spec => []ReadSizeFits
  <1>1. Init => BlockInv
    BY BlockInvInit
  <1>2. BlockInv /\ [Next]_vars => BlockInv'
    BY BlockInvStep
  <1>3. BlockInv => ReadSizeFits
    <2>1. ASSUME FlatInv PROVE Flat!ReadSizeFits
      BY <2>1, Constants DEF FlatInv, Flat!TypeOK, Flat!PointersInOrder, Flat!ReadSizeFits,
         Flat!read_size_helper, Flat!Least, Flat!size, Flat!capacity
    <2> QED
      BY <2>1 DEF BlockInv, ReadSizeFits
  <1> QED
    BY <1>1, <1>2, <1>3, PTL DEF Spec

\* Every call on a flat and on a static buffer does to the sequences the pointers delimit what
\* the DynamicBuffer concept says, in all but two points, which the theorem gives exactly: a
\* commit() of a part of the output sequence keeps the rest, which the concept discards, and
\* prepare() of a static buffer throws for n octets if and only if n and the octets consumed
\* exceed the room, where the concept does not count the octets consumed.  prepare() of a
\* flat buffer throws exactly where the concept says so; reallocation, memmove, moves and
\* copies keep the input sequence, commit() appends the written octets, consume() removes
\* the first ones.
THEOREM CallsImplement ==
  ASSUME Kinds \subseteq {"flat", "static"}
  PROVE  Spec => CallsConform
  <1>1. Init => BlockInv
    BY BlockInvInit
  <1>2. BlockInv /\ [Next]_vars => BlockInv'
    BY BlockInvStep
  <1>3. BlockInv /\ BlockInv' /\ [Next]_vars
        => [/\ kind = "flat" => Flat!CallConforms
            /\ kind = "static" => Static!CallConforms
            /\ kind = "multi" => Multi!CallConforms /\ Multi!CapacityIsThere
            /\ kind = "adapter" => Adapter!CallConforms]_vars
    <2> SUFFICES ASSUME BlockInv, BlockInv', Next
                 PROVE  (kind = "flat" => Flat!CallConforms) /\ (kind = "static" => Static!CallConforms)
      BY DEF BlockInv
    <2>1. kind' = kind
      BY DEF Next
    <2> QED
      BY <2>1, FlatConforms, StaticConforms DEF BlockInv
  <1> QED
    BY <1>1, <1>2, <1>3, PTL DEF Spec, CallsConform
=============================================================================
