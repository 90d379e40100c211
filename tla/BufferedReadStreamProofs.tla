---------------------- MODULE BufferedReadStreamProofs ----------------------
(***************************************************************************)
(* buffered_read_stream, for every shape of the buffers, every capacity,    *)
(* every size of the reads and any number of copies of the handler: at any *)
(* time at most one asynchronous read has memory from its handler's hooks, *)
(* and a reader sees the octets of the peer in order, each once, and the   *)
(* end behind them.  The second rests on what consuming_buffers and         *)
(* buffer_prefix do, proved by induction over the buffers.                  *)
(***************************************************************************)
EXTENDS BufferedReadStream, NatInduction

-----------------------------------------------------------------------------
(* The memory of the reads                                                 *)

Pointers == [n : Nat, t : BOOLEAN]

\* A read that is under way holds its state, and the pointer of the read whose
\* handler runs has given its state back.
MemoryInv ==
  /\ ptr \in Pointers /\ old \in Pointers
  /\ ~old.t
  /\ op.state # "none" => ptr.t

\* A copy of a handler_ptr shares the state, invoke() gives it back, and a copy
\* that is destroyed frees it only if it is the last.
LEMMA PointerFacts ==
  /\ null \in Pointers /\ ~null.t
  /\ P \in Pointers /\ P.t
  /\ \A p \in Pointers :
       /\ copy_ptr(p) \in Pointers /\ copy_ptr(p).t = p.t
       /\ invoke(p) \in Pointers /\ ~invoke(p).t
       /\ drop_ptr(p) \in Pointers
       /\ p.n > 1 => drop_ptr(p).t = p.t
       /\ ~p.t => ~drop_ptr(p).t
<1>1. null \in Pointers /\ ~null.t /\ P \in Pointers /\ P.t
  BY DEF Pointers, null, P
<1>2. ASSUME NEW p \in Pointers
      PROVE  /\ copy_ptr(p) \in Pointers /\ copy_ptr(p).t = p.t
             /\ invoke(p) \in Pointers /\ ~invoke(p).t
  <2>1. PICK n \in Nat, t \in BOOLEAN : p = [n |-> n, t |-> t]
    BY DEF Pointers
  <2>2. copy_ptr(p) = [n |-> n + 1, t |-> t] /\ n + 1 \in Nat
    BY <2>1 DEF copy_ptr
  <2>3. copy_ptr(p) \in Pointers /\ copy_ptr(p).t = p.t
    <3>1. [n |-> n + 1, t |-> t].t = t /\ [n |-> n, t |-> t].t = t
      OBVIOUS
    <3>2. [n |-> n + 1, t |-> t] \in Pointers
      BY <2>2 DEF Pointers
    <3> QED
      BY <2>1, <2>2, <3>1, <3>2, Zenon
  <2>4. invoke(p) \in Pointers /\ ~invoke(p).t
    BY DEF Pointers, invoke
  <2> QED
    BY <2>3, <2>4
<1>3. ASSUME NEW p \in Pointers
      PROVE  /\ drop_ptr(p) \in Pointers
             /\ p.n > 1 => drop_ptr(p).t = p.t
             /\ ~p.t => ~drop_ptr(p).t
  BY <1>1 DEF Pointers, drop_ptr
<1> QED
  BY <1>1, <1>2, <1>3

\* No read is under way at the beginning.
LEMMA MemoryInit == Init => MemoryInv
<1>1. NoRead.state = "none"
  BY DEF NoRead
<1> QED
  BY <1>1, PointerFacts, Zenon DEF Init, MemoryInv

\* When a handler is called the memory of its operation is back (handler_ptr::invoke).
LEMMA UpcallGivesBack == MemoryInv /\ Upcall => MemoryInv'
<1> SUFFICES ASSUME MemoryInv, Upcall PROVE MemoryInv'
  OBVIOUS
<1>1. op'.state = "none"
  BY DEF Upcall, NoRead
<1>2. old' = invoke(ptr) /\ ptr' = null /\ ptr \in Pointers
  BY DEF MemoryInv, Upcall
<1>3. old' \in Pointers /\ ~old'.t /\ ptr' \in Pointers
  BY <1>2, PointerFacts, Zenon
<1> QED
  BY <1>1, <1>3, Zenon DEF MemoryInv

\* Steps that touch neither the operation nor its pointers.
LEMMA PointersUntouched == MemoryInv /\ UNCHANGED <<op, ptr, old>> => MemoryInv'
  BY DEF MemoryInv

\* Every step of a program, of asio and of the peer keeps the invariant.
LEMMA MemoryStep == MemoryInv /\ [Next]_vars => MemoryInv'
<1> SUFFICES ASSUME MemoryInv, [Next]_vars PROVE MemoryInv'
  OBVIOUS
<1>1. ASSUME NEW n \in Limits, ReadSome(n) PROVE MemoryInv'
  BY <1>1, PointersUntouched DEF ReadSome
<1>2. ASSUME NEW n \in Limits, AsyncReadSome(n) PROVE MemoryInv'
  BY <1>2, PointerFacts DEF AsyncReadSome, MemoryInv
<1>3. ASSUME NEW n \in Limits, WriteFrame(n) PROVE MemoryInv'
  BY <1>3, PointersUntouched DEF WriteFrame, readVars
<1>4. ASSUME NEW c \in Capacities, SetCapacity(c) PROVE MemoryInv'
  BY <1>4, PointersUntouched DEF SetCapacity, readVars
<1>5. CASE ReadPosted
  BY <1>5, UpcallGivesBack DEF ReadPosted
<1>6. CASE ReadBuffered
  BY <1>6, UpcallGivesBack DEF ReadBuffered
<1>7. CASE ReadDirect
  BY <1>7, UpcallGivesBack DEF ReadDirect
<1>8. CASE ReadEof
  BY <1>8, UpcallGivesBack DEF ReadEof
<1>9. CASE HandlerReturns
  BY <1>9, PointerFacts DEF HandlerReturns, MemoryInv
<1>10. CASE CopyHandler
  BY <1>10, PointerFacts DEF CopyHandler, MemoryInv
<1>11. CASE DropHandler
  BY <1>11, PointerFacts DEF DropHandler, MemoryInv
<1>12. CASE Send
  BY <1>12, PointersUntouched DEF Send, readVars
<1>13. CASE End
  BY <1>13, PointersUntouched DEF End, readVars
<1>14. CASE UNCHANGED vars
  BY <1>14, PointersUntouched DEF vars
<1> QED
  BY <1>1, <1>2, <1>3, <1>4, <1>5, <1>6, <1>7, <1>8, <1>9, <1>10, <1>11, <1>12, <1>13, <1>14
  DEF Next, Handlers

\* A handler whose hooks have memory for one operation can start the next read from
\* within its call: invoke() of handler_ptr frees the state before the upcall, and no
\* copy asio makes or destroys frees the state of the read that is under way.
THEOREM OneAllocationAtATime == Spec => []OneAllocation
<1>1. MemoryInv => OneAllocation
  BY DEF MemoryInv, OneAllocation
<1> QED
  BY <1>1, MemoryInit, MemoryStep, PTL DEF Spec

-----------------------------------------------------------------------------
(* The octets of the peer, and chains: the buffers bs hold consecutive      *)
(* octets (or addresses), those of buffer i from f[i - 1] + 1 to f[i].     *)

\* A run of octets, what follows it and what is cut from it.
LEMMA OctetsFacts ==
  ASSUME NEW a, NEW b, a \in Nat, b \in Nat, a <= b
  PROVE  /\ Octets(a, b) \in Seq(Nat) /\ Len(Octets(a, b)) = b - a
         /\ \A i \in 1 .. b - a : Octets(a, b)[i] = a + i
  BY DEF Octets

\* What \o does, number by number.
LEMMA JoinFacts ==
  ASSUME NEW s, NEW t, s \in Seq(Nat), t \in Seq(Nat)
  PROVE  /\ s \o t \in Seq(Nat) /\ Len(s \o t) = Len(s) + Len(t)
         /\ \A i \in 1 .. Len(s) + Len(t) : (s \o t)[i] = IF i <= Len(s) THEN s[i] ELSE t[i - Len(s)]
  OBVIOUS

\* A run and the run behind it are one.
LEMMA OctetsJoin ==
  ASSUME NEW a, NEW b, NEW c, a \in Nat, b \in Nat, c \in Nat, a <= b, b <= c
  PROVE  Octets(a, b) \o Octets(b, c) = Octets(a, c)
  <1>1. Octets(a, b) \in Seq(Nat) /\ Len(Octets(a, b)) = b - a /\ \A i \in 1 .. b - a : Octets(a, b)[i] = a + i
    BY OctetsFacts
  <1>2. Octets(b, c) \in Seq(Nat) /\ Len(Octets(b, c)) = c - b /\ \A i \in 1 .. c - b : Octets(b, c)[i] = b + i
    BY OctetsFacts
  <1>3. Octets(a, c) = [i \in 1 .. c - a |-> a + i]
    BY DEF Octets
  <1> DEFINE j == Octets(a, b) \o Octets(b, c)
  <1>j. /\ j \in Seq(Nat) /\ Len(j) = Len(Octets(a, b)) + Len(Octets(b, c))
        /\ \A i \in 1 .. Len(Octets(a, b)) + Len(Octets(b, c)) :
             j[i] = IF i <= Len(Octets(a, b)) THEN Octets(a, b)[i] ELSE Octets(b, c)[i - Len(Octets(a, b))]
    BY <1>1, <1>2, JoinFacts
  <1> HIDE DEF j
  <1>4. j \in Seq(Nat) /\ Len(j) = c - a
    BY <1>1, <1>2, <1>j
  <1>5. ASSUME NEW i \in 1 .. c - a PROVE j[i] = a + i
    <2>1. CASE i <= b - a
      BY <1>1, <1>2, <1>j, <2>1
    <2>2. CASE i > b - a
      <3>1. j[i] = Octets(b, c)[i - (b - a)] /\ i - (b - a) \in 1 .. c - b
        BY <1>1, <1>2, <1>j, <2>2
      <3> QED
        BY <1>2, <3>1
    <2> QED
      BY <2>1, <2>2
  <1>6. j = [i \in 1 .. c - a |-> j[i]]
    BY <1>4
  <1>7. j = [i \in 1 .. c - a |-> a + i]
    BY <1>5, <1>6
  <1> QED
    BY <1>3, <1>7 DEF j

\* The first k octets of a run, and the rest.
LEMMA OctetsCut ==
  ASSUME NEW a, NEW b, NEW k, a \in Nat, b \in Nat, k \in Nat, a <= b, k <= b - a
  PROVE  /\ SubSeq(Octets(a, b), 1, k) = Octets(a, a + k)
         /\ SubSeq(Octets(a, b), k + 1, b - a) = Octets(a + k, b)
  <1>1. Octets(a, b) \in Seq(Nat) /\ Len(Octets(a, b)) = b - a /\ \A i \in 1 .. b - a : Octets(a, b)[i] = a + i
    BY OctetsFacts
  <1> DEFINE l == SubSeq(Octets(a, b), 1, k)
             r == SubSeq(Octets(a, b), k + 1, b - a)
  <1>2. l \in Seq(Nat) /\ Len(l) = k /\ \A i \in 1 .. k : l[i] = a + i
    BY <1>1
  <1>3. r \in Seq(Nat) /\ Len(r) = b - a - k /\ \A i \in 1 .. b - a - k : r[i] = a + k + i
    BY <1>1
  <1> HIDE DEF l, r
  <1>4. l = [i \in 1 .. k |-> l[i]] /\ r = [i \in 1 .. b - a - k |-> r[i]]
    BY <1>2, <1>3
  <1>5. l = [i \in 1 .. k |-> a + i]
    BY <1>2, <1>4
  <1>6. r = [i \in 1 .. b - a - k |-> a + k + i]
    BY <1>3, <1>4
  <1>7. (a + k) - a = k /\ b - (a + k) = b - a - k
    OBVIOUS
  <1>8. Octets(a, a + k) = [i \in 1 .. k |-> a + i] /\ Octets(a + k, b) = [i \in 1 .. b - a - k |-> a + k + i]
    BY <1>7 DEF Octets
  <1> QED
    BY <1>5, <1>6, <1>8 DEF l, r

\* Only the run from a number to itself is empty.
LEMMA OctetsNone ==
  ASSUME NEW a, NEW b, a \in Nat, b \in Nat, a <= b
  PROVE  Octets(a, b) = <<>> <=> a = b
  BY OctetsFacts

\* A buffer, as the sequence of what it holds.
Buffer == Seq(Nat)

Chain(bs, f) ==
  /\ bs \in Seq(Buffer) /\ f \in [0 .. Len(bs) -> Nat]
  /\ \A i \in 1 .. Len(bs) : f[i - 1] <= f[i] /\ bs[i] = Octets(f[i - 1], f[i])

\* The borders grow.
LEMMA ChainGrows ==
  ASSUME NEW bs, NEW f, NEW a, NEW b, Chain(bs, f), a \in 0 .. Len(bs), b \in 0 .. Len(bs), a <= b
  PROVE  f[a] <= f[b]
  <1>0. Len(bs) \in Nat /\ f \in [0 .. Len(bs) -> Nat] /\ \A i \in 1 .. Len(bs) : f[i - 1] <= f[i]
    BY DEF Chain
  <1> DEFINE H == {x \in Nat : a + x <= Len(bs) => f[a] <= f[a + x]}
  <1>1. 0 \in H
    BY <1>0
  <1>2. ASSUME NEW x \in H PROVE x + 1 \in H
    <2>1. SUFFICES ASSUME a + (x + 1) <= Len(bs) PROVE f[a] <= f[a + (x + 1)]
      OBVIOUS
    <2>2. f[a] <= f[a + x] /\ a + x \in 0 .. Len(bs)
      BY <1>0, <2>1
    <2>3. PICK y : y = a + x + 1
      OBVIOUS
    <2>4. y \in 1 .. Len(bs) /\ y - 1 = a + x /\ a + (x + 1) = y
      BY <1>0, <2>1, <2>3
    <2>5. f[y - 1] <= f[y]
      BY <1>0, <2>4
    <2>6. y \in 0 .. Len(bs) /\ a \in 0 .. Len(bs)
      BY <1>0, <2>4
    <2>7. f[a] \in Nat /\ f[y] \in Nat
      BY <1>0, <2>6
    <2>8. f[a + x] \in Nat
      BY <1>0, <2>2
    <2>9. f[a + x] <= f[y]
      BY <2>4, <2>5
    <2> QED
      BY <2>2, <2>4, <2>7, <2>8, <2>9
  <1>3. H = Nat
    <2> HIDE DEF H
    <2>1. H \in SUBSET Nat
      BY DEF H
    <2> QED
      BY <1>1, <1>2, <2>1, NatBySuccessor
  <1>4. b - a \in Nat /\ a + (b - a) = b
    BY <1>0
  <1>5. b - a \in H
    <2> HIDE DEF H
    <2> QED
      BY <1>3, <1>4
  <1> QED
    BY <1>0, <1>4, <1>5

\* FlattenSeq of a chain is one run.
LEMMA FlattenChain ==
  ASSUME NEW bs, NEW f, Chain(bs, f)
  PROVE  /\ FlattenSeq(bs) = Octets(f[0], f[Len(bs)])
         /\ f[0] \in Nat /\ f[Len(bs)] \in Nat /\ f[0] <= f[Len(bs)] /\ Len(bs) \in Nat
  <1>0. /\ Len(bs) \in Nat /\ f \in [0 .. Len(bs) -> Nat] /\ bs \in Seq(Buffer)
        /\ \A i \in 1 .. Len(bs) : f[i - 1] <= f[i] /\ bs[i] = Octets(f[i - 1], f[i])
    BY DEF Chain
  <1>1. f[0] \in Nat /\ f[Len(bs)] \in Nat /\ f[0] <= f[Len(bs)]
    <2>1. 0 \in 0 .. Len(bs) /\ Len(bs) \in 0 .. Len(bs) /\ 0 <= Len(bs)
      BY <1>0
    <2>2. f[0] <= f[Len(bs)]
      BY <2>1, ChainGrows
    <2> QED
      BY <1>0, <2>1, <2>2
  <1>2. CASE Len(bs) = 0
    <2>1. FlattenSeq(bs) = <<>>
      BY <1>0, <1>2 DEF FlattenSeq
    <2>2. Octets(f[0], f[Len(bs)]) = <<>>
      BY <1>1, <1>2, OctetsNone
    <2> QED
      BY <1>0, <1>1, <2>1, <2>2
  <1>3. CASE Len(bs) # 0
    <2> DEFINE Is(h) == h = [i \in 1 .. Len(bs) |-> IF i = 1 THEN bs[i] ELSE h[i - 1] \o bs[i]]
               u == CHOOSE h : Is(h)
               g == [i \in 1 .. Len(bs) |-> Octets(f[0], f[i])]
    <2>1. FlattenSeq(bs) = u[Len(bs)]
      BY <1>3 DEF FlattenSeq
    <2>2. ASSUME NEW i \in 1 .. Len(bs)
          PROVE  Octets(f[0], f[i]) = IF i = 1 THEN bs[i] ELSE Octets(f[0], f[i - 1]) \o bs[i]
      <3>1. f[i - 1] \in Nat /\ f[i] \in Nat /\ f[i - 1] <= f[i] /\ bs[i] = Octets(f[i - 1], f[i])
        <4>1. i - 1 \in 0 .. Len(bs) /\ i \in 0 .. Len(bs)
          BY <1>0
        <4> QED
          BY <1>0, <4>1
      <3>2. CASE i = 1
        BY <3>1, <3>2
      <3>3. CASE i # 1
        <4>1. f[0] <= f[i - 1]
          <5>1. i - 1 \in 0 .. Len(bs) /\ 0 \in 0 .. Len(bs) /\ 0 <= i - 1
            BY <1>0
          <5> QED
            BY <5>1, ChainGrows
        <4>2. Octets(f[0], f[i - 1]) \o Octets(f[i - 1], f[i]) = Octets(f[0], f[i])
          BY <1>1, <3>1, <4>1, OctetsJoin
        <4> QED
          BY <3>1, <3>3, <4>2
      <3> QED
        BY <3>2, <3>3
    <2>3. Is(g)
      <3>1. ASSUME NEW i \in 1 .. Len(bs) PROVE g[i] = IF i = 1 THEN bs[i] ELSE g[i - 1] \o bs[i]
        <4>1. g[i] = Octets(f[0], f[i])
          OBVIOUS
        <4>2. i # 1 => g[i - 1] = Octets(f[0], f[i - 1])
          BY <1>0
        <4> HIDE DEF g
        <4> QED
          BY <2>2, <4>1, <4>2
      <3>2. g = [i \in 1 .. Len(bs) |-> g[i]]
        OBVIOUS
      <3> HIDE DEF g
      <3> QED
        BY <3>1, <3>2
    <2>4. Is(u)
      BY <2>3
    <2> HIDE DEF u, g
    <2> DEFINE H == {x \in Nat : x + 1 <= Len(bs) => u[x + 1] = Octets(f[0], f[x + 1])}
    <2>5. 0 \in H
      <3>1. u[1] = bs[1]
        BY <1>0, <1>3, <2>4
      <3>2. 1 \in 1 .. Len(bs)
        BY <1>0, <1>3
      <3> QED
        BY <2>2, <3>1, <3>2
    <2>6. ASSUME NEW x \in H PROVE x + 1 \in H
      <3>1. SUFFICES ASSUME NEW y, y = x + 2, y <= Len(bs) PROVE u[y] = Octets(f[0], f[y])
        OBVIOUS
      <3>2. y \in 1 .. Len(bs) /\ y # 1 /\ y - 1 = x + 1 /\ x + 1 <= Len(bs)
        BY <1>0, <3>1
      <3>3. u[x + 1] = Octets(f[0], f[x + 1])
        BY <3>2
      <3>4. u[y] = u[y - 1] \o bs[y]
        BY <2>4, <3>2
      <3>5. Octets(f[0], f[y]) = Octets(f[0], f[y - 1]) \o bs[y]
        BY <2>2, <3>2
      <3> QED
        BY <3>2, <3>3, <3>4, <3>5
    <2>7. H = Nat
      <3> HIDE DEF H
      <3>1. H \in SUBSET Nat
        BY DEF H
      <3> QED
        BY <2>5, <2>6, <3>1, NatBySuccessor
    <2>8. Len(bs) - 1 \in H /\ (Len(bs) - 1) + 1 = Len(bs)
      <3>1. Len(bs) - 1 \in Nat /\ (Len(bs) - 1) + 1 = Len(bs)
        BY <1>0, <1>3
      <3> HIDE DEF H
      <3> QED
        BY <2>7, <3>1
    <2>9. u[Len(bs)] = Octets(f[0], f[Len(bs)])
      BY <1>0, <2>8
    <2> QED
      BY <1>0, <1>1, <2>1, <2>9
  <1> QED
    BY <1>2, <1>3

-----------------------------------------------------------------------------
(* Loops over the buffers from a on, that end at the first k with stop[k]  *)
(* and give val[k].                                                        *)

Search(a, b, stop, val, at) == at = [k \in a .. b |-> IF stop[k] THEN val[k] ELSE at[k + 1]]

First(k, j, stop) == stop[j] /\ \A i \in k .. j - 1 : ~stop[i]

\* There is a first place to stop, and only one.
LEMMA FirstExists ==
  ASSUME NEW k, NEW b, NEW stop, k \in Nat, b \in Nat, k <= b, stop[b]
  PROVE  \E j \in k .. b : First(k, j, stop)
  <1> DEFINE H == {j \in Nat : j \in k .. b /\ stop[j]}
  <1>1. b \in H
    OBVIOUS
  <1>2. PICK j \in H : \A i \in H : <<i, j>> \notin Less
    <2>1. H \subseteq Nat /\ H # {}
      BY <1>1
    <2> HIDE DEF H
    <2> QED
      BY <2>1, LessWellFounded, WFMin
  <1>3. j \in k .. b /\ stop[j] /\ j \in Nat
    OBVIOUS
  <1>4. ASSUME NEW i \in k .. j - 1, stop[i] PROVE FALSE
    <2>1. i \in H /\ <<i, j>> \in Less
      BY <1>3, <1>4 DEF Less
    <2> QED
      BY <1>2, <2>1
  <1> QED
    BY <1>3, <1>4 DEF First

\* A loop stops at one place only.
LEMMA FirstUnique ==
  ASSUME NEW k, NEW i, NEW j, NEW stop, k \in Nat, i \in Nat, j \in Nat, k <= i, k <= j,
         First(k, i, stop), First(k, j, stop)
  PROVE  i = j
  <1>1. CASE i < j
    BY <1>1 DEF First
  <1>2. CASE j < i
    BY <1>2 DEF First
  <1> QED
    BY <1>1, <1>2

\* The loop is a function.
LEMMA SearchExists ==
  ASSUME NEW a, NEW b, NEW stop, NEW val, a \in Nat, b \in Nat, stop[b]
  PROVE  \E at : Search(a, b, stop, val, at)
  <1> DEFINE first(k) == CHOOSE j \in k .. b : First(k, j, stop)
             at == [k \in a .. b |-> val[first(k)]]
  <1>1. ASSUME NEW k \in a .. b PROVE first(k) \in k .. b /\ First(k, first(k), stop)
    <2>0. k \in Nat /\ k <= b
      OBVIOUS
    <2>1. \E j \in k .. b : First(k, j, stop)
      BY <2>0, FirstExists
    <2> QED
      BY <2>1
  <1>2. ASSUME NEW k \in a .. b PROVE at[k] = IF stop[k] THEN val[k] ELSE at[k + 1]
    <2>1. at[k] = val[first(k)] /\ first(k) \in k .. b /\ First(k, first(k), stop)
      BY <1>1
    <2>2. CASE stop[k]
      <3>1. First(k, k, stop)
        BY <2>2 DEF First
      <3>2. PICK j : j = first(k)
        OBVIOUS
      <3> HIDE DEF first, at
      <3>3. j = k
        BY <2>1, <3>1, <3>2, FirstUnique
      <3> QED
        BY <2>1, <2>2, <3>2, <3>3
    <2>3. CASE ~stop[k]
      <3>1. k + 1 \in a .. b
        <4>1. k # b
          BY <2>3
        <4> QED
          BY <4>1
      <3>2. at[k + 1] = val[first(k + 1)] /\ first(k + 1) \in k + 1 .. b /\ First(k + 1, first(k + 1), stop)
        BY <1>1, <3>1
      <3>3. PICK i, j : i = first(k) /\ j = first(k + 1)
        OBVIOUS
      <3> HIDE DEF first, at
      <3>4. First(k, j, stop)
        <4>1. \A x \in k .. j - 1 : x = k \/ x \in k + 1 .. j - 1
          OBVIOUS
        <4> QED
          BY <2>3, <3>2, <3>3, <4>1 DEF First
      <3>5. i = j
        <4>1. i \in Nat /\ j \in Nat /\ k <= i /\ k <= j /\ k \in Nat /\ First(k, i, stop)
          BY <2>1, <3>2, <3>3
        <4> QED
          BY <3>4, <4>1, FirstUnique
      <3> QED
        BY <2>1, <2>3, <3>2, <3>3, <3>5
    <2> QED
      BY <2>2, <2>3
  <1>3. at = [k \in a .. b |-> at[k]]
    OBVIOUS
  <1> HIDE DEF at
  <1>4. Search(a, b, stop, val, at)
    BY <1>2, <1>3 DEF Search
  <1> QED
    BY <1>4

\* Started at a it gives the value of the first place to stop.
LEMMA SearchFinds ==
  ASSUME NEW a, NEW b, NEW stop, NEW val, NEW at,
         a \in Nat, b \in Nat, a <= b, stop[b], Search(a, b, stop, val, at)
  PROVE  \E j \in a .. b : First(a, j, stop) /\ at[a] = val[j]
  <1>1. PICK j \in a .. b : First(a, j, stop)
    BY FirstExists
  <1>2. \A k \in a .. b : at[k] = IF stop[k] THEN val[k] ELSE at[k + 1]
    BY DEF Search
  <1> DEFINE H == {x \in Nat : a + x <= j => at[a + x] = at[a]}
  <1>3. 0 \in H
    OBVIOUS
  <1>4. ASSUME NEW x \in H PROVE x + 1 \in H
    <2>1. SUFFICES ASSUME NEW y, y = a + x, y + 1 <= j PROVE at[y + 1] = at[a]
      OBVIOUS
    <2>2. at[y] = at[a] /\ y \in a .. j - 1 /\ y \in a .. b
      BY <2>1
    <2>3. ~stop[y]
      BY <1>1, <2>2 DEF First
    <2> QED
      BY <1>2, <2>2, <2>3
  <1>5. H = Nat
    <2> HIDE DEF H
    <2>1. H \in SUBSET Nat
      BY DEF H
    <2> QED
      BY <1>3, <1>4, <2>1, NatBySuccessor
  <1>6. j - a \in Nat /\ a + (j - a) = j
    OBVIOUS
  <1>7. j - a \in H
    <2> HIDE DEF H
    <2> QED
      BY <1>5, <1>6
  <1>8. at[j] = at[a]
    BY <1>6, <1>7
  <1>9. at[j] = val[j]
    BY <1>1, <1>2 DEF First
  <1> QED
    BY <1>1, <1>8, <1>9

-----------------------------------------------------------------------------
(* The buffers of a destination                                            *)

Offsets(shape, n, f) == f = [i \in 1 .. n |-> IF i = 1 THEN 0 ELSE f[i - 1] + shape[i - 1]]

\* A function on 1 .. n is a sequence.
LEMMA SeqIntro ==
  ASSUME NEW S, NEW n, NEW s, n \in Nat, s \in [1 .. n -> S]
  PROVE  s \in Seq(S) /\ Len(s) = n
  OBVIOUS

\* Where each buffer begins is a function.
LEMMA OffsetsExist ==
  ASSUME NEW shape, NEW n, n \in Nat
  PROVE  \E f : Offsets(shape, n, f)
  <1> DEFINE Is(x, f) == f = [i \in 1 .. x |-> IF i = 1 THEN 0 ELSE f[i - 1] + shape[i - 1]]
             H == {x \in Nat : \E f : Is(x, f)}
  <1>1. 0 \in H
    <2>1. Is(0, [i \in 1 .. 0 |-> 0])
      OBVIOUS
    <2> QED
      BY <2>1
  <1>2. ASSUME NEW x \in H PROVE x + 1 \in H
    <2>1. PICK f : Is(x, f)
      OBVIOUS
    <2>2. x \in Nat
      OBVIOUS
    <2> DEFINE g == [i \in 1 .. x + 1 |-> IF i = x + 1 THEN IF i = 1 THEN 0 ELSE f[x] + shape[x] ELSE f[i]]
    <2>3. ASSUME NEW i \in 1 .. x + 1 PROVE g[i] = IF i = 1 THEN 0 ELSE g[i - 1] + shape[i - 1]
      <3>1. CASE i \in 1 .. x
        <4>1. g[i] = f[i] /\ (i # 1 => g[i - 1] = f[i - 1])
          BY <2>2, <3>1
        <4>2. f[i] = IF i = 1 THEN 0 ELSE f[i - 1] + shape[i - 1]
          BY <2>1, <2>2, <3>1
        <4> HIDE DEF g
        <4> QED
          BY <4>1, <4>2
      <3>2. CASE i = x + 1
        <4>1. g[i] = (IF i = 1 THEN 0 ELSE f[x] + shape[x]) /\ (i # 1 => g[x] = f[x]) /\ i - 1 = x
          BY <2>2, <3>2
        <4> HIDE DEF g
        <4> QED
          BY <4>1
      <3> QED
        BY <2>2, <3>1, <3>2
    <2>4. Is(x + 1, g)
      <3>1. g = [i \in 1 .. x + 1 |-> g[i]]
        OBVIOUS
      <3> HIDE DEF g
      <3> QED
        BY <2>3, <3>1
    <2> HIDE DEF Is, g
    <2> QED
      BY <2>2, <2>4
  <1>3. H = Nat
    <2> HIDE DEF H
    <2>1. H \in SUBSET Nat
      BY DEF H
    <2> QED
      BY <1>1, <1>2, <2>1, NatBySuccessor
  <1>4. PICK f : Is(n, f)
    BY <1>3
  <1> QED
    BY <1>4 DEF Offsets

\* The buffers of a destination are a chain from address 1 on.
LEMMA BlocksChain ==
  ASSUME NEW shape, shape \in Seq(Nat)
  PROVE  \E f : Chain(Blocks(shape), f) /\ f[0] = 0
  <1> DEFINE n == Len(shape)
             from == CHOOSE f : Offsets(shape, n, f)
  <1>0. n \in Nat /\ \A i \in 1 .. n : shape[i] \in Nat
    OBVIOUS
  <1>1. Offsets(shape, n, from)
    <2>1. \E f : Offsets(shape, n, f)
      BY <1>0, OffsetsExist
    <2> QED
      BY <2>1
  <1>2. Blocks(shape) = [i \in 1 .. n |-> [j \in 1 .. shape[i] |-> from[i] + j]]
    BY DEF Blocks, Offsets
  <1> HIDE DEF n, from
  <1>3. \A i \in 1 .. n : from[i] = IF i = 1 THEN 0 ELSE from[i - 1] + shape[i - 1]
    BY <1>1 DEF Offsets
  <1> DEFINE H == {x \in Nat : x + 1 <= n => from[x + 1] \in Nat}
  <1>4. 0 \in H
    BY <1>0, <1>3
  <1>5. ASSUME NEW x \in H PROVE x + 1 \in H
    <2>1. SUFFICES ASSUME NEW y, y = x + 1, y + 1 <= n PROVE from[y + 1] \in Nat
      OBVIOUS
    <2>2. from[y] \in Nat /\ y \in 1 .. n /\ y + 1 \in 1 .. n /\ y + 1 # 1 /\ (y + 1) - 1 = y
      BY <1>0, <2>1
    <2>3. from[y + 1] = from[y] + shape[y]
      BY <1>3, <2>2
    <2> QED
      BY <1>0, <2>2, <2>3
  <1>6. H = Nat
    <2> HIDE DEF H
    <2>1. H \in SUBSET Nat
      BY DEF H
    <2> QED
      BY <1>4, <1>5, <2>1, NatBySuccessor
  <1>7. ASSUME NEW i \in 1 .. n PROVE from[i] \in Nat
    <2>1. i - 1 \in Nat /\ (i - 1) + 1 = i
      BY <1>0
    <2>2. i - 1 \in H
      <3> HIDE DEF H
      <3> QED
        BY <1>6, <2>1
    <2> QED
      BY <1>0, <2>1, <2>2
  <1> HIDE DEF H
  <1> DEFINE f == [i \in 0 .. n |-> IF i = 0 THEN 0 ELSE from[i] + shape[i]]
             bs == Blocks(shape)
  <1>8. f \in [0 .. n -> Nat] /\ f[0] = 0 /\ \A i \in 1 .. n : f[i] = from[i] + shape[i]
    BY <1>0, <1>7
  <1>9. ASSUME NEW i \in 1 .. n
        PROVE  f[i - 1] = from[i] /\ f[i - 1] <= f[i] /\ bs[i] = Octets(f[i - 1], f[i])
    <2>1. f[i] = from[i] + shape[i] /\ from[i] \in Nat /\ shape[i] \in Nat
      BY <1>0, <1>7, <1>8
    <2>2. f[i - 1] = from[i]
      <3>1. CASE i = 1
        BY <1>3, <1>8, <3>1
      <3>2. CASE i # 1
        <4>1. i - 1 \in 1 .. n
          BY <1>0, <3>2
        <4>2. f[i - 1] = from[i - 1] + shape[i - 1]
          BY <1>8, <4>1
        <4> QED
          BY <1>3, <3>2, <4>2
      <3> QED
        BY <3>1, <3>2
    <2>3. bs[i] = [j \in 1 .. shape[i] |-> from[i] + j]
      BY <1>2
    <2>4. f[i] - f[i - 1] = shape[i]
      BY <2>1, <2>2
    <2> HIDE DEF f, bs
    <2> QED
      BY <2>1, <2>2, <2>3, <2>4 DEF Octets
  <1> HIDE DEF f
  <1>10. bs \in Seq(Buffer) /\ Len(bs) = n
    <2>1. \A i \in 1 .. n : bs[i] \in Seq(Nat)
      <3>1. ASSUME NEW i \in 1 .. n PROVE bs[i] \in Seq(Nat)
        <4>1. i - 1 \in 0 .. n /\ i \in 0 .. n
          BY <1>0
        <4>2. f[i - 1] \in Nat /\ f[i] \in Nat /\ f[i - 1] <= f[i]
          BY <1>8, <1>9, <4>1
        <4> QED
          BY <1>9, <4>2, OctetsFacts
      <3> QED
        BY <3>1
    <2>2. bs = [i \in 1 .. n |-> bs[i]]
      BY <1>2
    <2> HIDE DEF bs
    <2>3. bs \in [1 .. n -> Buffer]
      BY <2>1, <2>2 DEF Buffer
    <2> QED
      BY <1>0, <2>3, SeqIntro
  <1> HIDE DEF bs
  <1>11. Chain(bs, f)
    BY <1>8, <1>9, <1>10 DEF Chain
  <1> QED
    BY <1>8, <1>11 DEF bs

-----------------------------------------------------------------------------
(* The views: bs holds, over all its buffers, what lies between a and b.   *)

Run(bs, a, b) == \E f : Chain(bs, f) /\ f[0] = a /\ f[Len(bs)] = b

\* Flattened, the buffers are the run.
LEMMA RunFlat ==
  ASSUME NEW bs, NEW a, NEW b, Run(bs, a, b)
  PROVE  /\ a \in Nat /\ b \in Nat /\ a <= b
         /\ FlattenSeq(bs) = Octets(a, b) /\ buffer_size(bs) = b - a
  <1>1. PICK f : Chain(bs, f) /\ f[0] = a /\ f[Len(bs)] = b
    BY DEF Run
  <1>2. a \in Nat /\ b \in Nat /\ a <= b /\ FlattenSeq(bs) = Octets(a, b)
    BY <1>1, FlattenChain
  <1>3. Len(Octets(a, b)) = b - a
    BY <1>2, OctetsFacts
  <1> QED
    BY <1>2, <1>3 DEF buffer_size

\* What SubSeq from the beginning does.
LEMMA FrontFacts ==
  ASSUME NEW S, NEW s, NEW k, s \in Seq(S), k \in 0 .. Len(s)
  PROVE  /\ SubSeq(s, 1, k) \in Seq(S) /\ Len(SubSeq(s, 1, k)) = k
         /\ \A i \in 1 .. k : SubSeq(s, 1, k)[i] = s[i]
  OBVIOUS

\* The first k buffers are a chain.
LEMMA ChainSize ==
  ASSUME NEW bs, NEW f, NEW k, Chain(bs, f), k \in 0 .. Len(bs)
  PROVE  Len(FlattenSeq(SubSeq(bs, 1, k))) = f[k] - f[0]
  <1>0. /\ Len(bs) \in Nat /\ f \in [0 .. Len(bs) -> Nat] /\ bs \in Seq(Buffer)
        /\ \A i \in 1 .. Len(bs) : f[i - 1] <= f[i] /\ bs[i] = Octets(f[i - 1], f[i])
    BY DEF Chain
  <1> DEFINE s == SubSeq(bs, 1, k)
             h == [i \in 0 .. k |-> f[i]]
  <1>1. s \in Seq(Buffer) /\ Len(s) = k /\ \A i \in 1 .. k : s[i] = bs[i]
    <2>1. bs \in Seq(Buffer)
      BY DEF Chain
    <2> QED
      BY <2>1, FrontFacts
  <1>2. h \in [0 .. k -> Nat] /\ \A i \in 0 .. k : h[i] = f[i]
    BY <1>0
  <1> HIDE DEF s, h
  <1>3. ASSUME NEW i \in 1 .. k PROVE h[i - 1] <= h[i] /\ s[i] = Octets(h[i - 1], h[i])
    <2>1. i \in 1 .. Len(bs) /\ i - 1 \in 0 .. k /\ i \in 0 .. k
      BY <1>0
    <2>2. h[i - 1] = f[i - 1] /\ h[i] = f[i] /\ s[i] = bs[i]
      BY <1>1, <1>2, <2>1
    <2> QED
      BY <1>0, <2>1, <2>2
  <1>4. Chain(s, h)
    BY <1>1, <1>2, <1>3 DEF Chain
  <1>5. FlattenSeq(s) = Octets(h[0], h[k]) /\ h[0] \in Nat /\ h[k] \in Nat /\ h[0] <= h[k]
    BY <1>1, <1>4, FlattenChain
  <1>6. Len(FlattenSeq(s)) = h[k] - h[0]
    BY <1>5, OctetsFacts
  <1>7. h[0] = f[0] /\ h[k] = f[k]
    BY <1>0, <1>2
  <1> QED
    BY <1>6, <1>7 DEF s

\* A prefix of n octets is the first n octets, or all if there are not as many.
LEMMA PrefixRun ==
  ASSUME NEW bs, NEW a, NEW b, NEW n, Run(bs, a, b), n \in Nat
  PROVE  Run(buffer_prefix(n, bs), a, IF a + n <= b THEN a + n ELSE b)
  <1>1. PICK f : Chain(bs, f) /\ f[0] = a /\ f[Len(bs)] = b
    BY DEF Run
  <1>2. PICK L : L = Len(bs)
    OBVIOUS
  <1>3. /\ L \in Nat /\ f \in [0 .. L -> Nat] /\ bs \in Seq(Buffer)
        /\ \A i \in 1 .. L : f[i - 1] <= f[i] /\ bs[i] = Octets(f[i - 1], f[i])
    BY <1>1, <1>2 DEF Chain
  <1>4. a \in Nat /\ b \in Nat /\ a <= b
    BY RunFlat
  <1> DEFINE Model(h) ==
               h = [k \in 1 .. Len(bs) + 1 |->
                     IF k > Len(bs) THEN [back |-> k, end |-> k, size |-> 0]
                     ELSE IF n - Len(FlattenSeq(SubSeq(bs, 1, k - 1))) <= Len(bs[k])
                     THEN [back |-> k, end |-> k + 1, size |-> n - Len(FlattenSeq(SubSeq(bs, 1, k - 1)))]
                     ELSE h[k + 1]]
             stop == [k \in 1 .. L + 1 |-> k > L \/ n - (f[k - 1] - a) <= f[k] - f[k - 1]]
             val == [k \in 1 .. L + 1 |->
                      IF k > L THEN [back |-> k, end |-> k, size |-> 0]
                      ELSE [back |-> k, end |-> k + 1, size |-> n - (f[k - 1] - a)]]
             u == CHOOSE h : Model(h)
  <1>5. setup(bs, n) = u[1]
    BY DEF setup
  <1>6. ASSUME NEW h PROVE Model(h) <=> Search(1, L + 1, stop, val, h)
    <2> DEFINE M(k) == IF k > Len(bs) THEN [back |-> k, end |-> k, size |-> 0]
                       ELSE IF n - Len(FlattenSeq(SubSeq(bs, 1, k - 1))) <= Len(bs[k])
                       THEN [back |-> k, end |-> k + 1, size |-> n - Len(FlattenSeq(SubSeq(bs, 1, k - 1)))]
                       ELSE h[k + 1]
               S(k) == IF stop[k] THEN val[k] ELSE h[k + 1]
    <2>1. ASSUME NEW k \in 1 .. L + 1 PROVE M(k) = S(k)
      <3>1. CASE k > L
        BY <1>2, <1>3, <3>1
      <3>2. CASE k <= L
        <4>1. k \in 1 .. L /\ k - 1 \in 0 .. L
          BY <1>3, <3>2
        <4>2. Len(FlattenSeq(SubSeq(bs, 1, k - 1))) = f[k - 1] - a
          BY <1>1, <1>2, <4>1, ChainSize
        <4>3. Len(bs[k]) = f[k] - f[k - 1]
          <5>1. f[k - 1] \in Nat /\ f[k] \in Nat /\ f[k - 1] <= f[k] /\ bs[k] = Octets(f[k - 1], f[k])
            BY <1>3, <4>1
          <5> QED
            BY <5>1, OctetsFacts
        <4>4. stop[k] = (n - (f[k - 1] - a) <= f[k] - f[k - 1])
          BY <1>3, <4>1
        <4>5. val[k] = [back |-> k, end |-> k + 1, size |-> n - (f[k - 1] - a)]
          BY <1>3, <4>1
        <4>6. M(k) = IF n - (f[k - 1] - a) <= f[k] - f[k - 1]
                     THEN [back |-> k, end |-> k + 1, size |-> n - (f[k - 1] - a)] ELSE h[k + 1]
          <5>1. ~(k > Len(bs))
            BY <1>2, <1>3, <4>1
          <5> QED
            BY <4>2, <4>3, <5>1, Zenon
        <4> HIDE DEF M, stop, val
        <4> QED
          BY <4>4, <4>5, <4>6
      <3>3. k > L \/ k <= L
        BY <1>3
      <3> QED
        BY <3>1, <3>2, <3>3, Zenon
    <2>2. Model(h) <=> h = [k \in 1 .. L + 1 |-> M(k)]
      BY <1>2
    <2>3. Search(1, L + 1, stop, val, h) <=> h = [k \in 1 .. L + 1 |-> S(k)]
      BY DEF Search
    <2> HIDE DEF M, S, Model
    <2>4. [k \in 1 .. L + 1 |-> M(k)] = [k \in 1 .. L + 1 |-> S(k)]
      BY <2>1
    <2> QED
      BY <2>2, <2>3, <2>4
  <1>7. stop[L + 1] /\ 1 \in Nat /\ L + 1 \in Nat /\ 1 <= L + 1
    <2>1. L + 1 \in 1 .. L + 1 /\ L + 1 > L /\ L + 1 \in Nat /\ 1 <= L + 1
      BY <1>3
    <2>2. stop[L + 1] = (L + 1 > L \/ n - (f[(L + 1) - 1] - a) <= f[L + 1] - f[(L + 1) - 1])
      BY <2>1
    <2> QED
      BY <2>1, <2>2
  <1>8. Search(1, L + 1, stop, val, u)
    <2> HIDE DEF stop, val
    <2>1. \E h : Search(1, L + 1, stop, val, h)
      BY <1>7, SearchExists
    <2>2. \E h : Model(h)
      BY <1>6, <2>1
    <2>3. Model(u)
      BY <2>2
    <2> QED
      BY <1>6, <2>3
  <1> HIDE DEF u, Model
  <1>9. PICK j \in 1 .. L + 1 : First(1, j, stop) /\ u[1] = val[j]
    <2> HIDE DEF stop, val
    <2> QED
      BY <1>7, <1>8, SearchFinds
  <1>10. \A k \in 1 .. L : f[k - 1] \in Nat /\ f[k] \in Nat
    <2>1. ASSUME NEW k \in 1 .. L PROVE f[k - 1] \in Nat /\ f[k] \in Nat
      <3>1. k - 1 \in 0 .. L /\ k \in 0 .. L
        BY <1>3
      <3> QED
        BY <1>3, <3>1
    <2> QED
      BY <2>1
  <1>11. f[j - 1] - a <= n /\ f[j - 1] \in Nat
    <2>1. CASE j = 1
      BY <1>1, <1>3, <1>4, <2>1
    <2>2. CASE j # 1
      <3>1. PICK i : i = j - 1
        OBVIOUS
      <3>2. i \in 1 .. L /\ i \in 1 .. j - 1 /\ i \in 1 .. L + 1
        BY <1>3, <2>2, <3>1
      <3>3. ~stop[i]
        BY <1>9, <3>2 DEF First
      <3>4. ~(n - (f[i - 1] - a) <= f[i] - f[i - 1])
        BY <3>2, <3>3
      <3>5. f[i - 1] \in Nat /\ f[i] \in Nat
        BY <1>10, <3>2
      <3> QED
        BY <1>4, <3>1, <3>4, <3>5
    <2> QED
      BY <2>1, <2>2
  <1> DEFINE q == buffer_prefix(n, bs)
             p == setup(bs, n)
  <1>12. q = [i \in 1 .. p.end - 1 |-> IF i = p.back THEN SubSeq(bs[i], 1, p.size) ELSE bs[i]]
    BY DEF buffer_prefix
  <1>13. p = val[j]
    BY <1>5, <1>9
  <1> HIDE DEF p, q
  <1>14. CASE j = L + 1
    <2>1. p.end - 1 = L /\ p.back = L + 1
      <3>1. p = [back |-> j, end |-> j, size |-> 0]
        BY <1>3, <1>13, <1>14
      <3> QED
        BY <1>3, <1>14, <3>1
    <2>2. q = [i \in 1 .. L |-> bs[i]]
      <3>1. ASSUME NEW i \in 1 .. L PROVE i # p.back
        BY <1>3, <2>1
      <3> QED
        BY <1>12, <2>1, <3>1
    <2>3. q = bs
      BY <1>2, <1>3, <2>2
    <2>4. b = f[j - 1]
      <3>1. j - 1 = L
        BY <1>3, <1>14
      <3> QED
        BY <1>1, <1>2, <3>1
    <2>5. b = IF a + n <= b THEN a + n ELSE b
      BY <1>4, <1>11, <2>4
    <2> QED
      BY <2>3, <2>5 DEF q
  <1>15. CASE j # L + 1
    <2>0. j \in 1 .. L
      BY <1>3, <1>15
    <2>1. p.end - 1 = j /\ p.back = j /\ p.size = n - (f[j - 1] - a)
      <3>1. p = [back |-> j, end |-> j + 1, size |-> n - (f[j - 1] - a)]
        BY <1>3, <1>13, <2>0
      <3> QED
        BY <2>0, <3>1
    <2>2. n - (f[j - 1] - a) <= f[j] - f[j - 1]
      <3>1. stop[j] = (j > L \/ n - (f[j - 1] - a) <= f[j] - f[j - 1])
        OBVIOUS
      <3>2. ~(j > L)
        BY <1>3, <2>0
      <3>3. stop[j]
        BY <1>9 DEF First
      <3> HIDE DEF stop
      <3> QED
        BY <3>1, <3>2, <3>3
    <2>3. f[j] \in Nat /\ f[j - 1] \in Nat /\ f[j - 1] <= f[j] /\ bs[j] = Octets(f[j - 1], f[j])
      BY <1>3, <1>10, <2>0
    <2>4. f[j] <= b
      <3>1. j \in 0 .. Len(bs) /\ Len(bs) \in 0 .. Len(bs) /\ j <= Len(bs)
        BY <1>2, <1>3, <2>0
      <3> QED
        BY <1>1, <3>1, ChainGrows
    <2> HIDE DEF stop, val
    <2>5. a + n <= b /\ f[j - 1] <= a + n
      BY <1>4, <1>11, <2>2, <2>3, <2>4
    <2>6. SubSeq(bs[j], 1, p.size) = Octets(f[j - 1], a + n)
      <3>1. PICK k : k = n - (f[j - 1] - a)
        OBVIOUS
      <3>2. k \in Nat /\ k <= f[j] - f[j - 1] /\ f[j - 1] + k = a + n
        BY <1>4, <1>11, <2>2, <2>3, <3>1
      <3>3. SubSeq(Octets(f[j - 1], f[j]), 1, k) = Octets(f[j - 1], f[j - 1] + k)
        BY <2>3, <3>2, OctetsCut
      <3> QED
        BY <2>1, <2>3, <3>1, <3>2, <3>3
    <2> DEFINE h == [i \in 0 .. j |-> IF i = j THEN a + n ELSE f[i]]
    <2>7. h \in [0 .. j -> Nat] /\ h[j] = a + n /\ h[0] = a /\ \A i \in 0 .. j - 1 : h[i] = f[i]
      BY <1>1, <1>3, <1>4, <2>0
    <2> HIDE DEF h
    <2>8. q = [i \in 1 .. j |-> IF i = j THEN Octets(f[j - 1], a + n) ELSE bs[i]]
      BY <1>12, <2>1, <2>6
    <2>9. ASSUME NEW i \in 1 .. j
          PROVE  h[i - 1] <= h[i] /\ q[i] = Octets(h[i - 1], h[i]) /\ q[i] \in Seq(Nat)
      <3>0. i \in 1 .. L /\ i - 1 \in 0 .. j - 1
        BY <1>3, <2>0
      <3>1. h[i - 1] = f[i - 1] /\ f[i - 1] \in Nat
        BY <1>10, <2>7, <3>0
      <3>2. CASE i = j
        <4>1. q[i] = Octets(f[j - 1], a + n)
          BY <2>8, <3>2
        <4>2. h[i - 1] <= h[i] /\ q[i] = Octets(h[i - 1], h[i])
          BY <2>5, <2>7, <3>1, <3>2, <4>1
        <4>3. Octets(f[j - 1], a + n) \in Seq(Nat)
          <5>1. a + n \in Nat
            BY <1>4
          <5> QED
            BY <2>3, <2>5, <5>1, OctetsFacts
        <4> QED
          BY <4>1, <4>2, <4>3
      <3>3. CASE i # j
        <4>1. q[i] = bs[i] /\ h[i] = f[i]
          <5>1. i \in 0 .. j - 1
            BY <2>0, <3>3
          <5> QED
            BY <2>7, <2>8, <3>3, <5>1
        <4> QED
          BY <1>2, <1>3, <3>0, <3>1, <4>1 DEF Buffer
      <3> QED
        BY <3>2, <3>3
    <2>10. q \in Seq(Buffer) /\ Len(q) = j
      <3>1. q \in [1 .. j -> Buffer]
        BY <2>8, <2>9 DEF Buffer
      <3> QED
        BY <2>0, <3>1, SeqIntro
    <2>11. Chain(q, h)
      BY <2>7, <2>9, <2>10 DEF Chain
    <2>12. Run(q, a, a + n)
      BY <2>7, <2>10, <2>11 DEF Run
    <2> QED
      BY <2>5, <2>12 DEF q
  <1> QED
    BY <1>14, <1>15

-----------------------------------------------------------------------------
(* consuming_buffers: c is at g when the buffers before begin and the skip *)
(* octets of that one are gone, g octets in all.                           *)

At(c, F, g) ==
  /\ c = [bs |-> c.bs, begin |-> c.begin, skip |-> c.skip]
  /\ Chain(c.bs, F) /\ F[0] = 0
  /\ c.begin \in 1 .. Len(c.bs) + 1 /\ c.skip \in Nat
  /\ g = F[c.begin - 1] + c.skip
  /\ IF c.begin <= Len(c.bs) THEN g <= F[c.begin] ELSE c.skip = 0

\* What a consuming_buffers of a shape begins as.
LEMMA BeginsAt ==
  ASSUME NEW shape, shape \in Seq(Nat)
  PROVE  \E F : At(consuming_buffers(Blocks(shape)), F, 0)
  <1>1. PICK F : Chain(Blocks(shape), F) /\ F[0] = 0
    BY BlocksChain
  <1>2. PICK bs : bs = Blocks(shape)
    OBVIOUS
  <1>3. Len(bs) \in Nat /\ F \in [0 .. Len(bs) -> Nat] /\ \A i \in 1 .. Len(bs) : F[i - 1] <= F[i]
    BY <1>1, <1>2 DEF Chain
  <1>4. PICK c : c = consuming_buffers(bs)
    OBVIOUS
  <1>5. c.bs = bs /\ c.begin = 1 /\ c.skip = 0 /\ c = [bs |-> c.bs, begin |-> c.begin, skip |-> c.skip]
    BY <1>4 DEF consuming_buffers
  <1>6. 1 <= Len(bs) => F[0] <= F[1]
    BY <1>3
  <1>7. F[c.begin - 1] + c.skip = 0
    BY <1>1, <1>5
  <1>8. c.begin \in 1 .. Len(c.bs) + 1 /\ c.skip \in Nat
    BY <1>3, <1>5
  <1>9. IF c.begin <= Len(c.bs) THEN 0 <= F[c.begin] ELSE c.skip = 0
    BY <1>1, <1>5, <1>6
  <1>10. Chain(c.bs, F) /\ F[0] = 0
    BY <1>1, <1>2, <1>5
  <1>11. At(c, F, 0)
    BY <1>5, <1>7, <1>8, <1>9, <1>10 DEF At
  <1> QED
    BY <1>2, <1>4, <1>11

\* The iterators give what is not gone.
LEMMA ViewRun ==
  ASSUME NEW c, NEW F, NEW g, At(c, F, g)
  PROVE  Run(consuming_view(c), g, F[Len(c.bs)])
  <1>1. PICK bs, m, s : bs = c.bs /\ m = c.begin /\ s = c.skip
    OBVIOUS
  <1>2. PICK L : L = Len(bs)
    OBVIOUS
  <1>3. /\ L \in Nat /\ F \in [0 .. L -> Nat] /\ bs \in Seq(Buffer)
        /\ \A i \in 1 .. L : F[i - 1] <= F[i] /\ bs[i] = Octets(F[i - 1], F[i])
    BY <1>1, <1>2 DEF Chain, At
  <1>4. /\ m \in 1 .. L + 1 /\ s \in Nat /\ g = F[m - 1] + s
        /\ IF m <= L THEN g <= F[m] ELSE s = 0
    BY <1>1, <1>2 DEF At
  <1>5. m - 1 \in 0 .. L /\ F[m - 1] \in Nat /\ g \in Nat
    <2>1. m - 1 \in 0 .. L
      BY <1>3, <1>4
    <2>2. F[m - 1] \in Nat
      BY <1>3, <2>1
    <2> QED
      BY <1>4, <2>1, <2>2
  <1> DEFINE v == consuming_view(c)
             n == L + 1 - m
             f == [i \in 0 .. n |-> IF i = 0 THEN g ELSE F[m + i - 1]]
  <1>6. v = [i \in 1 .. n |-> IF i = 1 THEN SubSeq(bs[m + i - 1], s + 1, Len(bs[m + i - 1])) ELSE bs[m + i - 1]]
    BY <1>1, <1>2 DEF consuming_view
  <1>7. n \in Nat
    BY <1>3, <1>4
  <1>8. /\ f[0] = g /\ \A i \in 1 .. n : f[i] = F[m + i - 1] /\ m + i - 1 \in 1 .. L
        /\ f \in [0 .. n -> Nat]
    <2>1. \A i \in 1 .. n : m + i - 1 \in 1 .. L /\ m + i - 1 \in 0 .. L
      BY <1>3, <1>4
    <2>2. f[0] = g
      BY <1>7
    <2>3. \A i \in 1 .. n : f[i] = F[m + i - 1]
      BY <1>7
    <2>4. f \in [0 .. n -> Nat]
      <3>1. ASSUME NEW i \in 0 .. n PROVE (IF i = 0 THEN g ELSE F[m + i - 1]) \in Nat
        <4>1. CASE i = 0
          BY <1>5, <4>1
        <4>2. CASE i # 0
          <5>1. i \in 1 .. n
            BY <1>7, <4>2
          <5>2. F[m + i - 1] \in Nat
            BY <1>3, <2>1, <5>1
          <5> QED
            BY <4>2, <5>2
        <4> QED
          BY <4>1, <4>2
      <3> QED
        BY <3>1
    <2> HIDE DEF f, n
    <2> QED
      BY <2>1, <2>2, <2>3, <2>4
  <1> HIDE DEF v, f
  <1>9. ASSUME NEW i \in 1 .. n
        PROVE  f[i - 1] <= f[i] /\ v[i] = Octets(f[i - 1], f[i]) /\ v[i] \in Buffer
    <2>1. PICK k : k = m + i - 1
      OBVIOUS
    <2>2. k \in 1 .. L /\ f[i] = F[k]
      BY <1>8, <2>1
    <2>3. F[k - 1] <= F[k] /\ bs[k] = Octets(F[k - 1], F[k])
      BY <1>3, <2>2
    <2>4. F[k - 1] \in Nat /\ F[k] \in Nat
      <3>1. k \in 0 .. L /\ k - 1 \in 0 .. L
        BY <1>3, <2>2
      <3> QED
        BY <1>3, <3>1
    <2>5. v[i] = IF i = 1 THEN SubSeq(bs[k], s + 1, Len(bs[k])) ELSE bs[k]
      BY <1>6, <2>1
    <2>6. CASE i = 1
      <3>1. k = m /\ m <= L
        BY <1>3, <1>4, <2>1, <2>2, <2>6
      <3>2. g <= F[m] /\ g = F[m - 1] + s
        BY <1>4, <3>1
      <3>3. s <= F[m] - F[m - 1]
        BY <1>4, <1>5, <2>4, <3>1, <3>2
      <3>4. Len(bs[m]) = F[m] - F[m - 1]
        BY <2>3, <2>4, <3>1, OctetsFacts
      <3>5. SubSeq(Octets(F[m - 1], F[m]), s + 1, F[m] - F[m - 1]) = Octets(F[m - 1] + s, F[m])
        <4>1. PICK x, y : x = F[m - 1] /\ y = F[m]
          OBVIOUS
        <4>2. x \in Nat /\ y \in Nat /\ x <= y /\ s \in Nat /\ s <= y - x
          BY <1>4, <2>3, <2>4, <3>1, <3>3, <4>1
        <4>3. SubSeq(Octets(x, y), s + 1, y - x) = Octets(x + s, y)
          BY <4>2, OctetsCut
        <4> QED
          BY <4>1, <4>3
      <3>6. v[i] = Octets(g, F[m])
        BY <2>3, <2>5, <2>6, <3>1, <3>2, <3>4, <3>5
      <3>7. f[i - 1] = g /\ f[i] = F[m]
        BY <1>8, <2>2, <2>6, <3>1
      <3>8. Octets(g, F[m]) \in Seq(Nat)
        BY <1>5, <2>4, <3>1, <3>2, OctetsFacts
      <3> QED
        BY <3>2, <3>6, <3>7, <3>8 DEF Buffer
    <2>7. CASE i # 1
      <3>1. i - 1 \in 1 .. n /\ m + (i - 1) - 1 = k - 1
        BY <1>4, <1>7, <2>1, <2>7
      <3>2. f[i - 1] = F[k - 1]
        BY <1>8, <3>1
      <3>3. Octets(F[k - 1], F[k]) \in Seq(Nat)
        BY <2>3, <2>4, OctetsFacts
      <3> QED
        BY <2>2, <2>3, <2>5, <2>7, <3>2, <3>3 DEF Buffer
    <2> QED
      BY <2>6, <2>7
  <1>10. v \in Seq(Buffer) /\ Len(v) = n
    <2> HIDE DEF n
    <2>1. v = [i \in 1 .. n |-> v[i]]
      BY <1>6
    <2>2. v \in [1 .. n -> Buffer]
      BY <1>9, <2>1
    <2> QED
      BY <1>7, <2>2, SeqIntro
  <1>11. f[n] = F[L]
    <2>1. CASE n = 0
      <3>1. m = L + 1 /\ m - 1 = L
        BY <1>3, <1>4, <2>1
      <3>2. s = 0
        BY <1>3, <1>4, <3>1
      <3> QED
        BY <1>3, <1>4, <1>5, <1>8, <2>1, <3>1, <3>2
    <2>2. CASE n # 0
      <3>1. n \in 1 .. n /\ m + n - 1 = L
        BY <1>3, <1>4, <2>2
      <3> QED
        BY <1>8, <3>1
    <2> QED
      BY <2>1, <2>2
  <1>12. Chain(v, f)
    <2> HIDE DEF n
    <2> QED
      BY <1>8, <1>9, <1>10 DEF Chain
  <1>13. Run(v, g, F[L])
    BY <1>8, <1>10, <1>11, <1>12 DEF Run
  <1> QED
    BY <1>1, <1>2, <1>13 DEF v

Moved(c, k, x) == [c EXCEPT !.begin = k, !.skip = x]
Place(b, k, x) == [bs |-> b, begin |-> k, skip |-> x]

\* begin_ and skip_ change, the buffers do not.
LEMMA MovedTo ==
  ASSUME NEW b, NEW m, NEW s, NEW k, NEW x, m \in Nat, s \in Nat, k \in Nat, x \in Int
  PROVE  Moved(Place(b, m, s), k, x) = Place(b, k, x)
  <1>1. [[bs |-> b, begin |-> m, skip |-> s] EXCEPT !.begin = k, !.skip = x]
        = [[[bs |-> b, begin |-> m, skip |-> s] EXCEPT !.begin = k] EXCEPT !.skip = x]
    OBVIOUS
  <1>2. [[bs |-> b, begin |-> m, skip |-> s] EXCEPT !.begin = k] = [bs |-> b, begin |-> k, skip |-> s]
    OBVIOUS
  <1>3. [[bs |-> b, begin |-> k, skip |-> s] EXCEPT !.skip = x] = [bs |-> b, begin |-> k, skip |-> x]
    OBVIOUS
  <1> QED
    BY <1>1, <1>2, <1>3, Zenon DEF Moved, Place

\* The sums in consume.
LEMMA ConsumeSums ==
  ASSUME NEW n, NEW p, NEW g, NEW a, NEW b, NEW t,
         n \in Nat, p \in Nat, g \in Nat, a \in Nat, b \in Nat, t \in Nat, p = a + t
  PROVE  /\ (n - (p - g) < (b - a) - t) <=> (n < b - g)
         /\ p - g <= n => t + n - (p - g) \in Nat /\ a + (t + n - (p - g)) = g + n
  OBVIOUS

\* consume of n octets: exactly these go, over as many buffers as they fill.
LEMMA ConsumeAt ==
  ASSUME NEW c, NEW F, NEW g, NEW n, At(c, F, g), n \in Nat, g + n <= F[Len(c.bs)]
  PROVE  At(consume(c, n), F, g + n) /\ consume(c, n).bs = c.bs
  <1>1. PICK bs, m, s : bs = c.bs /\ m = c.begin /\ s = c.skip
    OBVIOUS
  <1>2. PICK L : L = Len(bs)
    OBVIOUS
  <1>3. /\ L \in Nat /\ F \in [0 .. L -> Nat] /\ bs \in Seq(Buffer)
        /\ \A i \in 1 .. L : F[i - 1] <= F[i] /\ bs[i] = Octets(F[i - 1], F[i])
    BY <1>1, <1>2 DEF Chain, At
  <1>4. /\ m \in 1 .. L + 1 /\ s \in Nat /\ g = F[m - 1] + s
        /\ IF m <= L THEN g <= F[m] ELSE s = 0
    BY <1>1, <1>2 DEF At
  <1>5. F[m - 1] \in Nat /\ g \in Nat
    <2>1. m - 1 \in 0 .. L
      BY <1>3, <1>4
    <2>2. F[m - 1] \in Nat
      BY <1>3, <2>1
    <2> QED
      BY <1>4, <2>1, <2>2
  <1>6. \A k \in 1 .. L : F[k - 1] \in Nat /\ F[k] \in Nat /\ F[k - 1] <= F[k] /\ Len(bs[k]) = F[k] - F[k - 1]
    <2>1. ASSUME NEW k \in 1 .. L
          PROVE  F[k - 1] \in Nat /\ F[k] \in Nat /\ F[k - 1] <= F[k] /\ Len(bs[k]) = F[k] - F[k - 1]
      <3>1. k - 1 \in 0 .. L /\ k \in 0 .. L
        BY <1>3
      <3>2. F[k - 1] \in Nat /\ F[k] \in Nat /\ F[k - 1] <= F[k] /\ bs[k] = Octets(F[k - 1], F[k])
        BY <1>3, <3>1
      <3> QED
        BY <3>2, OctetsFacts
    <2> QED
      BY <2>1
  <1> DEFINE sk(k) == IF k = m THEN s ELSE 0
             pos(k) == IF k = m THEN g ELSE F[k - 1]
             csk(k) == IF k = c.begin THEN c.skip ELSE 0
             Before(h) == h = [k \in c.begin .. Len(c.bs) + 1 |->
                                IF k = c.begin THEN 0 ELSE h[k - 1] + Len(c.bs[k - 1]) - csk(k - 1)]
             u == CHOOSE h : Before(h)
             Model(h) ==
               h = [k \in c.begin .. Len(c.bs) + 1 |->
                     IF k > Len(c.bs) \/ n = u[k] THEN [c EXCEPT !.begin = k, !.skip = csk(k)]
                     ELSE IF n - u[k] < Len(c.bs[k]) - csk(k)
                     THEN [c EXCEPT !.begin = k, !.skip = csk(k) + n - u[k]]
                     ELSE h[k + 1]]
             w == CHOOSE h : Model(h)
  <1>7. consume(c, n) = w[m]
    BY <1>1 DEF consume
  <1>8. \A k \in m .. L + 1 : pos(k) \in Nat /\ pos(k) = F[k - 1] + sk(k) /\ (k <= L => pos(k) <= F[k])
    <2>1. ASSUME NEW k \in m .. L + 1
          PROVE  pos(k) \in Nat /\ pos(k) = F[k - 1] + sk(k) /\ (k <= L => pos(k) <= F[k])
      <3>1. CASE k = m
        BY <1>4, <1>5, <3>1
      <3>2. CASE k # m
        <4>1. k - 1 \in 1 .. L /\ (k <= L => k \in 1 .. L)
          BY <1>3, <1>4, <3>2
        <4>2. F[k - 1] \in Nat /\ (k <= L => F[k - 1] <= F[k])
          BY <1>6, <4>1
        <4>3. pos(k) = F[k - 1] /\ sk(k) = 0
          BY <3>2
        <4> HIDE DEF pos, sk
        <4> QED
          BY <4>2, <4>3
      <3> QED
        BY <3>1, <3>2
    <2> HIDE DEF pos, sk
    <2> QED
      BY <2>1
  <1>9. ASSUME NEW k \in m .. L + 1, k # m
        PROVE  /\ k - 1 \in m .. L + 1 /\ k - 1 \in 1 .. L /\ pos(k) = F[k - 1]
               /\ pos(k) - g = (pos(k - 1) - g) + Len(bs[k - 1]) - sk(k - 1)
    <2>1. PICK i : i = k - 1
      OBVIOUS
    <2>2. i \in m .. L + 1 /\ i \in 1 .. L /\ k - 1 = i
      BY <1>3, <1>4, <1>9, <2>1
    <2>3. pos(i) = F[i - 1] + sk(i) /\ pos(i) \in Nat
      BY <1>8, <2>2
    <2>4. F[i - 1] \in Nat /\ F[i] \in Nat /\ Len(bs[i]) = F[i] - F[i - 1]
      BY <1>6, <2>2
    <2>5. pos(k) = F[i]
      BY <1>9, <2>2
    <2>6. sk(i) \in Nat
      BY <1>4
    <2> HIDE DEF pos, sk
    <2>7. pos(k) - g = (pos(i) - g) + Len(bs[i]) - sk(i)
      BY <1>5, <2>3, <2>4, <2>5, <2>6
    <2> QED
      BY <2>2, <2>5, <2>7
  <1>10. \A k : csk(k) = sk(k)
    BY <1>1
  <1>11. \A k \in m .. L + 1 : u[k] = pos(k) - g
    <2> DEFINE h == [k \in m .. L + 1 |-> pos(k) - g]
    <2>1. Before(h)
      <3>1. ASSUME NEW k \in m .. L + 1
            PROVE  h[k] = IF k = c.begin THEN 0 ELSE h[k - 1] + Len(c.bs[k - 1]) - csk(k - 1)
        <4>1. h[k] = pos(k) - g
          OBVIOUS
        <4>2. CASE k = m
          <5>1. pos(k) = g
            BY <4>2
          <5> QED
            BY <1>1, <1>5, <4>1, <4>2, <5>1
        <4>3. CASE k # m
          <5>1. h[k - 1] = pos(k - 1) - g
            BY <1>9, <4>3
          <5>2. pos(k) - g = (pos(k - 1) - g) + Len(bs[k - 1]) - sk(k - 1)
            BY <1>9, <4>3
          <5>3. csk(k - 1) = sk(k - 1)
            BY <1>10
          <5> HIDE DEF h, pos, sk, csk
          <5> QED
            BY <1>1, <4>1, <4>3, <5>1, <5>2, <5>3
        <4> QED
          BY <4>2, <4>3
      <3>2. h = [k \in m .. L + 1 |-> h[k]]
        OBVIOUS
      <3> HIDE DEF h, csk
      <3> QED
        BY <1>1, <1>2, <3>1, <3>2
    <2>2. Before(u)
      BY <2>1
    <2> HIDE DEF u, h
    <2>3. \A k \in m .. L + 1 : u[k] = IF k = m THEN 0 ELSE u[k - 1] + Len(bs[k - 1]) - sk(k - 1)
      <3> HIDE DEF csk, sk
      <3>1. u = [k \in m .. L + 1 |-> IF k = m THEN 0 ELSE u[k - 1] + Len(bs[k - 1]) - csk(k - 1)]
        BY <1>1, <1>2, <2>2
      <3> HIDE DEF Before
      <3> QED
        BY <1>10, <3>1
    <2> HIDE DEF Before
    <2> DEFINE H == {x \in Nat : m + x <= L + 1 => u[m + x] = pos(m + x) - g}
    <2>4. 0 \in H
      <3>1. m \in m .. L + 1 /\ m + 0 = m
        BY <1>3, <1>4
      <3>2. u[m] = 0 /\ pos(m) = g
        BY <2>3, <3>1
      <3> HIDE DEF pos
      <3> QED
        BY <1>5, <3>1, <3>2
    <2>5. ASSUME NEW x \in H PROVE x + 1 \in H
      <3>1. SUFFICES ASSUME NEW y, y = m + (x + 1), y <= L + 1 PROVE u[y] = pos(y) - g
        OBVIOUS
      <3>2. y \in m .. L + 1 /\ y # m /\ y - 1 = m + x /\ m + x <= L + 1
        BY <1>3, <1>4, <3>1
      <3>3. u[y - 1] = pos(y - 1) - g
        <4> HIDE DEF pos
        <4> QED
          BY <3>2
      <3>4. u[y] = u[y - 1] + Len(bs[y - 1]) - sk(y - 1)
        BY <2>3, <3>2
      <3>5. pos(y) - g = (pos(y - 1) - g) + Len(bs[y - 1]) - sk(y - 1)
        BY <1>9, <3>2
      <3> HIDE DEF pos, sk
      <3> QED
        BY <3>3, <3>4, <3>5
    <2>6. H = Nat
      <3> HIDE DEF H
      <3>1. H \in SUBSET Nat
        BY DEF H
      <3> QED
        BY <2>4, <2>5, <3>1, NatBySuccessor
    <2>7. ASSUME NEW k \in m .. L + 1 PROVE u[k] = pos(k) - g
      <3>1. k - m \in Nat /\ m + (k - m) = k /\ k <= L + 1
        BY <1>3, <1>4
      <3>2. k - m \in H
        <4> HIDE DEF H
        <4> QED
          BY <2>6, <3>1
      <3> HIDE DEF pos
      <3> QED
        BY <3>1, <3>2
    <2> HIDE DEF pos
    <2> QED
      BY <2>7
  <1> HIDE DEF u
  <1> DEFINE stop == [k \in m .. L + 1 |-> k > L \/ n = pos(k) - g \/ n < F[k] - g]
             val == [k \in m .. L + 1 |->
                      [bs |-> bs, begin |-> k, skip |-> IF k > L THEN sk(k) ELSE sk(k) + n - (pos(k) - g)]]
  <1>12. ASSUME NEW h PROVE Model(h) <=> Search(m, L + 1, stop, val, h)
    <2> DEFINE M(k) == IF k > Len(c.bs) \/ n = u[k] THEN [c EXCEPT !.begin = k, !.skip = csk(k)]
                       ELSE IF n - u[k] < Len(c.bs[k]) - csk(k)
                       THEN [c EXCEPT !.begin = k, !.skip = csk(k) + n - u[k]]
                       ELSE h[k + 1]
               S(k) == IF stop[k] THEN val[k] ELSE h[k + 1]
    <2>1. ASSUME NEW k \in m .. L + 1 PROVE M(k) = S(k)
      <3>0. /\ u[k] = pos(k) - g /\ csk(k) = sk(k) /\ pos(k) \in Nat
            /\ pos(k) = F[k - 1] + sk(k) /\ (k <= L => pos(k) <= F[k])
        BY <1>8, <1>10, <1>11
      <3>1. stop[k] = (k > L \/ n = pos(k) - g \/ n < F[k] - g)
        OBVIOUS
      <3>2. val[k] = [bs |-> bs, begin |-> k, skip |-> IF k > L THEN sk(k) ELSE sk(k) + n - (pos(k) - g)]
        OBVIOUS
      <3>3. c = [bs |-> bs, begin |-> m, skip |-> s]
        BY <1>1 DEF At
      <3>4. ASSUME NEW x, x \in Int
            PROVE  [c EXCEPT !.begin = k, !.skip = x] = [bs |-> bs, begin |-> k, skip |-> x]
        <4>1. k \in Nat /\ m \in Nat /\ s \in Nat
          BY <1>3, <1>4
        <4>2. Moved(Place(bs, m, s), k, x) = Place(bs, k, x)
          BY <3>4, <4>1, MovedTo
        <4> QED
          BY <3>3, <4>2, Zenon DEF Moved, Place
      <3>5. sk(k) \in Nat
        BY <1>4
      <3>6. k \in Nat /\ (k <= L => k \in 1 .. L)
        BY <1>3, <1>4
      <3>8. ~(k > L) => Len(bs[k]) = F[k] - F[k - 1] /\ F[k - 1] \in Nat /\ F[k] \in Nat
        BY <1>3, <1>6, <3>6
      <3>7. M(k) = IF k > L \/ n = pos(k) - g THEN [bs |-> bs, begin |-> k, skip |-> sk(k)]
                   ELSE IF n - (pos(k) - g) < Len(bs[k]) - sk(k)
                   THEN [bs |-> bs, begin |-> k, skip |-> sk(k) + n - (pos(k) - g)]
                   ELSE h[k + 1]
        <4> HIDE DEF pos, sk, csk
        <4>1. sk(k) \in Int /\ sk(k) + n - (pos(k) - g) \in Int
          BY <1>5, <3>0, <3>5
        <4>2. /\ [c EXCEPT !.begin = k, !.skip = sk(k)] = [bs |-> bs, begin |-> k, skip |-> sk(k)]
              /\ [c EXCEPT !.begin = k, !.skip = sk(k) + n - (pos(k) - g)]
                 = [bs |-> bs, begin |-> k, skip |-> sk(k) + n - (pos(k) - g)]
          BY <3>4, <4>1, Zenon
        <4>3. M(k) = IF k > L \/ n = pos(k) - g THEN [c EXCEPT !.begin = k, !.skip = sk(k)]
                     ELSE IF n - (pos(k) - g) < Len(bs[k]) - sk(k)
                     THEN [c EXCEPT !.begin = k, !.skip = sk(k) + n - (pos(k) - g)]
                     ELSE h[k + 1]
          BY <1>1, <1>2, <3>0, Zenon
        <4> HIDE DEF M
        <4> QED
          BY <4>2, <4>3, Zenon
      <3> HIDE DEF pos, sk, csk, stop, val, M
      <3>9. CASE k > L
        BY <3>1, <3>2, <3>7, <3>9
      <3>10. CASE ~(k > L) /\ n = pos(k) - g
        <4>1. sk(k) + n - (pos(k) - g) = sk(k)
          BY <1>5, <3>0, <3>5, <3>10
        <4> QED
          BY <3>1, <3>2, <3>7, <3>10, <4>1
      <3>11. CASE ~(k > L) /\ n # pos(k) - g
        <4>1. (n - (pos(k) - g) < Len(bs[k]) - sk(k)) <=> (n < F[k] - g)
          <5>1. PICK p, x, y, t : p = pos(k) /\ x = F[k - 1] /\ y = F[k] /\ t = sk(k)
            OBVIOUS
          <5>2. p \in Nat /\ x \in Nat /\ y \in Nat /\ t \in Nat /\ p = x + t
            BY <3>0, <3>5, <3>8, <3>11, <5>1
          <5>3. (n - (p - g) < (y - x) - t) <=> (n < y - g)
            BY <1>5, <5>2, ConsumeSums
          <5>4. Len(bs[k]) = y - x
            BY <3>8, <3>11, <5>1
          <5> QED
            BY <5>1, <5>3, <5>4, Zenon
        <4> QED
          BY <3>1, <3>2, <3>7, <3>11, <4>1
      <3> QED
        BY <3>9, <3>10, <3>11
    <2>2. Model(h) <=> h = [k \in m .. L + 1 |-> M(k)]
      <3> HIDE DEF csk
      <3> QED
        BY <1>1, <1>2
    <2>3. Search(m, L + 1, stop, val, h) <=> h = [k \in m .. L + 1 |-> S(k)]
      <3> HIDE DEF stop, val
      <3> QED
        BY DEF Search
    <2> HIDE DEF M, S, Model
    <2>4. [k \in m .. L + 1 |-> M(k)] = [k \in m .. L + 1 |-> S(k)]
      BY <2>1
    <2> QED
      BY <2>2, <2>3, <2>4
  <1>13. stop[L + 1] /\ m \in Nat /\ L + 1 \in Nat /\ m <= L + 1
    <2>1. L + 1 \in m .. L + 1 /\ L + 1 > L /\ L + 1 \in Nat /\ m <= L + 1 /\ m \in Nat
      BY <1>3, <1>4
    <2> HIDE DEF pos
    <2>2. stop[L + 1] = (L + 1 > L \/ n = pos(L + 1) - g \/ n < F[L + 1] - g)
      BY <2>1
    <2> HIDE DEF stop
    <2> QED
      BY <2>1, <2>2
  <1>14. Search(m, L + 1, stop, val, w)
    <2> HIDE DEF stop, val
    <2>1. \E h : Search(m, L + 1, stop, val, h)
      BY <1>13, SearchExists
    <2>2. \E h : Model(h)
      <3> HIDE DEF Model
      <3> QED
        BY <1>12, <2>1
    <2>3. Model(w)
      <3> HIDE DEF Model
      <3> QED
        BY <2>2
    <2> HIDE DEF Model
    <2> QED
      BY <1>12, <2>3
  <1> HIDE DEF w, Model
  <1>15. PICK j \in m .. L + 1 : First(m, j, stop) /\ w[m] = val[j]
    <2> HIDE DEF stop, val
    <2> QED
      BY <1>13, <1>14, SearchFinds
  <1>16. /\ pos(j) \in Nat /\ pos(j) = F[j - 1] + sk(j) /\ (j <= L => pos(j) <= F[j])
         /\ sk(j) \in Nat /\ j \in Nat /\ j \in 1 .. L + 1
    <2>1. sk(j) \in Nat /\ j \in Nat /\ j \in 1 .. L + 1
      BY <1>3, <1>4
    <2> HIDE DEF pos, sk
    <2> QED
      BY <1>8, <2>1
  <1>17. pos(j) - g <= n
    <2>1. CASE j = m
      BY <1>5, <2>1
    <2>2. CASE j # m
      <3>1. PICK i : i = j - 1
        OBVIOUS
      <3>2. i \in m .. L + 1 /\ i \in 1 .. L /\ i \in m .. j - 1 /\ pos(j) = F[i]
        BY <1>3, <1>4, <2>2, <3>1
      <3>3. ~stop[i]
        BY <1>15, <3>2 DEF First
      <3>4. stop[i] = (i > L \/ n = pos(i) - g \/ n < F[i] - g)
        BY <3>2
      <3>5. F[i] \in Nat
        BY <1>6, <3>2
      <3> HIDE DEF stop, pos
      <3>6. ~(n < F[i] - g)
        BY <3>3, <3>4
      <3> QED
        BY <1>5, <3>2, <3>5, <3>6
    <2> QED
      BY <2>1, <2>2
  <1>18. stop[j] /\ stop[j] = (j > L \/ n = pos(j) - g \/ n < F[j] - g)
    BY <1>15 DEF First
  <1>19. val[j] = [bs |-> bs, begin |-> j, skip |-> IF j > L THEN sk(j) ELSE sk(j) + n - (pos(j) - g)]
    OBVIOUS
  <1>20. PICK z : z = IF j > L THEN sk(j) ELSE sk(j) + n - (pos(j) - g)
    OBVIOUS
  <1>21. consume(c, n) = [bs |-> bs, begin |-> j, skip |-> z]
    BY <1>7, <1>15, <1>19, <1>20
  <1>22. g + n <= F[L]
    BY <1>1, <1>2
  <1>23. j > L => sk(j) = 0 /\ F[j - 1] = F[L] /\ j - 1 = L
    <2>1. j > L => j = L + 1 /\ j - 1 = L
      BY <1>3, <1>16
    <2>2. j = L + 1 => sk(j) = 0
      BY <1>3, <1>4
    <2> HIDE DEF sk, stop, val, pos
    <2> QED
      BY <2>1, <2>2
  <1> HIDE DEF sk, pos, stop, val
  <1>24. z \in Nat /\ F[j - 1] + z = g + n /\ (IF j <= L THEN g + n <= F[j] ELSE z = 0)
    <2>0. F[L] \in Nat
      BY <1>3
    <2>1. CASE j > L
      <3>1. z = 0 /\ pos(j) = F[L] /\ F[j - 1] = F[L]
        BY <1>16, <1>20, <1>23, <2>0, <2>1
      <3>2. g + n = F[L]
        BY <1>5, <1>17, <1>22, <2>0, <3>1
      <3>3. ~(j <= L)
        BY <1>3, <1>16, <2>1
      <3> QED
        BY <2>0, <3>1, <3>2, <3>3
    <2>2. CASE ~(j > L)
      <3>0. j \in 1 .. L
        BY <1>3, <1>16, <2>2
      <3>1. F[j - 1] \in Nat /\ F[j] \in Nat /\ pos(j) <= F[j]
        BY <1>3, <1>6, <1>16, <3>0
      <3>2. z = sk(j) + n - (pos(j) - g)
        BY <1>20, <2>2
      <3>3. n = pos(j) - g \/ n < F[j] - g
        BY <1>18, <2>2
      <3>4. g + n <= F[j]
        BY <1>5, <1>16, <3>1, <3>3
      <3>5. z \in Nat /\ F[j - 1] + z = g + n
        <4>1. PICK p, x, y, t : p = pos(j) /\ x = F[j - 1] /\ y = F[j] /\ t = sk(j)
          OBVIOUS
        <4>2. p \in Nat /\ x \in Nat /\ y \in Nat /\ t \in Nat /\ p = x + t /\ p - g <= n
          BY <1>16, <1>17, <3>1, <4>1
        <4>3. t + n - (p - g) \in Nat /\ x + (t + n - (p - g)) = g + n
          BY <1>5, <4>2, ConsumeSums
        <4> QED
          BY <3>2, <4>1, <4>3, Zenon
      <3> QED
        BY <1>3, <3>0, <3>4, <3>5
    <2> QED
      BY <2>1, <2>2
  <1>25. PICK r : r = consume(c, n)
    OBVIOUS
  <1>26. r = [bs |-> r.bs, begin |-> r.begin, skip |-> r.skip] /\ r.bs = bs /\ r.begin = j /\ r.skip = z
    BY <1>21, <1>25
  <1>27. Chain(r.bs, F) /\ F[0] = 0 /\ r.bs = c.bs
    BY <1>1, <1>26 DEF At
  <1>28. r.begin \in 1 .. Len(r.bs) + 1 /\ r.skip \in Nat /\ g + n = F[r.begin - 1] + r.skip
    BY <1>2, <1>16, <1>24, <1>26
  <1>29. IF r.begin <= Len(r.bs) THEN g + n <= F[r.begin] ELSE r.skip = 0
    BY <1>2, <1>24, <1>26
  <1>30. At(r, F, g + n)
    BY <1>26, <1>27, <1>28, <1>29 DEF At
  <1> QED
    BY <1>25, <1>27, <1>30

-----------------------------------------------------------------------------
(* The inductive invariant of the reads                                    *)

\* What is in the memory of the destination, of which the first n octets have come.
Filled(n) == [a \in 1 .. Room |-> IF a <= n THEN a ELSE 0]

Numbers ==
  /\ capacity_ \in Capacities \cup {0}
  /\ got \in Nat /\ taken \in Nat /\ sent \in Nat
  /\ got <= taken /\ taken <= sent /\ sent <= Length

Stored == sb_ = Octets(got, taken) /\ memory = Filled(got)

\* The end has been seen only when all was delivered.
Returned == (ret.ec = "eof" => ended /\ got = taken /\ taken = sent) /\ (ret.ec = "" => ~ret.empty)

\* Which state a read under way is in tells whether octets are buffered.
Waiting ==
  /\ op.state \in {"none", "posted", "buffered", "direct"}
  /\ op.state # "none" => ret.ec = ""
  /\ op.state = "posted" => got < taken
  /\ op.state \in {"buffered", "direct"} => got = taken
  /\ op.state = "buffered" => op.room \in Nat /\ op.room > 0

\* bs are buffers for the next octets of the destination c, at g of F.
Target(bs, c, F, g) == \E m : Run(bs, g, m) /\ m <= F[Len(c.bs)]

\* The destination is at got, and the buffers of a read under way begin there.
Aimed(F) == At(dest, F, got) /\ (op.state # "none" => Target(op.bs, dest, F, got))

Counted ==
  /\ ptr \in Pointers /\ old \in Pointers
  /\ ptr.n <= Copies + 1 /\ old.n <= Copies + 1
  /\ ptr.n > 0 <=> op.state # "none"

\* The smaller of two numbers.
LEMMA MinTwo ==
  ASSUME NEW a, NEW b, a \in Int, b \in Int
  PROVE  Min({a, b}) = IF a <= b THEN a ELSE b
  <1>1. CASE a <= b
    <2>1. a \in {a, b} /\ \A y \in {a, b} : a <= y
      BY <1>1
    <2>2. \A x \in {a, b} : (\A y \in {a, b} : x <= y) => x = a
      BY <1>1
    <2> QED
      BY <1>1, <2>1, <2>2 DEF Min
  <1>2. CASE ~(a <= b)
    <2>1. b \in {a, b} /\ \A y \in {a, b} : b <= y
      BY <1>2
    <2>2. \A x \in {a, b} : (\A y \in {a, b} : x <= y) => x = b
      BY <1>2
    <2> QED
      BY <1>2, <2>1, <2>2 DEF Min
  <1> QED
    BY <1>1, <1>2

\* How many octets may come from the next layer.
LEMMA ReadsFacts ==
  ASSUME NEW m, NEW n, Numbers, m \in Nat, n \in Reads(m)
  PROVE  n \in Nat /\ n <= m /\ taken + n <= sent /\ (n > 0 \/ m = 0)
  <1>1. taken \in Nat /\ sent \in Nat /\ taken <= sent /\ sent - taken \in Int
    BY DEF Numbers
  <1>2. Min({m, sent - taken}) = IF m <= sent - taken THEN m ELSE sent - taken
    BY <1>1, MinTwo
  <1>3. n \in 0 .. Min({m, sent - taken}) /\ (n > 0 \/ m = 0)
    BY DEF Reads
  <1> QED
    BY <1>1, <1>2, <1>3

\* A prefix of what is left of the destination begins where the destination is.
LEMMA PrefixAims ==
  ASSUME NEW c, NEW F, NEW g, NEW n, At(c, F, g), n \in Nat
  PROVE  Target(buffer_prefix(n, consuming_view(c)), c, F, g)
  <1>1. PICK e : e = F[Len(c.bs)]
    OBVIOUS
  <1>2. Run(consuming_view(c), g, e)
    BY <1>1, ViewRun
  <1>3. g \in Nat /\ e \in Nat
    BY <1>2, RunFlat
  <1>4. PICK m : m = IF g + n <= e THEN g + n ELSE e
    OBVIOUS
  <1>5. Run(buffer_prefix(n, consuming_view(c)), g, m)
    BY <1>2, <1>4, PrefixRun
  <1>6. m <= e
    BY <1>3, <1>4
  <1> QED
    BY <1>1, <1>5, <1>6 DEF Target

\* How much is copied, and the memory then.
Copied(r, g, m, t) ==
  /\ r.n \in Nat /\ g + r.n <= m /\ g + r.n <= t /\ (r.n = 0 => m = g \/ t = g)
  /\ r.n = IF m <= t THEN m - g ELSE t - g
  /\ r.memory = Filled(g + r.n)

\* buffer_copy of the octets after g to the buffers after g.
LEMMA CopyFacts ==
  ASSUME NEW bs, NEW g, NEW m, NEW t, NEW r,
         Run(bs, g, m), g \in Nat, t \in Nat, g <= t, memory = Filled(g), r = buffer_copy(bs, Octets(g, t))
  PROVE  Copied(r, g, m, t)
  <1>1. m \in Nat /\ g <= m /\ FlattenSeq(bs) = Octets(g, m)
    BY RunFlat
  <1>2. Len(Octets(g, m)) = m - g /\ \A i \in 1 .. m - g : Octets(g, m)[i] = g + i
    BY <1>1, OctetsFacts
  <1>3. Len(Octets(g, t)) = t - g /\ \A i \in 1 .. t - g : Octets(g, t)[i] = g + i
    BY OctetsFacts
  <1>4. PICK n : n = Min({Len(FlattenSeq(bs)), Len(Octets(g, t))})
    OBVIOUS
  <1>5. n = IF m - g <= t - g THEN m - g ELSE t - g
    <2>1. m - g \in Int /\ t - g \in Int
      BY <1>1
    <2>2. n = Min({m - g, t - g})
      BY <1>1, <1>2, <1>3, <1>4
    <2> QED
      BY <2>1, <2>2, MinTwo
  <1>6. /\ n \in Nat /\ g + n <= m /\ g + n <= t /\ (n = 0 => m = g \/ t = g)
        /\ n = IF m <= t THEN m - g ELSE t - g
    BY <1>1, <1>5
  <1> DEFINE flat == Octets(g, m)
             new == [a \in DOMAIN memory |->
                      IF \E i \in 1 .. n : flat[i] = a THEN Octets(g, t)[CHOOSE i \in 1 .. n : flat[i] = a]
                      ELSE memory[a]]
  <1>7. r = [n |-> n, memory |-> new]
    BY <1>1, <1>4 DEF buffer_copy
  <1>8. r.n = n /\ r.memory = new
    BY <1>7
  <1>9. new = Filled(g + n)
    <2>1. DOMAIN memory = 1 .. Room /\ \A a \in 1 .. Room : memory[a] = IF a <= g THEN a ELSE 0
      BY DEF Filled
    <2>2. ASSUME NEW a \in 1 .. Room PROVE new[a] = IF a <= g + n THEN a ELSE 0
      <3>0. a \in Int /\ 1 <= a
        OBVIOUS
      <3>1. new[a] = IF \E i \in 1 .. n : flat[i] = a
                     THEN Octets(g, t)[CHOOSE i \in 1 .. n : flat[i] = a] ELSE memory[a]
        BY <2>1
      <3>2. \A i \in 1 .. n : flat[i] = g + i /\ Octets(g, t)[i] = g + i
        BY <1>1, <1>2, <1>3, <1>6
      <3> HIDE DEF new, flat
      <3>3. CASE \E i \in 1 .. n : flat[i] = a
        <4>1. PICK k : k = CHOOSE i \in 1 .. n : flat[i] = a
          OBVIOUS
        <4>2. k \in 1 .. n /\ flat[k] = a
          BY <3>3, <4>1
        <4>3. new[a] = Octets(g, t)[k]
          BY <3>1, <3>3, <4>1
        <4>4. new[a] = g + k /\ a = g + k
          BY <3>2, <4>2, <4>3
        <4>5. a <= g + n
          BY <1>6, <4>2, <4>4
        <4> QED
          BY <4>4, <4>5
      <3>4. CASE ~\E i \in 1 .. n : flat[i] = a
        <4>1. new[a] = IF a <= g THEN a ELSE 0
          BY <2>1, <3>1, <3>4
        <4>2. a <= g \/ a > g + n
          <5>1. SUFFICES ASSUME ~(a <= g), a <= g + n PROVE FALSE
            BY <1>6, <3>0
          <5>2. PICK k : k = a - g
            OBVIOUS
          <5>3. k \in 1 .. n /\ g + k = a
            BY <1>6, <3>0, <5>1, <5>2
          <5> QED
            BY <3>2, <3>4, <5>3
        <4> QED
          BY <1>6, <3>0, <4>1, <4>2
      <3> QED
        BY <3>3, <3>4
    <2>3. new = [a \in 1 .. Room |-> new[a]]
      BY <2>1
    <2> HIDE DEF new
    <2> QED
      BY <2>2, <2>3 DEF Filled
  <1> HIDE DEF new, flat
  <1> QED
    BY <1>6, <1>8, <1>9 DEF Copied

\* The destination after n octets for it.
LEMMA AdvanceAim ==
  ASSUME NEW F, NEW n, NEW m, At(dest, F, got), n \in Nat, m \in Nat, got \in Nat,
         got + n <= m, m <= F[Len(dest.bs)]
  PROVE  At(consume(dest, n), F, got + n)
  <1>1. PICK e : e = F[Len(dest.bs)]
    OBVIOUS
  <1>2. e \in Nat
    <2>1. Run(consuming_view(dest), got, e)
      BY <1>1, ViewRun
    <2> QED
      BY <2>1, RunFlat
  <1>3. got + n <= e
    BY <1>1, <1>2
  <1> QED
    BY <1>1, <1>3, ConsumeAt

\* What a read that succeeds leaves: Delivers is what Copy and Direct have in common.
Delivers(F) ==
  /\ got' \in Nat /\ taken' \in Nat /\ got' <= taken' /\ Stored'
  /\ ret'.ec = "" /\ ~ret'.empty /\ At(dest', F, got')

\* The octets buffered go to the caller, when there are some.
LEMMA CopyDelivers ==
  ASSUME NEW bs, NEW t, NEW F,
         got \in Nat, t \in Nat, got < t, taken' = t, memory = Filled(got),
         At(dest, F, got), Target(bs, dest, F, got), Copy(Octets(got, t), bs)
  PROVE  Delivers(F)
  <1>1. PICK m : Run(bs, got, m) /\ m <= F[Len(dest.bs)]
    BY DEF Target
  <1>2. PICK r : r = buffer_copy(bs, Octets(got, t))
    OBVIOUS
  <1>3. m \in Nat /\ got <= m /\ buffer_size(bs) = m - got
    BY <1>1, RunFlat
  <1>4. /\ r.n \in Nat /\ got + r.n <= m /\ got + r.n <= t /\ (r.n = 0 => m = got \/ t = got)
        /\ r.memory = Filled(got + r.n)
    <2>1. got <= t
      OBVIOUS
    <2>2. Copied(r, got, m, t)
      BY <1>1, <1>2, <2>1, CopyFacts
    <2> QED
      BY <2>2 DEF Copied
  <1>5. /\ sb_' = SubSeq(Octets(got, t), r.n + 1, Len(Octets(got, t))) /\ memory' = r.memory
        /\ Returns("", r.n, buffer_size(bs))
    BY <1>2 DEF Copy
  <1>6. ret' = [ec |-> "", empty |-> r.n = 0 /\ buffer_size(bs) > 0] /\ dest' = consume(dest, r.n) /\ got' = got + r.n
    BY <1>5 DEF Returns
  <1>7. sb_' = Octets(got', taken')
    <2>1. Len(Octets(got, t)) = t - got
      <3>1. got <= t
        OBVIOUS
      <3> QED
        BY <3>1, OctetsFacts
    <2>2. r.n <= t - got /\ got <= t
      BY <1>4
    <2>3. SubSeq(Octets(got, t), r.n + 1, t - got) = Octets(got + r.n, t)
      BY <1>4, <2>2, OctetsCut
    <2> QED
      BY <1>5, <1>6, <2>1, <2>3
  <1>8. memory' = Filled(got')
    BY <1>4, <1>5, <1>6
  <1>9. At(dest', F, got')
    BY <1>1, <1>3, <1>4, <1>6, AdvanceAim
  <1>10. ret'.ec = "" /\ ~ret'.empty
    <2>1. ~(r.n = 0 /\ buffer_size(bs) > 0)
      BY <1>3, <1>4
    <2> QED
      BY <1>6, <2>1
  <1>11. got' \in Nat /\ taken' \in Nat /\ got' <= taken'
    <2>1. PICK x : x = r.n
      OBVIOUS
    <2>2. x \in Nat /\ got + x <= t /\ got' = got + x
      BY <1>4, <1>6, <2>1
    <2> QED
      BY <2>2
  <1>12. Stored'
    BY <1>7, <1>8 DEF Stored, Filled, Octets
  <1> QED
    BY <1>9, <1>10, <1>11, <1>12 DEF Delivers

\* Octets of the next layer go straight to the caller.
LEMMA DirectDelivers ==
  ASSUME NEW bs, NEW n, NEW F,
         Numbers, Stored, got = taken, n \in Reads(buffer_size(bs)),
         At(dest, F, got), Target(bs, dest, F, got), Direct(bs, n)
  PROVE  Delivers(F)
  <1>0. got \in Nat /\ taken \in Nat
    BY DEF Numbers
  <1>1. PICK m : Run(bs, got, m) /\ m <= F[Len(dest.bs)]
    BY DEF Target
  <1>2. m \in Nat /\ got <= m /\ buffer_size(bs) = m - got /\ m - got \in Nat
    BY <1>1, RunFlat
  <1>3. n \in Nat /\ n <= m - got /\ (n > 0 \/ m - got = 0)
    BY <1>2, ReadsFacts
  <1>4. PICK t : t = got + n
    OBVIOUS
  <1>5. t \in Nat /\ got <= t /\ t <= m
    BY <1>0, <1>2, <1>3, <1>4
  <1>6. PICK r : r = buffer_copy(bs, Octets(got, t))
    OBVIOUS
  <1>7. r.n = (IF m <= t THEN m - got ELSE t - got) /\ r.memory = Filled(got + r.n)
    <2>1. memory = Filled(got)
      BY DEF Stored
    <2>2. Copied(r, got, m, t)
      BY <1>0, <1>1, <1>5, <1>6, <2>1, CopyFacts
    <2> QED
      BY <2>2 DEF Copied
  <1>8. r.n = n
    BY <1>0, <1>2, <1>3, <1>4, <1>5, <1>7
  <1>9. /\ memory' = r.memory /\ taken' = t /\ sb_' = sb_
        /\ Returns("", n, buffer_size(bs))
    BY <1>4, <1>6 DEF Direct
  <1>10. ret' = [ec |-> "", empty |-> n = 0 /\ buffer_size(bs) > 0] /\ dest' = consume(dest, n) /\ got' = got + n
    BY <1>9 DEF Returns
  <1>11. memory' = Filled(got')
    BY <1>7, <1>8, <1>9, <1>10
  <1>12. sb_' = Octets(got', taken')
    <2>1. sb_ = <<>>
      BY <1>0, OctetsNone DEF Stored
    <2>2. Octets(t, t) = <<>>
      BY <1>5, OctetsNone
    <2> QED
      BY <1>4, <1>9, <1>10, <2>1, <2>2
  <1>13. At(dest', F, got')
    <2>1. got + n <= m
      BY <1>4, <1>5
    <2> QED
      BY <1>0, <1>1, <1>2, <1>3, <1>10, <2>1, AdvanceAim
  <1>14. ret'.ec = "" /\ ~ret'.empty
    <2>1. ~(n = 0 /\ buffer_size(bs) > 0)
      BY <1>2, <1>3
    <2> QED
      BY <1>10, <2>1
  <1>15. got' \in Nat /\ taken' \in Nat /\ got' <= taken'
    <2>1. got' = t /\ taken' = t
      BY <1>4, <1>9, <1>10
    <2> QED
      BY <1>5, <2>1
  <1>16. Stored'
    BY <1>11, <1>12 DEF Stored, Filled, Octets
  <1> QED
    BY <1>13, <1>14, <1>15, <1>16 DEF Delivers

\* A read that fails changes only what it returned.
LEMMA FailsKeeps ==
  ASSUME NEW bs, NEW F, Numbers, Stored, At(dest, F, got), Fails(bs)
  PROVE  /\ got' = got /\ taken' = taken /\ Stored' /\ At(dest', F, got')
         /\ ret'.ec = "eof"
  <1>1. got \in Nat
    BY DEF Numbers
  <1>2. /\ ret' = [ec |-> "eof", empty |-> 0 = 0 /\ buffer_size(bs) > 0] /\ dest' = consume(dest, 0)
        /\ got' = got + 0 /\ sb_' = sb_ /\ memory' = memory /\ taken' = taken
    BY DEF Fails, Returns
  <1>3. got' = got
    BY <1>1, <1>2
  <1>4. At(dest', F, got')
    <2>1. PICK e : e = F[Len(dest.bs)]
      OBVIOUS
    <2>2. Run(consuming_view(dest), got, e)
      BY <2>1, ViewRun
    <2>3. e \in Nat /\ got <= e
      BY <2>2, RunFlat
    <2>4. PICK z : z = 0
      OBVIOUS
    <2>5. z \in Nat /\ got + z <= e /\ e <= F[Len(dest.bs)]
      BY <1>1, <2>1, <2>3, <2>4
    <2>6. At(consume(dest, z), F, got + z)
      BY <1>1, <2>3, <2>5, AdvanceAim
    <2> QED
      BY <1>2, <2>4, <2>6
  <1>5. Stored'
    BY <1>2, <1>3 DEF Stored, Filled, Octets
  <1> QED
    BY <1>2, <1>3, <1>4, <1>5

ReadPart == Numbers /\ Stored /\ Returned /\ Waiting /\ \E F : Aimed(F)

\* What a step that reads nothing may change is not part of the reads.
LEMMA ReadsUntouched ==
  ASSUME Stored, \E F : Aimed(F), UNCHANGED <<sb_, op, dest, memory, got, taken>>
  PROVE  Stored' /\ \E F : Aimed(F)'
  <1>1. sb_' = sb_ /\ op' = op /\ dest' = dest /\ memory' = memory /\ got' = got /\ taken' = taken
    OBVIOUS
  <1>2. Stored'
    BY <1>1 DEF Stored, Filled, Octets
  <1>3. PICK F : Aimed(F)
    OBVIOUS
  <1>4. Aimed(F)'
    BY <1>1, <1>3 DEF Aimed
  <1> QED
    BY <1>2, <1>4

\* A read has delivered octets and is over.
LEMMA DeliverStep ==
  ASSUME NEW F, ReadPart, Delivers(F), op'.state = "none", Others, taken' <= sent
  PROVE  ReadPart'
  <1>1. capacity_' = capacity_ /\ sent' = sent /\ ended' = ended
    BY DEF Others
  <1>2. got' \in Nat /\ taken' \in Nat /\ got' <= taken' /\ Stored' /\ ret'.ec = "" /\ ~ret'.empty /\ At(dest', F, got')
    BY DEF Delivers
  <1>3. Numbers'
    BY <1>1, <1>2 DEF ReadPart, Numbers
  <1>4. Returned'
    BY <1>2 DEF Returned
  <1>5. Waiting'
    BY DEF Waiting
  <1>6. Aimed(F)'
    BY <1>2 DEF Aimed
  <1> QED
    BY <1>2, <1>3, <1>4, <1>5, <1>6 DEF ReadPart

\* A read has reported the end and is over.
LEMMA FailStep ==
  ASSUME NEW bs, NEW F, ReadPart, At(dest, F, got), Fails(bs), got = taken, Eof, op'.state = "none", Others
  PROVE  ReadPart'
  <1>1. capacity_' = capacity_ /\ sent' = sent /\ ended' = ended
    BY DEF Others
  <1>2. Numbers /\ Stored
    BY DEF ReadPart
  <1>3. got' = got /\ taken' = taken /\ Stored' /\ At(dest', F, got') /\ ret'.ec = "eof"
    BY <1>2, FailsKeeps
  <1>4. Numbers'
    BY <1>1, <1>2, <1>3 DEF Numbers
  <1>5. Returned'
    BY <1>1, <1>3 DEF Returned, Eof
  <1>6. Waiting'
    BY DEF Waiting
  <1>7. Aimed(F)'
    BY <1>3 DEF Aimed
  <1> QED
    BY <1>3, <1>4, <1>5, <1>6, <1>7 DEF ReadPart

\* Copy of octets just taken, when none were buffered.
LEMMA TakeAndCopy ==
  ASSUME NEW bs, NEW F, NEW m, NEW n, ReadPart, At(dest, F, got), Target(bs, dest, F, got), got = taken,
         m \in Nat, m > 0, n \in Reads(m), taken' = taken + n, Copy(Octets(taken, taken + n), bs),
         op'.state = "none", Others
  PROVE  ReadPart'
  <1>1. Numbers /\ Stored
    BY DEF ReadPart
  <1>2. n \in Nat /\ taken + n <= sent /\ n > 0
    BY <1>1, ReadsFacts
  <1>3. PICK t : t = taken + n
    OBVIOUS
  <1>4. got \in Nat /\ t \in Nat /\ got < t /\ taken' = t /\ t <= sent
    BY <1>1, <1>2, <1>3 DEF Numbers
  <1>5. Copy(Octets(got, t), bs) /\ memory = Filled(got)
    BY <1>1, <1>3 DEF Stored
  <1>6. Delivers(F)
    BY <1>4, <1>5, CopyDelivers
  <1>7. taken' <= sent
    BY <1>4
  <1> QED
    BY <1>6, <1>7, DeliverStep

\* Copy of octets that were buffered.
LEMMA CopyBuffered ==
  ASSUME NEW bs, NEW F, ReadPart, At(dest, F, got), Target(bs, dest, F, got), got < taken,
         Copy(sb_, bs), taken' = taken, op'.state = "none", Others
  PROVE  ReadPart'
  <1>1. got \in Nat /\ taken \in Nat /\ taken <= sent
    BY DEF ReadPart, Numbers
  <1>2. Copy(Octets(got, taken), bs) /\ memory = Filled(got)
    BY DEF ReadPart, Stored
  <1>3. PICK t : t = taken
    OBVIOUS
  <1>4. Delivers(F)
    BY <1>1, <1>2, <1>3, CopyDelivers
  <1>5. taken' <= sent
    BY <1>1
  <1> QED
    BY <1>4, <1>5, DeliverStep

\* Octets that are not buffered on the way.
LEMMA TakeDirect ==
  ASSUME NEW bs, NEW F, NEW n, ReadPart, At(dest, F, got), Target(bs, dest, F, got), got = taken,
         n \in Reads(buffer_size(bs)), Direct(bs, n), op'.state = "none", Others
  PROVE  ReadPart'
  <1>1. Numbers /\ Stored
    BY DEF ReadPart
  <1>2. Delivers(F)
    BY <1>1, DirectDelivers
  <1>3. buffer_size(bs) \in Nat
    <2>1. PICK m : Run(bs, got, m)
      BY DEF Target
    <2> QED
      BY <2>1, RunFlat
  <1>4. taken + n <= sent
    BY <1>1, <1>3, ReadsFacts
  <1>5. taken' <= sent
    BY <1>4 DEF Direct
  <1> QED
    BY <1>2, <1>5, DeliverStep

\* The buffer is empty when all that was taken is delivered, and only then.
LEMMA BufferedOrNot ==
  ASSUME ReadPart
  PROVE  (sb_ = <<>> <=> got = taken) /\ (sb_ # <<>> <=> got < taken) /\ got \in Nat /\ taken \in Nat
  <1>1. got \in Nat /\ taken \in Nat /\ got <= taken /\ sb_ = Octets(got, taken)
    BY DEF ReadPart, Numbers, Stored
  <1>2. sb_ = <<>> <=> got = taken
    BY <1>1, OctetsNone
  <1> QED
    BY <1>1, <1>2

\* read_some
LEMMA ReadSomeStep ==
  ASSUME NEW limit, limit \in Limits, ReadPart, ReadSome(limit)
  PROVE  ReadPart'
  <1>1. PICK F : Aimed(F)
    BY DEF ReadPart
  <1>2. At(dest, F, got) /\ limit \in Nat
    BY <1>1, SizesAreNumbers DEF Aimed
  <1>3. PICK bs : bs = buffer_prefix(limit, consuming_view(dest))
    OBVIOUS
  <1>4. Target(bs, dest, F, got)
    BY <1>2, <1>3, PrefixAims
  <1>5. op'.state = "none" /\ Others
    BY DEF ReadSome
  <1>6. \/ sb_ # <<>> /\ Copy(sb_, bs) /\ taken' = taken
        \/ sb_ = <<>> /\ \E n \in Reads(buffer_size(bs)) : Direct(bs, n)
        \/ sb_ = <<>> /\ capacity_ > 0 /\ \E n \in Reads(capacity_) :
             taken' = taken + n /\ Copy(Octets(taken, taken + n), bs)
        \/ sb_ = <<>> /\ Eof /\ Fails(bs)
    BY <1>3 DEF ReadSome
  <1>7. CASE sb_ # <<>> /\ Copy(sb_, bs) /\ taken' = taken
    <2>1. got < taken
      BY <1>7, BufferedOrNot
    <2> QED
      BY <1>2, <1>4, <1>5, <1>7, <2>1, CopyBuffered
  <1>8. CASE sb_ = <<>> /\ \E n \in Reads(buffer_size(bs)) : Direct(bs, n)
    <2>1. got = taken
      BY <1>8, BufferedOrNot
    <2>2. PICK n \in Reads(buffer_size(bs)) : Direct(bs, n)
      BY <1>8
    <2> QED
      BY <1>2, <1>4, <1>5, <2>1, <2>2, TakeDirect
  <1>9. CASE sb_ = <<>> /\ capacity_ > 0 /\ \E n \in Reads(capacity_) :
               taken' = taken + n /\ Copy(Octets(taken, taken + n), bs)
    <2>1. got = taken
      BY <1>9, BufferedOrNot
    <2>2. PICK n \in Reads(capacity_) : taken' = taken + n /\ Copy(Octets(taken, taken + n), bs)
      BY <1>9
    <2>3. capacity_ \in Nat /\ capacity_ > 0
      BY <1>9, SizesAreNumbers DEF ReadPart, Numbers
    <2> QED
      BY <1>2, <1>4, <1>5, <2>1, <2>2, <2>3, TakeAndCopy
  <1>10. CASE sb_ = <<>> /\ Eof /\ Fails(bs)
    <2>1. got = taken
      BY <1>10, BufferedOrNot
    <2> QED
      BY <1>2, <1>5, <1>10, <2>1, FailStep
  <1> QED
    BY <1>6, <1>7, <1>8, <1>9, <1>10

\* async_read_some: what the operation remembers stays true until it goes on.
LEMMA AsyncReadSomeStep ==
  ASSUME NEW limit, limit \in Limits, ReadPart, AsyncReadSome(limit)
  PROVE  ReadPart'
  <1>1. PICK F : Aimed(F)
    BY DEF ReadPart
  <1>2. At(dest, F, got) /\ limit \in Nat
    BY <1>1, SizesAreNumbers DEF Aimed
  <1>3. PICK bs : bs = buffer_prefix(limit, consuming_view(dest))
    OBVIOUS
  <1>4. Target(bs, dest, F, got)
    BY <1>2, <1>3, PrefixAims
  <1>5. /\ op' = Start(bs) /\ ret.ec = ""
        /\ sb_' = sb_ /\ ret' = ret /\ dest' = dest /\ memory' = memory /\ got' = got /\ taken' = taken
        /\ capacity_' = capacity_ /\ sent' = sent /\ ended' = ended
    BY <1>3 DEF AsyncReadSome, Others
  <1>6. Numbers' /\ Returned'
    BY <1>5 DEF ReadPart, Numbers, Returned
  <1>7. Stored'
    BY <1>5 DEF ReadPart, Stored, Filled, Octets
  <1>8. Aimed(F)'
    <2>1. op'.bs = bs
      BY <1>5 DEF Start
    <2> QED
      BY <1>2, <1>4, <1>5, <2>1 DEF Aimed
  <1>9. Waiting'
    <2>0. capacity_ \in Nat
      BY SizesAreNumbers DEF ReadPart, Numbers
    <2>1. CASE sb_ # <<>>
      <3>1. op'.state = "posted"
        BY <1>5, <2>1 DEF Start
      <3>2. got < taken
        BY <2>1, BufferedOrNot
      <3> QED
        BY <1>5, <3>1, <3>2 DEF Waiting
    <2>2. CASE sb_ = <<>> /\ capacity_ > 0
      <3>1. op'.state = "buffered" /\ op'.room = capacity_
        BY <1>5, <2>2 DEF Start
      <3>2. got = taken
        BY <2>2, BufferedOrNot
      <3> QED
        BY <1>5, <2>0, <2>2, <3>1, <3>2 DEF Waiting
    <2>3. CASE sb_ = <<>> /\ ~(capacity_ > 0)
      <3>1. op'.state = "direct"
        BY <1>5, <2>3 DEF Start
      <3>2. got = taken
        BY <2>3, BufferedOrNot
      <3> QED
        BY <1>5, <3>1, <3>2 DEF Waiting
    <2> QED
      BY <2>1, <2>2, <2>3
  <1> QED
    BY <1>6, <1>7, <1>8, <1>9 DEF ReadPart

\* The states of read_some_op that end in the upcall.
LEMMA CompletionStep ==
  ASSUME ReadPart, ReadPosted \/ ReadBuffered \/ ReadDirect \/ ReadEof
  PROVE  ReadPart'
  <1>0. op'.state = "none" /\ Others
    BY DEF ReadPosted, ReadBuffered, ReadDirect, ReadEof, Upcall, NoRead
  <1>1. PICK F : Aimed(F)
    BY DEF ReadPart
  <1>2. op.state # "none"
    BY DEF ReadPosted, ReadBuffered, ReadDirect, ReadEof
  <1>3. At(dest, F, got) /\ Target(op.bs, dest, F, got)
    BY <1>1, <1>2 DEF Aimed
  <1>4. Waiting
    BY DEF ReadPart
  <1>5. PICK bs : bs = op.bs
    OBVIOUS
  <1>6. CASE ReadPosted
    <2>1. got < taken /\ Copy(sb_, bs) /\ taken' = taken
      BY <1>4, <1>5, <1>6 DEF ReadPosted, Waiting
    <2> QED
      BY <1>0, <1>3, <1>5, <2>1, CopyBuffered
  <1>7. CASE ReadBuffered
    <2>1. got = taken /\ op.room \in Nat /\ op.room > 0
      BY <1>4, <1>7 DEF ReadBuffered, Waiting
    <2>2. PICK n \in Reads(op.room) : taken' = taken + n /\ Copy(sb_ \o Octets(taken, taken + n), bs)
      BY <1>5, <1>7 DEF ReadBuffered
    <2>3. sb_ \o Octets(taken, taken + n) = Octets(taken, taken + n)
      <3>1. got \in Nat /\ taken \in Nat /\ n \in Nat
        <4>1. Numbers
          BY DEF ReadPart
        <4>2. n \in Nat
          BY <2>1, <4>1, ReadsFacts
        <4> QED
          BY <4>1, <4>2 DEF Numbers
      <3>2. PICK t : t = taken + n
        OBVIOUS
      <3>3. t \in Nat /\ got <= taken /\ taken <= t
        BY <2>1, <3>1, <3>2
      <3>4. Octets(got, taken) \o Octets(taken, t) = Octets(got, t)
        BY <3>1, <3>3, OctetsJoin
      <3> QED
        BY <2>1, <3>2, <3>4 DEF ReadPart, Stored
    <2>4. taken' = taken + n /\ Copy(Octets(taken, taken + n), bs)
      BY <2>2, <2>3
    <2> QED
      BY <1>0, <1>3, <1>5, <2>1, <2>4, TakeAndCopy
  <1>8. CASE ReadDirect
    <2>1. got = taken
      BY <1>4, <1>8 DEF ReadDirect, Waiting
    <2>2. PICK n \in Reads(buffer_size(bs)) : Direct(bs, n)
      BY <1>5, <1>8 DEF ReadDirect
    <2> QED
      BY <1>0, <1>3, <1>5, <2>1, <2>2, TakeDirect
  <1>9. CASE ReadEof
    <2>1. got = taken /\ Eof /\ Fails(bs)
      BY <1>4, <1>5, <1>9 DEF ReadEof, Waiting
    <2> QED
      BY <1>0, <1>3, <2>1, FailStep
  <1> QED
    BY <1>6, <1>7, <1>8, <1>9

\* The pointers are counted: as many copies as asio keeps, none when no read is under way.
LEMMA CountStep ==
  ASSUME Counted, ReadPart, [Next]_vars
  PROVE  Counted'
  <1>0. /\ ptr \in Pointers /\ old \in Pointers /\ ptr.n <= Copies + 1 /\ old.n <= Copies + 1
        /\ ptr.n > 0 <=> op.state # "none"
    BY DEF Counted
  <1>c. Copies \in Nat
    BY SizesAreNumbers
  <1>p. /\ null \in Pointers /\ null.n = 0 /\ P \in Pointers /\ P.n = 1
        /\ ptr.n \in Nat /\ old.n \in Nat
    BY <1>0 DEF null, P, Pointers
  <1>1. ASSUME UNCHANGED <<op, ptr, old>> PROVE Counted'
    BY <1>0, <1>1 DEF Counted
  <1>2. ASSUME Upcall PROVE Counted'
    <2>1. op'.state = "none" /\ old' = invoke(ptr) /\ ptr' = null
      BY <1>2 DEF Upcall, NoRead
    <2>2. old' \in Pointers /\ old'.n = ptr.n
      <3>1. invoke(ptr) \in Pointers
        BY <1>0, PointerFacts
      <3>2. invoke(ptr).n = ptr.n
        BY <1>0 DEF Pointers, invoke
      <3> QED
        BY <2>1, <3>1, <3>2
    <2> QED
      BY <1>0, <1>c, <1>p, <2>1, <2>2 DEF Counted
  <1>3. ASSUME NEW n \in Limits, AsyncReadSome(n) PROVE Counted'
    <2>1. ptr' = P /\ old' = old /\ \E bs : op' = Start(bs)
      BY <1>3 DEF AsyncReadSome
    <2>2. op'.state # "none"
      BY <2>1 DEF Start
    <2> QED
      BY <1>0, <1>c, <1>p, <2>1, <2>2 DEF Counted
  <1>4. CASE HandlerReturns
    <2>1. old' = drop_ptr(old) /\ op' = op /\ ptr' = ptr
      BY <1>4 DEF HandlerReturns
    <2>2. old' \in Pointers
      BY <1>0, <2>1, PointerFacts
    <2>3. old'.n <= Copies + 1
      <3>1. CASE old.n > 1
        <4>1. drop_ptr(old).n = old.n - 1
          BY <1>0, <3>1 DEF Pointers, drop_ptr
        <4> QED
          BY <1>0, <1>c, <1>p, <2>1, <4>1
      <3>2. CASE ~(old.n > 1)
        BY <1>c, <1>p, <2>1, <3>2 DEF drop_ptr
      <3> QED
        BY <3>1, <3>2
    <2> QED
      BY <1>0, <2>1, <2>2, <2>3 DEF Counted
  <1>5. CASE CopyHandler
    <2>1. op.state # "none" /\ ptr.n <= Copies /\ ptr' = copy_ptr(ptr) /\ op' = op /\ old' = old
      BY <1>5 DEF CopyHandler
    <2>2. ptr' \in Pointers
      BY <1>0, <2>1, PointerFacts
    <2>3. ptr'.n = ptr.n + 1
      BY <1>0, <2>1 DEF Pointers, copy_ptr
    <2> QED
      BY <1>0, <1>c, <1>p, <2>1, <2>2, <2>3 DEF Counted
  <1>6. CASE DropHandler
    <2>1. op.state # "none" /\ ptr.n > 1 /\ ptr' = drop_ptr(ptr) /\ op' = op /\ old' = old
      BY <1>6 DEF DropHandler
    <2>2. ptr' \in Pointers
      BY <1>0, <2>1, PointerFacts
    <2>3. ptr'.n = ptr.n - 1
      BY <1>0, <2>1 DEF Pointers, drop_ptr
    <2> QED
      BY <1>0, <1>c, <1>p, <2>1, <2>2, <2>3 DEF Counted
  <1>7. ASSUME NEW n \in Limits, ReadSome(n) \/ WriteFrame(n) PROVE Counted'
    BY <1>1, <1>7 DEF ReadSome, WriteFrame, readVars
  <1>8. ASSUME NEW c \in Capacities, SetCapacity(c) PROVE Counted'
    BY <1>1, <1>8 DEF SetCapacity, readVars
  <1>9. CASE ReadPosted \/ ReadBuffered \/ ReadDirect \/ ReadEof
    BY <1>2, <1>9 DEF ReadPosted, ReadBuffered, ReadDirect, ReadEof
  <1>10. CASE Send \/ End
    BY <1>1, <1>10 DEF Send, End, readVars
  <1>11. CASE UNCHANGED vars
    BY <1>1, <1>11 DEF vars
  <1> QED
    BY <1>3, <1>4, <1>5, <1>6, <1>7, <1>8, <1>9, <1>10, <1>11 DEF Next, Handlers

\* Every step keeps the invariant of the reads.
LEMMA ReadStep ==
  ASSUME ReadPart, [Next]_vars
  PROVE  ReadPart'
  <1>0. Numbers /\ Stored /\ Returned /\ Waiting /\ \E F : Aimed(F)
    BY DEF ReadPart
  <1>1. ASSUME NEW n \in Limits, ReadSome(n) PROVE ReadPart'
    BY <1>1, ReadSomeStep
  <1>2. ASSUME NEW n \in Limits, AsyncReadSome(n) PROVE ReadPart'
    BY <1>2, AsyncReadSomeStep
  <1>3. CASE ReadPosted \/ ReadBuffered \/ ReadDirect \/ ReadEof
    BY <1>3, CompletionStep
  <1>4. ASSUME UNCHANGED <<sb_, op, ret, dest, memory, got, taken>>, UNCHANGED <<capacity_, sent, ended>>
        PROVE  ReadPart'
    <2>1. Stored' /\ \E F : Aimed(F)'
      BY <1>0, <1>4, ReadsUntouched
    <2>2. Numbers' /\ Returned' /\ Waiting'
      BY <1>0, <1>4 DEF Numbers, Returned, Waiting
    <2> QED
      BY <2>1, <2>2 DEF ReadPart
  <1>5. ASSUME NEW n \in Limits, WriteFrame(n) PROVE ReadPart'
    BY <1>4, <1>5 DEF WriteFrame, readVars
  <1>6. CASE HandlerReturns \/ CopyHandler \/ DropHandler
    BY <1>4, <1>6 DEF HandlerReturns, CopyHandler, DropHandler, Others
  <1>7. CASE UNCHANGED vars
    BY <1>4, <1>7 DEF vars
  <1>8. ASSUME NEW c \in Capacities, SetCapacity(c) PROVE ReadPart'
    <2>1. UNCHANGED <<sb_, op, ret, dest, memory, got, taken>> /\ UNCHANGED <<sent, ended>> /\ capacity_' = c
      BY <1>8 DEF SetCapacity, readVars
    <2>2. Stored' /\ \E F : Aimed(F)'
      BY <1>0, <2>1, ReadsUntouched
    <2>3. Numbers' /\ Returned' /\ Waiting'
      BY <1>0, <2>1 DEF Numbers, Returned, Waiting
    <2> QED
      BY <2>2, <2>3 DEF ReadPart
  <1>9. CASE Send
    <2>1. /\ UNCHANGED <<sb_, op, ret, dest, memory, got, taken>> /\ UNCHANGED <<capacity_, ended>> /\ ~ended
          /\ \E n \in 1 .. Length - sent : sent' = sent + n
      BY <1>9 DEF Send, readVars
    <2>2. Stored' /\ \E F : Aimed(F)'
      BY <1>0, <2>1, ReadsUntouched
    <2>3. Numbers'
      BY <1>0, <2>1, SizesAreNumbers DEF Numbers
    <2>4. Returned' /\ Waiting'
      BY <1>0, <2>1 DEF Returned, Waiting
    <2> QED
      BY <2>2, <2>3, <2>4 DEF ReadPart
  <1>10. CASE End
    <2>1. UNCHANGED <<sb_, op, ret, dest, memory, got, taken>> /\ UNCHANGED <<capacity_, sent>> /\ ended'
      BY <1>10 DEF End, readVars
    <2>2. Stored' /\ \E F : Aimed(F)'
      BY <1>0, <2>1, ReadsUntouched
    <2>3. Numbers' /\ Returned' /\ Waiting'
      BY <1>0, <2>1 DEF Numbers, Returned, Waiting
    <2> QED
      BY <2>2, <2>3 DEF ReadPart
  <1> QED
    BY <1>1, <1>2, <1>3, <1>5, <1>6, <1>7, <1>8, <1>9, <1>10 DEF Next, Handlers

\* Nothing is read at the beginning.
LEMMA ReadInit ==
  ASSUME Init
  PROVE  ReadPart /\ Counted
  <1>1. capacity_ = 0 /\ got = 0 /\ taken = 0 /\ sent = 0
    BY DEF Init
  <1>b. sb_ = <<>> /\ memory = [a \in 1 .. Room |-> 0]
    BY DEF Init
  <1>o. op.state = "none" /\ ptr = null /\ old = null
    BY DEF Init, NoRead
  <1>r. ret.ec = "" /\ ~ret.empty
    BY DEF Init
  <1>2. Numbers
    BY <1>1, SizesAreNumbers DEF Numbers
  <1>3. Stored
    <2>1. sb_ = Octets(got, taken)
      <3>1. got \in Nat /\ taken \in Nat /\ got <= taken /\ got = taken
        BY <1>1
      <3> QED
        BY <1>b, <3>1, OctetsNone
    <2>2. memory = Filled(got)
      <3>1. \A a \in 1 .. Room : ~(a <= 0)
        OBVIOUS
      <3> QED
        BY <1>1, <1>b, <3>1 DEF Filled
    <2> QED
      BY <2>1, <2>2 DEF Stored
  <1>4. Returned /\ Waiting
    BY <1>o, <1>r DEF Returned, Waiting
  <1>5. \E F : Aimed(F)
    <2>1. PICK s \in Shapes : dest = consuming_buffers(Blocks(s))
      BY DEF Init
    <2>2. s \in Seq(Nat)
      BY SizesAreNumbers
    <2>3. PICK F : At(consuming_buffers(Blocks(s)), F, 0)
      BY <2>2, BeginsAt
    <2>4. Aimed(F)
      BY <1>1, <1>o, <2>1, <2>3 DEF Aimed
    <2> QED
      BY <2>4
  <1>6. Counted
    <2>1. null \in Pointers /\ null.n = 0
      BY DEF null, Pointers
    <2> QED
      BY <1>o, <2>1, SizesAreNumbers DEF Counted
  <1> QED
    BY <1>2, <1>3, <1>4, <1>5, <1>6 DEF ReadPart

\* What the invariant says of a reader.
LEMMA ReadImplies ==
  ASSUME ReadPart, Counted
  PROVE  ReadsFaithful
  <1>1. Numbers /\ Stored /\ Returned /\ Waiting
    BY DEF ReadPart
  <1>2. TypeOK
    <2>1. ptr.n \in Nat /\ old.n \in Nat
      BY DEF Counted, Pointers
    <2>2. ptr.n \in 0 .. Copies + 1 /\ old.n \in 0 .. Copies + 1 /\ (ptr.n > 0 <=> op.state # "none")
      BY <2>1, SizesAreNumbers DEF Counted
    <2>3. capacity_ \in Capacities \cup {0} /\ taken \in 0 .. sent /\ sent \in 0 .. Length /\ got \in 0 .. taken
      BY <1>1, SizesAreNumbers DEF Numbers
    <2> QED
      BY <1>1, <2>2, <2>3 DEF TypeOK, Waiting
  <1>3. ReadsInOrder
    BY <1>1 DEF ReadsInOrder, Stored, Filled
  <1>4. EofLast
    <2>1. got \in Nat /\ taken \in Nat
      BY <1>1 DEF Numbers
    <2>2. got = taken => sb_ = <<>>
      BY <1>1, <2>1, OctetsNone DEF Stored
    <2> QED
      BY <1>1, <2>2 DEF EofLast, Returned
  <1> QED
    BY <1>2, <1>3, <1>4 DEF ReadsFaithful

\* A reader of buffered_read_stream sees the octets of the peer in order, each once and
\* all of them before the end, for every capacity, every size of the reads and every
\* shape of the destination, whichever of the reads are asynchronous and whatever
\* happens while one is under way.
THEOREM ReadsAreFaithful == Spec => []ReadsFaithful
<1> DEFINE I == ReadPart /\ Counted
<1>1. Init => I
  BY ReadInit
<1>2. I /\ [Next]_vars => I'
  BY CountStep, ReadStep
<1>3. I => ReadsFaithful
  BY ReadImplies
<1> HIDE DEF I
<1> QED
  BY <1>1, <1>2, <1>3, PTL DEF Spec
=============================================================================
