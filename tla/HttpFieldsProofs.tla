-------------------------- MODULE HttpFieldsProofs --------------------------
(***************************************************************************)
(* The list, the set, the lookups and the allocators of the containers of  *)
(* header fields agree (ContainersAgree), for any containers, allocators,  *)
(* heap and program.                                                       *)
(***************************************************************************)
EXTENDS HttpHeaders, NatInduction, FiniteSetTheorems

-----------------------------------------------------------------------------
(* Sequences                                                               *)

\* Reading a sequence with one element put in (set_.insert_before).
LEMMA InsertAtReads ==
  ASSUME NEW s, NEW i, NEW b,
         s \in Seq(Blocks), i \in 1 .. Len(s) + 1, b \in Blocks
  PROVE  /\ InsertAt(s, i, b) \in Seq(Blocks)
         /\ Len(InsertAt(s, i, b)) = Len(s) + 1
         /\ \A j \in 1 .. Len(s) + 1 :
              InsertAt(s, i, b)[j] = IF j < i THEN s[j] ELSE IF j = i THEN b ELSE s[j - 1]
  <1> DEFINE front == SubSeq(s, 1, i - 1)
             back == SubSeq(s, i, Len(s))
  <1>1. front \in Seq(Blocks) /\ Len(front) = i - 1 /\ \A j \in 1 .. i - 1 : front[j] = s[j]
    OBVIOUS
  <1>2. back \in Seq(Blocks) /\ Len(back) = Len(s) + 1 - i /\ \A j \in 1 .. Len(s) + 1 - i : back[j] = s[j + i - 1]
    OBVIOUS
  <1>3. InsertAt(s, i, b) = front \o <<b>> \o back
    BY DEF InsertAt
  <1> HIDE DEF front, back
  <1>4. front \o <<b>> \in Seq(Blocks) /\ Len(front \o <<b>>) = i
        /\ (front \o <<b>>)[i] = b /\ \A j \in 1 .. i - 1 : (front \o <<b>>)[j] = s[j]
    BY <1>1
  <1> DEFINE ahead == front \o <<b>>
  <1> HIDE DEF ahead
  <1>5. ahead \in Seq(Blocks) /\ Len(ahead) = i /\ ahead[i] = b /\ \A j \in 1 .. i - 1 : ahead[j] = s[j]
    BY <1>4 DEF ahead
  <1>6. InsertAt(s, i, b) = ahead \o back
    BY <1>3 DEF ahead
  <1>7. ahead \in Seq(Blocks) /\ back \in Seq(Blocks) /\ Len(ahead) = i /\ Len(back) = Len(s) + 1 - i
    BY <1>2, <1>5
  <1>8. ahead \o back \in Seq(Blocks)
    BY <1>7
  <1>9. Len(ahead \o back) = Len(s) + 1
    <2>1. Len(ahead \o back) = Len(ahead) + Len(back)
      BY <1>7
    <2>2. i \in Int /\ Len(s) \in Int
      OBVIOUS
    <2> QED
      BY <1>7, <2>1, <2>2
  <1>10. ASSUME NEW j \in 1 .. Len(s) + 1, j < i PROVE (ahead \o back)[j] = s[j]
    BY <1>2, <1>5, <1>10
  <1>11. (ahead \o back)[i] = b
    BY <1>2, <1>5
  <1>12. ASSUME NEW j \in 1 .. Len(s) + 1, j > i PROVE (ahead \o back)[j] = s[j - 1]
    <2>1. (ahead \o back)[j] = back[j - i]
      BY <1>2, <1>5, <1>12
    <2>2. back[j - i] = s[j - 1]
      BY <1>2, <1>12
    <2> QED
      BY <2>1, <2>2
  <1> DEFINE r == ahead \o back
  <1>13. /\ \A j \in 1 .. Len(s) + 1 : (j < i => r[j] = s[j]) /\ (j > i => r[j] = s[j - 1])
         /\ r[i] = b
    BY <1>10, <1>11, <1>12
  <1> HIDE DEF r
  <1>14. \A j \in 1 .. Len(s) + 1 : r[j] = IF j < i THEN s[j] ELSE IF j = i THEN b ELSE s[j - 1]
    BY <1>13
  <1> QED
    BY <1>6, <1>8, <1>9, <1>14 DEF r

\* Reading a sequence with one element taken out (set_.erase, list_.erase).
LEMMA RemoveAtReads ==
  ASSUME NEW s, NEW i,
         s \in Seq(Blocks), i \in 1 .. Len(s)
  PROVE  /\ RemoveAt(s, i) \in Seq(Blocks)
         /\ Len(RemoveAt(s, i)) = Len(s) - 1
         /\ \A j \in 1 .. Len(s) - 1 : RemoveAt(s, i)[j] = IF j < i THEN s[j] ELSE s[j + 1]
  <1> DEFINE front == SubSeq(s, 1, i - 1)
             back == SubSeq(s, i + 1, Len(s))
  <1>1. front \in Seq(Blocks) /\ Len(front) = i - 1 /\ \A j \in 1 .. i - 1 : front[j] = s[j]
    OBVIOUS
  <1>2. back \in Seq(Blocks) /\ Len(back) = Len(s) - i /\ \A j \in 1 .. Len(s) - i : back[j] = s[j + i]
    OBVIOUS
  <1>3. RemoveAt(s, i) = front \o back
    BY DEF RemoveAt
  <1> HIDE DEF front, back
  <1>4. front \o back \in Seq(Blocks) /\ Len(front \o back) = Len(s) - 1
    BY <1>1, <1>2
  <1>5. ASSUME NEW j \in 1 .. Len(s) - 1, j < i PROVE (front \o back)[j] = s[j]
    BY <1>1, <1>2, <1>5
  <1>6. ASSUME NEW j \in 1 .. Len(s) - 1, j >= i PROVE (front \o back)[j] = s[j + 1]
    <2>1. (front \o back)[j] = back[j - (i - 1)]
      BY <1>1, <1>2, <1>6
    <2>2. back[j - (i - 1)] = s[j + 1]
      BY <1>2, <1>6
    <2> QED
      BY <2>1, <2>2
  <1> DEFINE r == front \o back
  <1>7. \A j \in 1 .. Len(s) - 1 : (j < i => r[j] = s[j]) /\ (j >= i => r[j] = s[j + 1])
    BY <1>5, <1>6
  <1> HIDE DEF r
  <1>8. \A j \in 1 .. Len(s) - 1 : r[j] = IF j < i THEN s[j] ELSE s[j + 1]
    BY <1>7
  <1> QED
    BY <1>3, <1>4, <1>8 DEF r

\* A sequence of n elements is a function on 1 .. n.
LEMMA SeqIsFunction ==
  ASSUME NEW s, NEW n,
         s \in Seq(Blocks), Len(s) = n
  PROVE  s \in [1 .. n -> Blocks]
  OBVIOUS

\* A set of numbers up to n that holds with each number the smaller ones is the
\* numbers up to its size.
LEMMA DownClosed ==
  ASSUME NEW n, NEW T,
         n \in Nat, T \in SUBSET (1 .. n), \A k \in T : \A j \in 1 .. n : j < k => j \in T
  PROVE  Cardinality(T) \in 0 .. n /\ T = 1 .. Cardinality(T)
  <1> DEFINE Holds(x) == \A U \in SUBSET (1 .. x) :
                           (\A k \in U : \A j \in 1 .. x : j < k => j \in U)
                           => Cardinality(U) \in 0 .. x /\ U = 1 .. Cardinality(U)
             H == {x \in Nat : Holds(x)}
  <1>1. 0 \in H
    <2>1. ASSUME NEW U \in SUBSET (1 .. 0) PROVE Cardinality(U) \in 0 .. 0 /\ U = 1 .. Cardinality(U)
      <3>1. U = {} /\ 1 .. 0 = {}
        OBVIOUS
      <3>2. Cardinality(U) = 0
        BY <3>1, FS_EmptySet
      <3> QED
        BY <3>1, <3>2
    <2> QED
      BY <2>1
  <1>2. ASSUME NEW x \in H PROVE x + 1 \in H
    <2>1. x \in Nat /\ x + 1 \in Nat /\ Holds(x)
      OBVIOUS
    <2>2. ASSUME NEW U \in SUBSET (1 .. x + 1), \A k \in U : \A j \in 1 .. x + 1 : j < k => j \in U
          PROVE  Cardinality(U) \in 0 .. x + 1 /\ U = 1 .. Cardinality(U)
      <3>1. CASE x + 1 \in U
        <4>1. ASSUME NEW j \in 1 .. x + 1 PROVE j \in U
          <5>1. j = x + 1 \/ j < x + 1
            BY <2>1
          <5> QED
            BY <2>2, <3>1, <5>1
        <4>3. U = 1 .. x + 1
          BY <4>1
        <4>2. Cardinality(1 .. x + 1) = x + 1
          BY <2>1, FS_Interval
        <4> QED
          BY <2>1, <4>2, <4>3
      <3>2. CASE x + 1 \notin U
        <4>1. U \in SUBSET (1 .. x)
          BY <2>1, <3>2
        <4>2. \A k \in U : \A j \in 1 .. x : j < k => j \in U
          BY <2>1, <2>2
        <4>3. Cardinality(U) \in 0 .. x /\ U = 1 .. Cardinality(U)
          BY <2>1, <4>1, <4>2
        <4> QED
          BY <2>1, <4>3
      <3> QED
        BY <3>1, <3>2
    <2>3. Holds(x + 1)
      BY <2>2
    <2> QED
      BY <2>1, <2>3
  <1> HIDE DEF H
  <1>3. H = Nat
    <2>1. H \in SUBSET Nat
      BY DEF H
    <2> QED
      BY <1>1, <1>2, <2>1, NatBySuccessor
  <1>4. Holds(n)
    BY <1>3 DEF H
  <1> QED
    BY <1>4

-----------------------------------------------------------------------------
(* One container: the multiset s, the list l and the places K of the names *)

\* No element is on a sequence twice.
Distinct(n, l) == \A x, y \in 1 .. n : l[x] = l[y] => x = y

\* Every element of s is on l.
Covers(n, l, s) == \A j \in 1 .. n : \E x \in 1 .. n : l[x] = s[j]

\* a is in front of b on l.
Before(n, l, a, b) == \E x, y \in 1 .. n : x < y /\ l[x] = a /\ l[y] = b

InOrder(K, n, s, l) ==
  \A j, k \in 1 .. n : j < k =>
    K[s[j]] < K[s[k]] \/ (K[s[j]] = K[s[k]] /\ Before(n, l, s[j], s[k]))

\* s holds the elements of l in the order of their places, those of one place in
\* the order of l.
Ordered(K, n, s, l) == Covers(n, l, s) /\ Covers(n, s, l) /\ InOrder(K, n, s, l)

\* The places do not fall along the multiset.
LEMMA Sorted ==
  ASSUME NEW n, NEW K, NEW s, NEW l, NEW j, NEW k,
         n \in Nat, K \in [Blocks -> Nat], s \in [1 .. n -> Blocks], l \in [1 .. n -> Blocks],
         Ordered(K, n, s, l), j \in 1 .. n, k \in 1 .. n, j <= k
  PROVE  K[s[j]] <= K[s[k]]
  <1>1. s[j] \in Blocks /\ s[k] \in Blocks
    OBVIOUS
  <1>2. K[s[j]] \in Nat /\ K[s[k]] \in Nat
    BY <1>1
  <1>3. CASE j = k
    BY <1>2, <1>3
  <1>4. CASE j < k
    <2>1. K[s[j]] < K[s[k]] \/ K[s[j]] = K[s[k]]
      BY <1>4 DEF Ordered, InOrder
    <2> QED
      BY <1>2, <2>1
  <1> QED
    BY <1>3, <1>4

\* upper_bound is behind the elements that are not greater.
LEMMA UpperBound ==
  ASSUME NEW n, NEW K, NEW s, NEW l, NEW v, NEW T,
         n \in Nat, K \in [Blocks -> Nat], s \in [1 .. n -> Blocks], l \in [1 .. n -> Blocks],
         Ordered(K, n, s, l), v \in Nat, T \in SUBSET (1 .. n),
         \A k \in 1 .. n : k \in T <=> ~(v < K[s[k]])
  PROVE  Cardinality(T) \in 0 .. n /\ T = 1 .. Cardinality(T)
  <1>1. ASSUME NEW k \in T, NEW j \in 1 .. n, j < k PROVE j \in T
    <2>0. k \in 1 .. n /\ j <= k
      BY <1>1
    <2>1. K[s[j]] <= K[s[k]]
      BY <2>0, Sorted
    <2>2. K[s[j]] \in Nat /\ K[s[k]] \in Nat
      BY <2>0
    <2> QED
      BY <2>1, <2>2
  <1> QED
    BY <1>1, DownClosed

\* lower_bound is behind the elements that are less.
LEMMA LowerBound ==
  ASSUME NEW n, NEW K, NEW s, NEW l, NEW v, NEW T,
         n \in Nat, K \in [Blocks -> Nat], s \in [1 .. n -> Blocks], l \in [1 .. n -> Blocks],
         Ordered(K, n, s, l), v \in Nat, T \in SUBSET (1 .. n),
         \A k \in 1 .. n : k \in T <=> K[s[k]] < v
  PROVE  Cardinality(T) \in 0 .. n /\ T = 1 .. Cardinality(T)
  <1>1. ASSUME NEW k \in T, NEW j \in 1 .. n, j < k PROVE j \in T
    <2>0. k \in 1 .. n /\ j <= k
      BY <1>1
    <2>1. K[s[j]] <= K[s[k]]
      BY <2>0, Sorted
    <2>2. K[s[j]] \in Nat /\ K[s[k]] \in Nat
      BY <2>0
    <2> QED
      BY <2>1, <2>2
  <1> QED
    BY <1>1, DownClosed

\* The multiset holds no element twice either.
LEMMA SetDistinct ==
  ASSUME NEW n, NEW K, NEW s, NEW l,
         n \in Nat, K \in [Blocks -> Nat], s \in [1 .. n -> Blocks], l \in [1 .. n -> Blocks],
         Ordered(K, n, s, l), Distinct(n, l)
  PROVE  Distinct(n, s)
  <1>1. ASSUME NEW j \in 1 .. n, NEW k \in 1 .. n, j < k, s[j] = s[k] PROVE FALSE
    <2>1. K[s[k]] \in Nat
      OBVIOUS
    <2>2. Before(n, l, s[j], s[k])
      BY <1>1, <2>1 DEF Ordered, InOrder
    <2>3. PICK x, y \in 1 .. n : x < y /\ l[x] = s[j] /\ l[y] = s[k]
      BY <2>2 DEF Before
    <2> QED
      BY <1>1, <2>3 DEF Distinct
  <1>2. ASSUME NEW j \in 1 .. n, NEW k \in 1 .. n, s[j] = s[k] PROVE j = k
    <2>1. j < k \/ k < j \/ j = k
      OBVIOUS
    <2> QED
      BY <1>1, <1>2, <2>1
  <1> QED
    BY <1>2 DEF Distinct

\* Places that agree on the elements of the list make no difference.
LEMMA OrderedFrame ==
  ASSUME NEW n, NEW K, NEW L, NEW s, NEW l,
         n \in Nat, K \in [Blocks -> Nat], L \in [Blocks -> Nat], s \in [1 .. n -> Blocks],
         l \in [1 .. n -> Blocks], Ordered(K, n, s, l), \A x \in 1 .. n : L[l[x]] = K[l[x]]
  PROVE  Ordered(L, n, s, l)
  <1>1. ASSUME NEW j \in 1 .. n PROVE L[s[j]] = K[s[j]]
    <2>1. PICK x \in 1 .. n : l[x] = s[j]
      BY DEF Ordered, Covers
    <2> QED
      BY <2>1
  <1> QED
    BY <1>1 DEF Ordered, InOrder

\* t is s with b at c + 1, and m is l with b at the end.
PutIn(n, s, l, b, c, t, m) ==
  /\ t \in [1 .. n + 1 -> Blocks] /\ m \in [1 .. n + 1 -> Blocks]
  /\ \A j \in 1 .. n + 1 : t[j] = IF j < c + 1 THEN s[j] ELSE IF j = c + 1 THEN b ELSE s[j - 1]
  /\ m[n + 1] = b /\ \A x \in 1 .. n : m[x] = l[x]

\* b goes into the container of s and l at c + 1, which gives t and m.
Insertion(n, K, L, s, l, b, c, t, m) ==
  /\ n \in Nat /\ K \in [Blocks -> Nat] /\ L \in [Blocks -> Nat]
  /\ s \in [1 .. n -> Blocks] /\ l \in [1 .. n -> Blocks]
  /\ b \in Blocks /\ c \in 0 .. n /\ PutIn(n, s, l, b, c, t, m)
  /\ Ordered(K, n, s, l) /\ Distinct(n, l)
  /\ (\A x \in 1 .. n : l[x] # b) /\ (\A a \in Blocks : a # b => L[a] = K[a])
  /\ \A k \in 1 .. n : k <= c <=> K[s[k]] <= L[b]

\* insert keeps the order: the new element is behind those of its place.
LEMMA InsertOrdered ==
  ASSUME NEW n, NEW K, NEW L, NEW s, NEW l, NEW b, NEW c, NEW t, NEW m,
         Insertion(n, K, L, s, l, b, c, t, m)
  PROVE  Ordered(L, n + 1, t, m) /\ Distinct(n + 1, m)
  <1> SUFFICES ASSUME n \in Nat, K \in [Blocks -> Nat], L \in [Blocks -> Nat], s \in [1 .. n -> Blocks],
                      l \in [1 .. n -> Blocks], b \in Blocks, c \in 0 .. n, PutIn(n, s, l, b, c, t, m),
                      Ordered(K, n, s, l), Distinct(n, l),
                      \A x \in 1 .. n : l[x] # b, \A a \in Blocks : a # b => L[a] = K[a],
                      \A k \in 1 .. n : k <= c <=> K[s[k]] <= L[b]
               PROVE  Ordered(L, n + 1, t, m) /\ Distinct(n + 1, m)
    BY DEF Insertion
  <1>1. n \in Nat /\ c \in Nat /\ c <= n /\ c + 1 \in 1 .. n + 1
    OBVIOUS
  <1>2. /\ t \in [1 .. n + 1 -> Blocks]
        /\ \A j \in 1 .. n + 1 : t[j] = IF j < c + 1 THEN s[j] ELSE IF j = c + 1 THEN b ELSE s[j - 1]
    BY DEF PutIn
  <1>3. m \in [1 .. n + 1 -> Blocks] /\ m[n + 1] = b /\ \A x \in 1 .. n : m[x] = l[x]
    BY DEF PutIn
  <1>o. /\ \A j \in 1 .. n : \E x \in 1 .. n : l[x] = s[j]
        /\ InOrder(K, n, s, l)
    BY <1>1 DEF Ordered, Covers
  <1>u. \A x \in 1 .. n : \E j \in 1 .. n : s[j] = l[x]
    BY <1>1 DEF Ordered, Covers
  <1>h. /\ \A k \in 1 .. n : k <= c <=> K[s[k]] <= L[b]
        /\ \A x \in 1 .. n : l[x] # b
    BY <1>1
  <1>4. ASSUME NEW j \in 1 .. n
        PROVE  s[j] \in Blocks /\ l[j] \in Blocks /\ s[j] # b /\ L[s[j]] = K[s[j]] /\ K[s[j]] \in Nat
    <2>1. s[j] \in Blocks /\ l[j] \in Blocks
      BY <1>1
    <2>2. PICK x \in 1 .. n : l[x] = s[j]
      BY <1>o
    <2> QED
      BY <1>h, <2>1, <2>2
  <1>5. ASSUME NEW j \in 1 .. n + 1 PROVE \E x \in 1 .. n + 1 : m[x] = t[j]
    <2>1. CASE j = c + 1
      BY <1>1, <1>2, <1>3, <2>1
    <2>2. CASE j < c + 1
      <3>1. j \in 1 .. n /\ t[j] = s[j]
        BY <1>1, <1>2, <2>2
      <3>2. PICK x \in 1 .. n : l[x] = s[j]
        BY <3>1, <1>o
      <3> QED
        BY <1>1, <1>3, <3>1, <3>2
    <2>3. CASE j > c + 1
      <3>1. j - 1 \in 1 .. n /\ t[j] = s[j - 1]
        BY <1>1, <1>2, <2>3
      <3>2. PICK x \in 1 .. n : l[x] = s[j - 1]
        BY <3>1, <1>o
      <3> QED
        BY <1>1, <1>3, <3>1, <3>2
    <2>4. j \in Int /\ c \in Int
      BY <1>1
    <2> QED
      BY <2>1, <2>2, <2>3, <2>4
  <1>6. ASSUME NEW x \in 1 .. n + 1 PROVE \E j \in 1 .. n + 1 : t[j] = m[x]
    <2>1. CASE x = n + 1
      <3>1. c + 1 \in 1 .. n + 1 /\ t[c + 1] = b
        BY <1>1, <1>2
      <3> QED
        BY <1>3, <2>1, <3>1
    <2>2. CASE x \in 1 .. n
      <3>1. PICK j \in 1 .. n : s[j] = l[x]
        BY <2>2, <1>u
      <3>2. m[x] = s[j]
        BY <1>3, <2>2, <3>1
      <3>3. CASE j <= c
        <4>1. j \in 1 .. n + 1 /\ t[j] = s[j]
          BY <1>1, <1>2, <3>3
        <4> QED
          BY <3>2, <4>1
      <3>4. CASE j > c
        <4>1. j + 1 \in 1 .. n + 1 /\ t[j + 1] = s[j]
          BY <1>1, <1>2, <3>4
        <4> QED
          BY <3>2, <4>1
      <3> QED
        BY <1>1, <3>3, <3>4
    <2>3. x = n + 1 \/ x \in 1 .. n
      BY <1>1
    <2> QED
      BY <2>1, <2>2, <2>3
  <1>7. ASSUME NEW j \in 1 .. n + 1, NEW k \in 1 .. n + 1, j < k
        PROVE  L[t[j]] < L[t[k]] \/ (L[t[j]] = L[t[k]] /\ Before(n + 1, m, t[j], t[k]))
    <2> DEFINE P(p, q) == L[p] < L[q] \/ (L[p] = L[q] /\ Before(n + 1, m, p, q))
    <2>1. ASSUME NEW p \in 1 .. n, NEW q \in 1 .. n, p < q PROVE P(s[p], s[q])
      <3>1. L[s[p]] = K[s[p]] /\ L[s[q]] = K[s[q]]
        BY <1>4
      <3>2. CASE K[s[p]] < K[s[q]]
        BY <3>1, <3>2
      <3>3. CASE K[s[p]] = K[s[q]] /\ Before(n, l, s[p], s[q])
        <4>1. PICK x, y \in 1 .. n : x < y /\ l[x] = s[p] /\ l[y] = s[q]
          BY <1>1, <3>3 DEF Before
        <4>2. x \in 1 .. n + 1 /\ y \in 1 .. n + 1 /\ m[x] = s[p] /\ m[y] = s[q]
          BY <1>1, <1>3, <4>1
        <4>3. Before(n + 1, m, s[p], s[q])
          BY <1>3, <4>1, <4>2 DEF Before
        <4> QED
          BY <3>1, <3>3, <4>3
      <3>4. K[s[p]] < K[s[q]] \/ (K[s[p]] = K[s[q]] /\ Before(n, l, s[p], s[q]))
        BY <1>o, <2>1 DEF InOrder
      <3> QED
        BY <3>2, <3>3, <3>4
    <2>2. ASSUME NEW p \in 1 .. n, p <= c PROVE P(s[p], b)
      <3>1. K[s[p]] \in Nat /\ L[b] \in Nat /\ L[s[p]] = K[s[p]]
        BY <1>4
      <3>2. L[s[p]] < L[b] \/ L[s[p]] = L[b]
        BY <1>h, <2>2, <3>1
      <3>3. PICK x \in 1 .. n : l[x] = s[p]
        BY <1>o
      <3>4. x \in 1 .. n + 1 /\ n + 1 \in 1 .. n + 1 /\ x < n + 1 /\ m[x] = s[p] /\ m[n + 1] = b
        BY <1>1, <1>3, <3>3
      <3>5. Before(n + 1, m, s[p], b)
        BY <1>3, <3>4 DEF Before
      <3> QED
        BY <3>2, <3>5
    <2>3. ASSUME NEW q \in 1 .. n, q > c PROVE P(b, s[q])
      <3>1. K[s[q]] \in Nat /\ L[b] \in Nat /\ L[s[q]] = K[s[q]]
        BY <1>4
      <3>2. ~(K[s[q]] <= L[b])
        BY <1>h, <1>1, <2>3
      <3> QED
        BY <3>1, <3>2
    <2>4. P(t[j], t[k])
      <3> HIDE DEF P
      <3>r. ASSUME NEW x \in 1 .. n + 1
            PROVE  /\ x < c + 1 => t[x] = s[x] /\ x \in 1 .. n
                   /\ x = c + 1 => t[x] = b
                   /\ x > c + 1 => t[x] = s[x - 1] /\ x - 1 \in 1 .. n
        <4>1. x < c + 1 => t[x] = s[x]
          BY <1>1, <1>2
        <4>2. x = c + 1 => t[x] = b
          BY <1>1, <1>2
        <4>3. x > c + 1 => t[x] = s[x - 1]
          BY <1>1, <1>2
        <4>4. (x < c + 1 => x \in 1 .. n) /\ (x > c + 1 => x - 1 \in 1 .. n)
          BY <1>1
        <4> QED
          BY <4>1, <4>2, <4>3, <4>4
      <3>1. CASE k < c + 1
        <4>0. j < c + 1
          BY <1>1, <1>7, <3>1
        <4>1. j \in 1 .. n /\ k \in 1 .. n /\ t[j] = s[j] /\ t[k] = s[k]
          BY <3>r, <3>1, <4>0
        <4> QED
          BY <1>7, <2>1, <4>1
      <3>2. CASE k = c + 1
        <4>0. j < c + 1 /\ j <= c
          BY <1>1, <1>7, <3>2
        <4>1. j \in 1 .. n /\ t[j] = s[j] /\ t[k] = b
          BY <3>r, <3>2, <4>0
        <4> QED
          BY <2>2, <4>0, <4>1
      <3>3. CASE k > c + 1 /\ j < c + 1
        <4>0. j < k - 1
          BY <1>1, <3>3
        <4>1. j \in 1 .. n /\ k - 1 \in 1 .. n /\ t[j] = s[j] /\ t[k] = s[k - 1]
          BY <3>r, <3>3
        <4> QED
          BY <2>1, <4>0, <4>1
      <3>4. CASE k > c + 1 /\ j = c + 1
        <4>0. k - 1 > c
          BY <1>1, <3>4
        <4>1. k - 1 \in 1 .. n /\ t[j] = b /\ t[k] = s[k - 1]
          BY <3>r, <3>4
        <4> QED
          BY <2>3, <4>0, <4>1
      <3>5. CASE k > c + 1 /\ j > c + 1
        <4>0. j - 1 < k - 1
          BY <1>7
        <4>1. j - 1 \in 1 .. n /\ k - 1 \in 1 .. n /\ t[j] = s[j - 1] /\ t[k] = s[k - 1]
          BY <3>r, <3>5
        <4> QED
          BY <2>1, <4>0, <4>1
      <3>6. j \in Int /\ k \in Int /\ c \in Int
        BY <1>1
      <3> QED
        BY <3>1, <3>2, <3>3, <3>4, <3>5, <3>6
    <2> QED
      BY <2>4
  <1>8. Ordered(L, n + 1, t, m)
    <2>1. Covers(n + 1, m, t)
      BY <1>2, <1>3, <1>5 DEF Covers
    <2>2. Covers(n + 1, t, m)
      BY <1>2, <1>3, <1>6 DEF Covers
    <2>3. InOrder(L, n + 1, t, m)
      BY <1>2, <1>7 DEF InOrder
    <2> QED
      BY <1>2, <1>3, <2>1, <2>2, <2>3 DEF Ordered
  <1>9. Distinct(n + 1, m)
    <2>1. ASSUME NEW x \in 1 .. n + 1, NEW y \in 1 .. n + 1, m[x] = m[y] PROVE x = y
      <3>1. \A p, q \in 1 .. n : l[p] = l[q] => p = q
        BY <1>1 DEF Distinct
      <3>2. (x \in 1 .. n \/ x = n + 1) /\ (y \in 1 .. n \/ y = n + 1)
        BY <1>1
      <3>3. CASE x \in 1 .. n /\ y \in 1 .. n
        BY <1>3, <2>1, <3>1, <3>3
      <3>4. CASE x = n + 1 /\ y \in 1 .. n
        BY <1>3, <1>h, <2>1, <3>4
      <3>5. CASE x \in 1 .. n /\ y = n + 1
        BY <1>3, <1>h, <2>1, <3>5
      <3> QED
        BY <3>2, <3>3, <3>4, <3>5
    <2> QED
      BY <1>1, <1>3, <2>1 DEF Distinct
  <1> QED
    BY <1>8, <1>9

\* Where the element behind the one at p that is gone was, and where it is.
up(p, j) == IF j < p THEN j ELSE j + 1
down(p, j) == IF j < p THEN j ELSE j - 1

\* An element that stays was not at p.
LEMMA UpRange ==
  ASSUME NEW n, NEW p, NEW j,
         n \in Nat, p \in 1 .. n, j \in 1 .. n - 1
  PROVE  up(p, j) \in 1 .. n /\ up(p, j) # p
  <1>1. p \in Int /\ j \in Int
    OBVIOUS
  <1>2. CASE j < p
    BY <1>1, <1>2 DEF up
  <1>3. CASE ~(j < p)
    BY <1>1, <1>3 DEF up
  <1> QED
    BY <1>2, <1>3

\* An element that was not at p stays.
LEMMA DownRange ==
  ASSUME NEW n, NEW p, NEW j,
         n \in Nat, p \in 1 .. n, j \in 1 .. n, j # p
  PROVE  down(p, j) \in 1 .. n - 1 /\ up(p, down(p, j)) = j
  <1>1. p \in Int /\ j \in Int
    OBVIOUS
  <1>2. CASE j < p
    <2>1. down(p, j) = j
      BY <1>2 DEF down
    <2>2. j \in 1 .. n - 1
      BY <1>1, <1>2
    <2> QED
      BY <1>2, <2>1, <2>2 DEF up
  <1>3. CASE ~(j < p)
    <2>1. down(p, j) = j - 1
      BY <1>3 DEF down
    <2>2. j - 1 \in 1 .. n - 1 /\ ~(j - 1 < p) /\ (j - 1) + 1 = j
      BY <1>1, <1>3
    <2> QED
      BY <2>1, <2>2 DEF up
  <1> QED
    BY <1>2, <1>3

\* The elements that stay keep their order.
LEMMA ShiftOrder ==
  ASSUME NEW n, NEW p, NEW j, NEW k,
         n \in Nat, p \in 1 .. n, j \in 1 .. n - 1, k \in 1 .. n - 1
  PROVE  (j < k <=> up(p, j) < up(p, k)) /\ (up(p, j) = up(p, k) => j = k)
  <1>1. p \in Int /\ j \in Int /\ k \in Int
    OBVIOUS
  <1>2. CASE j < p /\ k < p
    BY <1>1, <1>2 DEF up
  <1>3. CASE j < p /\ ~(k < p)
    BY <1>1, <1>3 DEF up
  <1>4. CASE ~(j < p) /\ k < p
    BY <1>1, <1>4 DEF up
  <1>5. CASE ~(j < p) /\ ~(k < p)
    BY <1>1, <1>5 DEF up
  <1> QED
    BY <1>2, <1>3, <1>4, <1>5

\* t is s without its element at i, and m is l without its element at z.
TakenOut(n, s, l, i, z, t, m) ==
  /\ t \in [1 .. n - 1 -> Blocks] /\ m \in [1 .. n - 1 -> Blocks]
  /\ \A j \in 1 .. n - 1 : t[j] = IF j < i THEN s[j] ELSE s[j + 1]
  /\ \A x \in 1 .. n - 1 : m[x] = IF x < z THEN l[x] ELSE l[x + 1]

\* b, at i of s and at z of l, leaves the container, which gives t and m.
Removal(n, K, L, s, l, b, i, z, t, m) ==
  /\ n \in Nat /\ K \in [Blocks -> Nat] /\ L \in [Blocks -> Nat]
  /\ s \in [1 .. n -> Blocks] /\ l \in [1 .. n -> Blocks]
  /\ b \in Blocks /\ i \in 1 .. n /\ z \in 1 .. n /\ s[i] = b /\ l[z] = b
  /\ TakenOut(n, s, l, i, z, t, m) /\ Ordered(K, n, s, l) /\ Distinct(n, l)
  /\ \A a \in Blocks : a # b => L[a] = K[a]

\* The elements of m are those of l but the one at z.
Stay(n, l, z, m) ==
  /\ \A x \in 1 .. n - 1 : \E y \in 1 .. n : y # z /\ m[x] = l[y]
  /\ \A y \in 1 .. n : y # z => \E x \in 1 .. n - 1 : m[x] = l[y]

\* erase keeps the order of the elements that stay.
LEMMA RemoveOrdered ==
  ASSUME NEW n, NEW K, NEW L, NEW s, NEW l, NEW b, NEW i, NEW z, NEW t, NEW m,
         Removal(n, K, L, s, l, b, i, z, t, m)
  PROVE  Ordered(L, n - 1, t, m) /\ Distinct(n - 1, m) /\ Stay(n, l, z, m)
  <1> SUFFICES ASSUME n \in Nat, K \in [Blocks -> Nat], L \in [Blocks -> Nat], s \in [1 .. n -> Blocks],
                      l \in [1 .. n -> Blocks], b \in Blocks, i \in 1 .. n, z \in 1 .. n, s[i] = b, l[z] = b,
                      TakenOut(n, s, l, i, z, t, m), Ordered(K, n, s, l), Distinct(n, l),
                      \A a \in Blocks : a # b => L[a] = K[a]
               PROVE  Ordered(L, n - 1, t, m) /\ Distinct(n - 1, m) /\ Stay(n, l, z, m)
    BY DEF Removal
  <1>1. n \in Nat /\ i \in 1 .. n /\ z \in 1 .. n /\ n - 1 \in Nat
    OBVIOUS
  <1>2. ASSUME NEW p \in 1 .. n, NEW j \in 1 .. n - 1
        PROVE  up(p, j) \in 1 .. n /\ up(p, j) # p
    BY UpRange
  <1>3. ASSUME NEW p \in 1 .. n, NEW j \in 1 .. n, j # p
        PROVE  down(p, j) \in 1 .. n - 1 /\ up(p, down(p, j)) = j
    BY <1>3, DownRange
  <1>4. ASSUME NEW p \in 1 .. n, NEW j \in 1 .. n - 1, NEW k \in 1 .. n - 1
        PROVE  (j < k <=> up(p, j) < up(p, k)) /\ (up(p, j) = up(p, k) => j = k)
    BY ShiftOrder
  <1>5. \A j \in 1 .. n - 1 : t[j] = s[up(i, j)] /\ m[j] = l[up(z, j)]
    BY <1>1 DEF up, TakenOut
  <1>6. Distinct(n, s)
    BY SetDistinct
  <1>7. \A j \in 1 .. n : (s[j] = b <=> j = i) /\ (l[j] = b <=> j = z)
    <2>1. \A j, k \in 1 .. n : s[j] = s[k] => j = k
      BY <1>6 DEF Distinct
    <2>2. \A j, k \in 1 .. n : l[j] = l[k] => j = k
      BY DEF Distinct
    <2> QED
      BY <2>1, <2>2
  <1>8. Distinct(n - 1, m)
    <2>1. ASSUME NEW x \in 1 .. n - 1, NEW y \in 1 .. n - 1, m[x] = m[y] PROVE x = y
      <3>1. l[up(z, x)] = l[up(z, y)] /\ up(z, x) \in 1 .. n /\ up(z, y) \in 1 .. n
        BY <1>2, <1>5, <2>1
      <3>2. up(z, x) = up(z, y)
        BY <3>1 DEF Distinct
      <3> QED
        BY <3>2, <1>4
    <2> QED
      BY <2>1 DEF Distinct
  <1>9. ASSUME NEW j \in 1 .. n, j # z PROVE \E x \in 1 .. n - 1 : m[x] = l[j]
    <2>1. down(z, j) \in 1 .. n - 1 /\ m[down(z, j)] = l[j]
      BY <1>3, <1>5, <1>9
    <2> QED
      BY <2>1
  <1>10. ASSUME NEW j \in 1 .. n, j # i PROVE \E x \in 1 .. n - 1 : t[x] = s[j]
    <2>1. down(i, j) \in 1 .. n - 1 /\ t[down(i, j)] = s[j]
      BY <1>3, <1>5, <1>10
    <2> QED
      BY <2>1
  <1>11. Covers(n - 1, m, t)
    <2>1. ASSUME NEW j \in 1 .. n - 1 PROVE \E x \in 1 .. n - 1 : m[x] = t[j]
      <3>1. up(i, j) \in 1 .. n /\ up(i, j) # i /\ t[j] = s[up(i, j)]
        BY <1>2, <1>5
      <3>2. PICK y \in 1 .. n : l[y] = s[up(i, j)]
        BY <3>1 DEF Ordered, Covers
      <3>3. y # z
        BY <1>7, <3>1, <3>2
      <3> QED
        BY <1>9, <3>1, <3>2, <3>3
    <2> QED
      BY <2>1 DEF Covers
  <1>12. Covers(n - 1, t, m)
    <2>1. ASSUME NEW j \in 1 .. n - 1 PROVE \E x \in 1 .. n - 1 : t[x] = m[j]
      <3>1. up(z, j) \in 1 .. n /\ up(z, j) # z /\ m[j] = l[up(z, j)]
        BY <1>2, <1>5
      <3>2. PICK y \in 1 .. n : s[y] = l[up(z, j)]
        BY <3>1 DEF Ordered, Covers
      <3>3. y # i
        BY <1>7, <3>1, <3>2
      <3> QED
        BY <1>10, <3>1, <3>2, <3>3
    <2> QED
      BY <2>1 DEF Covers
  <1>13. InOrder(L, n - 1, t, m)
    <2>1. ASSUME NEW j \in 1 .. n - 1, NEW k \in 1 .. n - 1, j < k
          PROVE  L[t[j]] < L[t[k]] \/ (L[t[j]] = L[t[k]] /\ Before(n - 1, m, t[j], t[k]))
      <3>1. PICK p \in 1 .. n, q \in 1 .. n : p = up(i, j) /\ q = up(i, k)
        BY <1>2
      <3>2. t[j] = s[p] /\ t[k] = s[q] /\ p < q /\ p # i /\ q # i
        BY <1>2, <1>4, <1>5, <2>1, <3>1
      <3>3. L[s[p]] = K[s[p]] /\ L[s[q]] = K[s[q]]
        BY <1>7, <3>2
      <3>4. CASE K[s[p]] < K[s[q]]
        BY <3>2, <3>3, <3>4
      <3>5. CASE K[s[p]] = K[s[q]] /\ Before(n, l, s[p], s[q])
        <4>1. PICK x, y \in 1 .. n : x < y /\ l[x] = s[p] /\ l[y] = s[q]
          BY <3>5 DEF Before
        <4>2. x # z /\ y # z
          BY <1>7, <3>2, <4>1
        <4>3. PICK v \in 1 .. n - 1, w \in 1 .. n - 1 : v = down(z, x) /\ w = down(z, y)
          BY <1>3, <4>2
        <4>4. up(z, v) = x /\ up(z, w) = y
          BY <1>3, <4>2, <4>3
        <4>5. m[v] = s[p] /\ m[w] = s[q] /\ v < w
          BY <1>4, <1>5, <4>1, <4>4
        <4>6. Before(n - 1, m, t[j], t[k])
          BY <3>2, <4>5 DEF Before
        <4> QED
          BY <3>2, <3>3, <3>5, <4>6
      <3>6. K[s[p]] < K[s[q]] \/ (K[s[p]] = K[s[q]] /\ Before(n, l, s[p], s[q]))
        BY <3>2 DEF Ordered, InOrder
      <3> QED
        BY <3>4, <3>5, <3>6
    <2> QED
      BY <2>1 DEF InOrder
  <1>14. ASSUME NEW x \in 1 .. n - 1 PROVE \E y \in 1 .. n : y # z /\ m[x] = l[y]
    BY <1>2, <1>5
  <1> QED
    BY <1>8, <1>9, <1>11, <1>12, <1>13, <1>14 DEF Ordered, Stay

-----------------------------------------------------------------------------
(* The state m of all the containers and of the heap                       *)

Letters == {"a", "A", "b"}
Container == [live : BOOLEAN, alloc : Allocs, set_ : Seq(Blocks), list_ : Seq(Blocks)]

\* The place of the name of element b; 0 for a block that is free.
Places(m) == [b \in Blocks |-> IF m.heap[b] = Free THEN 0 ELSE tolower(m.heap[b].name)]

Shape(m) ==
  /\ m = [obj |-> m.obj, heap |-> m.heap]
  /\ m.obj \in [Objects -> Container]
  /\ m.heap = [b \in Blocks |-> m.heap[b]]
  /\ \A b \in Blocks : m.heap[b] # Free => m.heap[b].alloc \in Allocs /\ m.heap[b].name \in Letters

\* Names have places.
LEMMA LetterPlaces ==
  ASSUME NEW n,
         n \in Letters
  PROVE  tolower(n) \in Nat
  BY DEF Letters, tolower

\* The places are numbers.
LEMMA PlacesType ==
  ASSUME NEW m,
         Shape(m)
  PROVE  Places(m) \in [Blocks -> Nat]
  <1>1. ASSUME NEW b \in Blocks
        PROVE  (IF m.heap[b] = Free THEN 0 ELSE tolower(m.heap[b].name)) \in Nat
    <2>1. CASE m.heap[b] = Free
      BY <2>1
    <2>2. CASE m.heap[b] # Free
      BY <2>2, LetterPlaces DEF Shape
    <2> QED
      BY <2>1, <2>2
  <1> QED
    BY <1>1 DEF Places

\* m after block b and the two structures of container o have changed.
Updated(m, o, b, e, S, L) == [m EXCEPT !.heap[b] = e, !.obj[o].set_ = S, !.obj[o].list_ = L]

\* r is m with container o and block b changed, and nothing else.
Changed(m, r, o, b, e, S, L) ==
  /\ Shape(r)
  /\ r.heap[b] = e
  /\ \A c \in Blocks : c # b => r.heap[c] = m.heap[c]
  /\ \A p \in Objects : p # o => r.obj[p] = m.obj[p]
  /\ r.obj[o].live = m.obj[o].live /\ r.obj[o].alloc = m.obj[o].alloc
  /\ r.obj[o].set_ = S /\ r.obj[o].list_ = L

\* What a change of one container and one block leaves alone.
LEMMA UpdatedEffect ==
  ASSUME NEW m, NEW o, NEW b, NEW e, NEW S, NEW L, NEW r,
         Shape(m), o \in Objects, b \in Blocks, S \in Seq(Blocks), L \in Seq(Blocks),
         e # Free => e.alloc \in Allocs /\ e.name \in Letters, r = Updated(m, o, b, e, S, L)
  PROVE  Changed(m, r, o, b, e, S, L)
  <1>1. PICK O, H : m = [obj |-> O, heap |-> H] /\ O = m.obj /\ H = m.heap
    BY DEF Shape
  <1>2. O \in [Objects -> Container] /\ H = [c \in Blocks |-> H[c]]
    BY <1>1 DEF Shape
  <1>3. r.heap = [H EXCEPT ![b] = e]
    BY <1>1 DEF Updated
  <1>4. r.obj = [O EXCEPT ![o].set_ = S, ![o].list_ = L]
    BY <1>1 DEF Updated
  <1>5. r = [obj |-> r.obj, heap |-> r.heap]
    BY <1>1 DEF Updated
  <1>6. r.obj = [O EXCEPT ![o] = [O[o] EXCEPT !.set_ = S, !.list_ = L]]
    BY <1>2, <1>4
  <1>7. [O[o] EXCEPT !.set_ = S, !.list_ = L] \in Container
    BY <1>2 DEF Container
  <1>8. r.obj \in [Objects -> Container]
    BY <1>2, <1>6, <1>7
  <1>9. r.obj[o] = [O[o] EXCEPT !.set_ = S, !.list_ = L] /\ \A p \in Objects : p # o => r.obj[p] = O[p]
    BY <1>2, <1>6
  <1>10. r.obj[o].live = O[o].live /\ r.obj[o].alloc = O[o].alloc /\ r.obj[o].set_ = S /\ r.obj[o].list_ = L
    BY <1>2, <1>9 DEF Container
  <1>11. r.heap = [c \in Blocks |-> r.heap[c]]
    BY <1>2, <1>3
  <1>12. r.heap[b] = e /\ \A c \in Blocks : c # b => r.heap[c] = H[c]
    BY <1>2, <1>3
  <1>13. ASSUME NEW c \in Blocks, r.heap[c] # Free PROVE r.heap[c].alloc \in Allocs /\ r.heap[c].name \in Letters
    <2>1. CASE c = b
      BY <1>12, <1>13, <2>1
    <2>2. CASE c # b
      BY <1>1, <1>12, <1>13, <2>2 DEF Shape
    <2> QED
      BY <2>1, <2>2
  <1>14. Shape(r)
    BY <1>5, <1>8, <1>11, <1>13 DEF Shape
  <1> QED
    BY <1>1, <1>9, <1>10, <1>12, <1>14 DEF Changed

\* insert changes the container and a free block.
LEMMA InsertIsUpdate ==
  ASSUME NEW m, NEW o, NEW name, NEW value,
         o \in Objects, Shape(m)
  PROVE  insert(m, o, name, value) =
           Updated(m, o, block(m), [alloc |-> m.obj[o].alloc, name |-> name, value |-> trim(value)],
                   InsertAt(m.obj[o].set_, set_upper_bound(m, o, name), block(m)),
                   Append(m.obj[o].list_, block(m)))
  <1>1. PICK O, H : m = [obj |-> O, heap |-> H] /\ O = m.obj /\ H = m.heap
    BY DEF Shape
  <1>2. O \in [Objects -> Container]
    BY <1>1 DEF Shape
  <1> QED
    BY <1>1, <1>2 DEF insert, Updated

\* Where b is on s (iterator_to).
Place(s, b) == CHOOSE k \in DOMAIN s : s[k] = b

\* unlink changes the container and the block of the element.
LEMMA UnlinkIsUpdate ==
  ASSUME NEW m, NEW o, NEW b,
         o \in Objects, b \in Blocks, Shape(m)
  PROVE  unlink(m, o, b) =
           Updated(m, o, b, Free,
                   RemoveAt(m.obj[o].set_, Place(m.obj[o].set_, b)),
                   RemoveAt(m.obj[o].list_, Place(m.obj[o].list_, b)))
  <1>1. PICK O, H : m = [obj |-> O, heap |-> H] /\ O = m.obj /\ H = m.heap
    BY DEF Shape
  <1>2. O \in [Objects -> Container]
    BY <1>1 DEF Shape
  <1> QED
    BY <1>1, <1>2 DEF unlink, Updated, Place

-----------------------------------------------------------------------------
(* The invariant                                                           *)

OnList(m, o, b) == \E i \in 1 .. Len(m.obj[o].list_) : m.obj[o].list_[i] = b

\* A container that does not exist owns nothing.
DeadEmpty(m) == \A o \in Objects : ~m.obj[o].live => m.obj[o].list_ = <<>>

\* What is on a list was given out by the allocator of its container.
GivenOut(m) ==
  \A o \in Objects : \A b \in Blocks :
    OnList(m, o, b) => m.heap[b] # Free /\ m.heap[b].alloc = m.obj[o].alloc

\* No element is on two lists, and on one list it is there once.
OneList(m) == \A o, p \in Objects : \A b \in Blocks : OnList(m, o, b) /\ OnList(m, p, b) => o = p
OncePerList(m) == \A o \in Objects : Distinct(Len(m.obj[o].list_), m.obj[o].list_)

\* What was given out is on a list.
NoLeak(m) == \A b \in Blocks : m.heap[b] # Free => \E o \in Objects : OnList(m, o, b)

\* The multiset of a container is ordered and has the elements of its list.
Threaded(m, o) ==
  /\ Len(m.obj[o].set_) = Len(m.obj[o].list_)
  /\ Ordered(Places(m), Len(m.obj[o].list_), m.obj[o].set_, m.obj[o].list_)

Sound(m) ==
  /\ Shape(m) /\ DeadEmpty(m) /\ GivenOut(m) /\ OneList(m) /\ OncePerList(m) /\ NoLeak(m)
  /\ \A o \in Objects : Threaded(m, o)

\* The two structures of a container are functions on the same numbers.
LEMMA Structures ==
  ASSUME NEW m, NEW o,
         Shape(m), o \in Objects
  PROVE  /\ m.obj[o] \in Container /\ m.obj[o].alloc \in Allocs /\ m.obj[o].live \in BOOLEAN
         /\ m.obj[o].set_ \in Seq(Blocks) /\ m.obj[o].list_ \in Seq(Blocks)
         /\ Len(m.obj[o].set_) \in Nat /\ Len(m.obj[o].list_) \in Nat
         /\ m.obj[o].set_ \in [1 .. Len(m.obj[o].set_) -> Blocks]
         /\ m.obj[o].list_ \in [1 .. Len(m.obj[o].list_) -> Blocks]
  <1>1. m.obj[o] \in Container
    BY DEF Shape
  <1>2. PICK s \in Seq(Blocks), l \in Seq(Blocks) : s = m.obj[o].set_ /\ l = m.obj[o].list_
    BY <1>1 DEF Container
  <1>3. Len(s) \in Nat /\ Len(l) \in Nat /\ s \in [1 .. Len(s) -> Blocks] /\ l \in [1 .. Len(l) -> Blocks]
    OBVIOUS
  <1>4. m.obj[o].alloc \in Allocs /\ m.obj[o].live \in BOOLEAN
    BY <1>1 DEF Container
  <1> QED
    BY <1>1, <1>2, <1>3, <1>4

\* A container whose elements have not changed is as ordered as before.
LEMMA ThreadedFrame ==
  ASSUME NEW m, NEW r, NEW o,
         Shape(m), Shape(r), o \in Objects, r.obj[o] = m.obj[o], Threaded(m, o),
         \A b \in Blocks : OnList(m, o, b) => r.heap[b] = m.heap[b]
  PROVE  Threaded(r, o)
  <1>0. PICK n, s, l : n = Len(m.obj[o].list_) /\ s = m.obj[o].set_ /\ l = m.obj[o].list_
    OBVIOUS
  <1>1. /\ n \in Nat /\ s \in [1 .. n -> Blocks] /\ l \in [1 .. n -> Blocks]
        /\ n = Len(m.obj[o].list_) /\ s = m.obj[o].set_ /\ l = m.obj[o].list_
    BY <1>0, Structures DEF Threaded
  <1>2. Places(m) \in [Blocks -> Nat] /\ Places(r) \in [Blocks -> Nat]
    BY PlacesType
  <1>3. Ordered(Places(m), n, s, l)
    BY <1>1 DEF Threaded
  <1>4. ASSUME NEW x \in 1 .. n PROVE Places(r)[l[x]] = Places(m)[l[x]]
    <2>1. l[x] \in Blocks /\ OnList(m, o, l[x])
      BY <1>1 DEF OnList
    <2>2. r.heap[l[x]] = m.heap[l[x]]
      BY <2>1
    <2> QED
      BY <2>1, <2>2 DEF Places
  <1>5. Ordered(Places(r), n, s, l)
    BY <1>1, <1>2, <1>3, <1>4, OrderedFrame
  <1> QED
    BY <1>1, <1>5 DEF Threaded

\* An empty container is ordered.
LEMMA ThreadedEmpty ==
  ASSUME NEW m, NEW o,
         o \in Objects, m.obj[o].set_ = <<>>, m.obj[o].list_ = <<>>
  PROVE  Threaded(m, o)
  <1>1. Len(m.obj[o].set_) = 0 /\ Len(m.obj[o].list_) = 0
    OBVIOUS
  <1>2. \A j \in 1 .. 0 : FALSE
    OBVIOUS
  <1> QED
    BY <1>1, <1>2 DEF Threaded, Ordered, Covers, InOrder

\* Nothing is on an empty list.
LEMMA EmptyList ==
  ASSUME NEW m, NEW o,
         o \in Objects, m.obj[o].list_ = <<>>
  PROVE  (\A b \in Blocks : ~OnList(m, o, b)) /\ Distinct(Len(m.obj[o].list_), m.obj[o].list_)
  <1>1. Len(m.obj[o].list_) = 0
    OBVIOUS
  <1>2. \A j \in 1 .. 0 : FALSE
    OBVIOUS
  <1> QED
    BY <1>1, <1>2 DEF OnList, Distinct

\* A container and its elements are replaced by an empty container: clear, the
\* destructor, and all the constructors when it owned nothing.
LEMMA ResetSound ==
  ASSUME NEW m, NEW r, NEW o,
         Sound(m), Shape(r), o \in Objects, r.obj[o].set_ = <<>>, r.obj[o].list_ = <<>>,
         \A p \in Objects : p # o => r.obj[p] = m.obj[p],
         \A b \in Blocks : r.heap[b] = IF OnList(m, o, b) THEN Free ELSE m.heap[b]
  PROVE  Sound(r)
  <1>1. Shape(m) /\ DeadEmpty(m) /\ GivenOut(m) /\ OneList(m) /\ OncePerList(m) /\ NoLeak(m)
        /\ \A p \in Objects : Threaded(m, p)
    BY DEF Sound
  <1>2. \A b \in Blocks : ~OnList(r, o, b)
    BY EmptyList
  <1>3. ASSUME NEW p \in Objects, p # o, NEW b \in Blocks
        PROVE  (OnList(r, p, b) <=> OnList(m, p, b)) /\ (OnList(m, p, b) => r.heap[b] = m.heap[b])
    <2>1. OnList(r, p, b) <=> OnList(m, p, b)
      BY <1>3 DEF OnList
    <2>2. OnList(m, p, b) => ~OnList(m, o, b)
      BY <1>1, <1>3 DEF OneList
    <2> QED
      BY <2>1, <2>2
  <1>4. DeadEmpty(r)
    BY <1>1 DEF DeadEmpty
  <1>5. GivenOut(r)
    <2>1. ASSUME NEW p \in Objects, NEW b \in Blocks, OnList(r, p, b)
          PROVE  r.heap[b] # Free /\ r.heap[b].alloc = r.obj[p].alloc
      <3>1. p # o
        BY <1>2, <2>1
      <3>2. OnList(m, p, b) /\ r.heap[b] = m.heap[b] /\ r.obj[p] = m.obj[p]
        BY <1>3, <2>1, <3>1
      <3> QED
        BY <1>1, <3>2 DEF GivenOut
    <2> QED
      BY <2>1 DEF GivenOut
  <1>6. OneList(r)
    <2>1. ASSUME NEW p \in Objects, NEW q \in Objects, NEW b \in Blocks, OnList(r, p, b), OnList(r, q, b) PROVE p = q
      <3>1. p # o /\ q # o
        BY <1>2, <2>1
      <3>2. OnList(m, p, b) /\ OnList(m, q, b)
        BY <1>3, <2>1, <3>1
      <3> QED
        BY <1>1, <3>2 DEF OneList
    <2> QED
      BY <2>1 DEF OneList
  <1>7. OncePerList(r)
    <2>1. ASSUME NEW p \in Objects PROVE Distinct(Len(r.obj[p].list_), r.obj[p].list_)
      <3>1. CASE p = o
        BY <3>1, EmptyList
      <3>2. CASE p # o
        BY <1>1, <3>2 DEF OncePerList
      <3> QED
        BY <3>1, <3>2
    <2> QED
      BY <2>1 DEF OncePerList
  <1>8. NoLeak(r)
    <2>1. ASSUME NEW b \in Blocks, r.heap[b] # Free PROVE \E p \in Objects : OnList(r, p, b)
      <3>1. ~OnList(m, o, b) /\ m.heap[b] # Free
        BY <2>1
      <3>2. PICK p \in Objects : OnList(m, p, b)
        BY <1>1, <3>1 DEF NoLeak
      <3>3. p # o
        BY <3>1, <3>2
      <3> QED
        BY <1>3, <3>2, <3>3
    <2> QED
      BY <2>1 DEF NoLeak
  <1>9. ASSUME NEW p \in Objects PROVE Threaded(r, p)
    <2>1. CASE p = o
      BY <2>1, ThreadedEmpty
    <2>2. CASE p # o
      BY <1>1, <1>3, <2>2, ThreadedFrame
    <2> QED
      BY <2>1, <2>2
  <1> QED
    BY <1>4, <1>5, <1>6, <1>7, <1>8, <1>9 DEF Sound

-----------------------------------------------------------------------------
(* clear, the destructor, the constructors and a change of allocator       *)

\* m after container c took the place of container o.
Put(m, o, c) == [m EXCEPT !.obj[o] = c]

\* A container in its place: constructed, destroyed or with another allocator.
LEMMA PutEffect ==
  ASSUME NEW m, NEW o, NEW c, NEW r,
         Shape(m), o \in Objects, c \in Container, r = Put(m, o, c)
  PROVE  /\ Shape(r) /\ r.obj[o] = c /\ r.heap = m.heap
         /\ \A p \in Objects : p # o => r.obj[p] = m.obj[p]
  <1>1. PICK O, H : m = [obj |-> O, heap |-> H] /\ O = m.obj /\ H = m.heap
    BY DEF Shape
  <1>2. O \in [Objects -> Container] /\ H = [b \in Blocks |-> H[b]]
    BY <1>1 DEF Shape
  <1>3. r.heap = H /\ r.obj = [O EXCEPT ![o] = c] /\ r = [obj |-> r.obj, heap |-> r.heap]
    BY <1>1 DEF Put
  <1>4. r.obj \in [Objects -> Container] /\ r.obj[o] = c /\ \A p \in Objects : p # o => r.obj[p] = O[p]
    BY <1>2, <1>3
  <1>5. Shape(r)
    BY <1>1, <1>3, <1>4 DEF Shape
  <1> QED
    BY <1>1, <1>3, <1>4, <1>5

\* delete_all gives back what is on the list.
LEMMA DeleteAllEffect ==
  ASSUME NEW m, NEW o, NEW r,
         Shape(m), o \in Objects, r = delete_all(m, o)
  PROVE  /\ Shape(r) /\ r.obj = m.obj
         /\ \A b \in Blocks : r.heap[b] = IF OnList(m, o, b) THEN Free ELSE m.heap[b]
  <1>1. PICK O, H : m = [obj |-> O, heap |-> H] /\ O = m.obj /\ H = m.heap
    BY DEF Shape
  <1>2. O \in [Objects -> Container] /\ H = [b \in Blocks |-> H[b]]
    BY <1>1 DEF Shape
  <1>3. DOMAIN O[o].list_ = 1 .. Len(O[o].list_)
    BY <1>1, Structures
  <1>4. ASSUME NEW b \in Blocks
        PROVE  OnList(m, o, b) <=> \E k \in DOMAIN m.obj[o].list_ : m.obj[o].list_[k] = b
    BY <1>1, <1>3 DEF OnList
  <1>5. r.obj = O /\ r = [obj |-> r.obj, heap |-> r.heap]
        /\ r.heap = [b \in Blocks |-> IF \E k \in DOMAIN m.obj[o].list_ : m.obj[o].list_[k] = b THEN Free ELSE H[b]]
    BY <1>1 DEF delete_all
  <1>6. \A b \in Blocks : r.heap[b] = IF OnList(m, o, b) THEN Free ELSE m.heap[b]
    BY <1>1, <1>4, <1>5
  <1>7. r.heap = [b \in Blocks |-> r.heap[b]]
    BY <1>5
  <1>8. Shape(r)
    BY <1>1, <1>2, <1>5, <1>6, <1>7 DEF Shape
  <1> QED
    BY <1>1, <1>5, <1>6, <1>8

\* The elements of a container go and an empty one takes its place.
LEMMA ResetTo ==
  ASSUME NEW m, NEW o, NEW c, NEW r,
         Sound(m), o \in Objects, c \in Container, c.set_ = <<>>, c.list_ = <<>>,
         r = Put(delete_all(m, o), o, c)
  PROVE  /\ Sound(r) /\ r.obj[o] = c
         /\ \A p \in Objects : p # o => r.obj[p] = m.obj[p]
         /\ \A b \in Blocks : r.heap[b] = IF OnList(m, o, b) THEN Free ELSE m.heap[b]
  <1> DEFINE d == delete_all(m, o)
  <1>1. Shape(m)
    BY DEF Sound
  <1>2. Shape(d) /\ d.obj = m.obj /\ \A b \in Blocks : d.heap[b] = IF OnList(m, o, b) THEN Free ELSE m.heap[b]
    BY <1>1, DeleteAllEffect
  <1>3. r = Put(d, o, c)
    OBVIOUS
  <1> HIDE DEF d
  <1>4. /\ Shape(r) /\ r.obj[o] = c /\ r.heap = d.heap
        /\ \A p \in Objects : p # o => r.obj[p] = d.obj[p]
    BY <1>2, <1>3, PutEffect
  <1>5. /\ \A p \in Objects : p # o => r.obj[p] = m.obj[p]
        /\ \A b \in Blocks : r.heap[b] = IF OnList(m, o, b) THEN Free ELSE m.heap[b]
    BY <1>2, <1>4
  <1>6. Sound(r)
    BY <1>4, <1>5, ResetSound
  <1> QED
    BY <1>4, <1>5, <1>6

\* A container that owns nothing is replaced by another one.
LEMMA PutSound ==
  ASSUME NEW m, NEW o, NEW c, NEW r,
         Sound(m), o \in Objects, m.obj[o].list_ = <<>>, c \in Container, c.set_ = <<>>,
         c.list_ = <<>>, r = Put(m, o, c)
  PROVE  /\ Sound(r) /\ r.obj[o] = c /\ r.heap = m.heap
         /\ \A p \in Objects : p # o => r.obj[p] = m.obj[p]
  <1>1. Shape(m)
    BY DEF Sound
  <1>2. /\ Shape(r) /\ r.obj[o] = c /\ r.heap = m.heap
        /\ \A p \in Objects : p # o => r.obj[p] = m.obj[p]
    BY <1>1, PutEffect
  <1>3. \A b \in Blocks : ~OnList(m, o, b)
    BY EmptyList
  <1>4. Sound(r)
    BY <1>2, <1>3, ResetSound
  <1> QED
    BY <1>2, <1>4

\* Container k with other structures.
Rethread(k, S, L) == [k EXCEPT !.set_ = S, !.list_ = L]

\* It has the life and the allocator of k.
LEMMA Rethreaded ==
  ASSUME NEW k, NEW S, NEW L, NEW c,
         k \in Container, S \in Seq(Blocks), L \in Seq(Blocks), c = Rethread(k, S, L)
  PROVE  c \in Container /\ c.live = k.live /\ c.alloc = k.alloc /\ c.set_ = S /\ c.list_ = L
  BY DEF Container, Rethread

\* clear leaves an empty container with the allocator it had.
LEMMA ClearSound ==
  ASSUME NEW m, NEW o, NEW r,
         Sound(m), o \in Objects, r = clear(m, o)
  PROVE  /\ Sound(r)
         /\ r.obj[o].live = m.obj[o].live /\ r.obj[o].alloc = m.obj[o].alloc
         /\ r.obj[o].set_ = <<>> /\ r.obj[o].list_ = <<>>
         /\ \A p \in Objects : p # o => r.obj[p] = m.obj[p]
         /\ \A b \in Blocks : r.heap[b] = IF OnList(m, o, b) THEN Free ELSE m.heap[b]
  <1> DEFINE d == delete_all(m, o)
             c == [m.obj[o] EXCEPT !.set_ = <<>>, !.list_ = <<>>]
  <1>1. Shape(m)
    BY DEF Sound
  <1>2. Shape(d) /\ d.obj = m.obj
    BY <1>1, DeleteAllEffect
  <1>3. c \in Container /\ c.live = m.obj[o].live /\ c.alloc = m.obj[o].alloc /\ c.set_ = <<>> /\ c.list_ = <<>>
    <2>1. PICK k : k = m.obj[o]
      OBVIOUS
    <2>2. k \in Container
      BY <1>1, <2>1, Structures
    <2>3. <<>> \in Seq(Blocks)
      OBVIOUS
    <2>n. PICK none : none = <<>>
      OBVIOUS
    <2>4. c = Rethread(k, none, none) /\ none \in Seq(Blocks)
      BY <2>1, <2>3, <2>n DEF Rethread
    <2> HIDE DEF c
    <2>5. c \in Container /\ c.live = k.live /\ c.alloc = k.alloc /\ c.set_ = none /\ c.list_ = none
      BY <2>2, <2>4, Rethreaded
    <2> QED
      BY <2>1, <2>5, <2>n
  <1>4. r = Put(d, o, c)
    <2>1. r = [d EXCEPT !.obj[o].list_ = <<>>, !.obj[o].set_ = <<>>]
      BY DEF clear
    <2> HIDE DEF d
    <2>2. PICK O, H : d = [obj |-> O, heap |-> H] /\ O = d.obj /\ H = d.heap
      BY <1>2 DEF Shape
    <2>3. O \in [Objects -> Container] /\ O = m.obj
      BY <1>2, <2>2 DEF Shape
    <2>4. r.obj = [O EXCEPT ![o].list_ = <<>>, ![o].set_ = <<>>] /\ r.heap = H /\ r = [obj |-> r.obj, heap |-> r.heap]
      BY <2>1, <2>2
    <2>5. r.obj = [O EXCEPT ![o] = [O[o] EXCEPT !.list_ = <<>>, !.set_ = <<>>]]
      BY <2>3, <2>4
    <2>6. [O[o] EXCEPT !.list_ = <<>>, !.set_ = <<>>] = c
      BY <2>3
    <2>7. Put(d, o, c) = [obj |-> [O EXCEPT ![o] = c], heap |-> H]
      BY <2>2 DEF Put
    <2> QED
      BY <2>4, <2>5, <2>6, <2>7
  <1> HIDE DEF c
  <1>5. r = Put(delete_all(m, o), o, c)
    BY <1>4
  <1> QED
    BY <1>3, <1>5, ResetTo

-----------------------------------------------------------------------------
(* insert                                                                  *)

\* The elements of the multiset of a container are on its list and have names.
LEMMA SetElements ==
  ASSUME NEW m, NEW o, NEW k,
         Sound(m), o \in Objects, k \in 1 .. Len(m.obj[o].set_)
  PROVE  LET b == m.obj[o].set_[k]
         IN  /\ b \in Blocks /\ OnList(m, o, b) /\ m.heap[b] # Free
             /\ m.heap[b].name \in Letters /\ Places(m)[b] = tolower(m.heap[b].name)
  <1>1. Shape(m) /\ Threaded(m, o) /\ GivenOut(m)
    BY DEF Sound
  <1>2. PICK b : b = m.obj[o].set_[k]
    OBVIOUS
  <1>3. b \in Blocks
    BY <1>1, <1>2, Structures
  <1>4. OnList(m, o, b)
    BY <1>1, <1>2 DEF Threaded, Ordered, Covers, OnList
  <1>5. m.heap[b] # Free
    BY <1>1, <1>3, <1>4 DEF GivenOut
  <1>6. m.heap[b].name \in Letters
    BY <1>1, <1>3, <1>5 DEF Shape
  <1>7. Places(m)[b] = tolower(m.heap[b].name)
    BY <1>3, <1>5 DEF Places
  <1> QED
    BY <1>2, <1>3, <1>4, <1>5, <1>6, <1>7

\* upper_bound in the multiset of a container.
LEMMA SetUpperBound ==
  ASSUME NEW m, NEW o, NEW name,
         Sound(m), o \in Objects, name \in Letters
  PROVE  \E c \in 0 .. Len(m.obj[o].set_) :
           /\ set_upper_bound(m, o, name) = c + 1
           /\ \A k \in 1 .. Len(m.obj[o].set_) : k <= c <=> Places(m)[m.obj[o].set_[k]] <= tolower(name)
  <1>1. Shape(m) /\ Threaded(m, o)
    BY DEF Sound
  <1>n. PICK n \in Nat : n = Len(m.obj[o].set_) /\ n = Len(m.obj[o].list_)
    BY <1>1, Structures DEF Threaded
  <1>s. PICK s \in [1 .. n -> Blocks], l \in [1 .. n -> Blocks] : s = m.obj[o].set_ /\ l = m.obj[o].list_
    BY <1>1, <1>n, Structures
  <1>k. PICK K \in [Blocks -> Nat], v \in Nat : K = Places(m) /\ v = tolower(name)
    BY <1>1, PlacesType, LetterPlaces
  <1>2. n = Len(m.obj[o].set_) /\ s = m.obj[o].set_ /\ l = m.obj[o].list_ /\ K = Places(m) /\ v = tolower(name)
    BY <1>n, <1>s, <1>k
  <1>3. Ordered(K, n, s, l)
    BY <1>1, <1>n, <1>s, <1>k DEF Threaded
  <1>4. PICK T \in SUBSET (1 .. n) : T = {k \in 1 .. n : ~(v < K[s[k]])}
    OBVIOUS
  <1>5. \A k \in 1 .. n : k \in T <=> ~(v < K[s[k]])
    BY <1>4
  <1>6. Cardinality(T) \in 0 .. n /\ T = 1 .. Cardinality(T)
    BY <1>3, <1>5, UpperBound
  <1>c. PICK c \in 0 .. n : c = Cardinality(T)
    BY <1>6
  <1>7. T = 1 .. c
    BY <1>6, <1>c
  <1>8. set_upper_bound(m, o, name) = c + 1
    <2>1. ASSUME NEW k \in 1 .. n PROVE v < K[s[k]] <=> ci_less(name, m.heap[s[k]].name)
      <3>1. k \in 1 .. Len(m.obj[o].set_)
        BY <1>n
      <3>2. Places(m)[m.obj[o].set_[k]] = tolower(m.heap[m.obj[o].set_[k]].name)
        BY <3>1, SetElements
      <3>3. K[s[k]] = tolower(m.heap[s[k]].name)
        BY <3>2, <1>s, <1>k
      <3> QED
        BY <3>3, <1>k DEF ci_less
    <2>2. T = {k \in DOMAIN s : ~ci_less(name, m.heap[s[k]].name)}
      BY <1>4, <2>1
    <2> QED
      BY <1>c, <1>s, <2>2 DEF set_upper_bound
  <1>9. ASSUME NEW k \in 1 .. n PROVE k <= c <=> K[s[k]] <= v
    <2>1. k \in T <=> k <= c
      BY <1>7
    <2>2. K[s[k]] \in Nat
      OBVIOUS
    <2> QED
      BY <1>5, <2>1, <2>2
  <1> QED
    BY <1>2, <1>8, <1>9

\* An element more in a container, behind those of its name in the multiset and
\* behind all on the list, keeps the invariant.
LEMMA InsertCore ==
  ASSUME NEW m, NEW r, NEW o, NEW name, NEW b, NEW e,
         Sound(m), o \in Objects, m.obj[o].live, name \in Letters, b \in Blocks, m.heap[b] = Free,
         e # Free, e.alloc = m.obj[o].alloc, e.name = name,
         Changed(m, r, o, b, e, InsertAt(m.obj[o].set_, set_upper_bound(m, o, name), b), Append(m.obj[o].list_, b))
  PROVE  Sound(r)
  <1>1. Shape(m) /\ DeadEmpty(m) /\ GivenOut(m) /\ OneList(m) /\ OncePerList(m) /\ NoLeak(m)
        /\ \A p \in Objects : Threaded(m, p)
    BY DEF Sound
  <1>n. PICK n \in Nat : n = Len(m.obj[o].set_) /\ n = Len(m.obj[o].list_)
    BY <1>1, Structures DEF Threaded
  <1>s. PICK s \in Seq(Blocks), l \in Seq(Blocks) : s = m.obj[o].set_ /\ l = m.obj[o].list_
    BY <1>1, Structures
  <1>3. n = Len(s) /\ n = Len(l) /\ s \in [1 .. n -> Blocks] /\ l \in [1 .. n -> Blocks]
    BY <1>1, <1>n, <1>s, Structures
  <1>4. PICK c \in 0 .. n : /\ set_upper_bound(m, o, name) = c + 1
                            /\ \A k \in 1 .. n : k <= c <=> Places(m)[s[k]] <= tolower(name)
    BY <1>n, <1>s, SetUpperBound
  <1>i. PICK i \in 1 .. Len(s) + 1 : i = c + 1
    BY <1>3
  <1>t. PICK t \in Seq(Blocks) :
          /\ t = InsertAt(s, i, b) /\ Len(t) = Len(s) + 1
          /\ \A j \in 1 .. Len(s) + 1 : t[j] = IF j < i THEN s[j] ELSE IF j = i THEN b ELSE s[j - 1]
    BY InsertAtReads
  <1>z. PICK z : z = Append(l, b)
    OBVIOUS
  <1>7. /\ Len(t) = n + 1
        /\ \A j \in 1 .. n + 1 : t[j] = IF j < c + 1 THEN s[j] ELSE IF j = c + 1 THEN b ELSE s[j - 1]
    BY <1>3, <1>i, <1>t
  <1>8. z \in Seq(Blocks) /\ Len(z) = n + 1 /\ z[n + 1] = b /\ \A x \in 1 .. n : z[x] = l[x]
    BY <1>3, <1>z
  <1>10. r.obj[o].set_ = t /\ r.obj[o].list_ = z
    BY <1>s, <1>4, <1>i, <1>t, <1>z DEF Changed
  <1>9. /\ r.heap[b] # Free /\ r.heap[b].alloc = m.obj[o].alloc /\ r.heap[b].name = name
        /\ \A a \in Blocks : a # b => r.heap[a] = m.heap[a]
        /\ \A p \in Objects : p # o => r.obj[p] = m.obj[p]
        /\ r.obj[o].live = m.obj[o].live /\ r.obj[o].alloc = m.obj[o].alloc /\ Shape(r)
    BY DEF Changed
  <1>11. \A p \in Objects : ~OnList(m, p, b)
    BY <1>1 DEF GivenOut
  <1>12. ASSUME NEW a \in Blocks PROVE OnList(r, o, a) <=> OnList(m, o, a) \/ a = b
    <2>1. OnList(r, o, a) <=> \E x \in 1 .. n + 1 : z[x] = a
      BY <1>8, <1>10 DEF OnList
    <2>2. OnList(m, o, a) <=> \E x \in 1 .. n : l[x] = a
      BY <1>n, <1>s DEF OnList
    <2>3. ASSUME NEW x \in 1 .. n + 1 PROVE (x \in 1 .. n /\ z[x] = l[x]) \/ (x = n + 1 /\ z[x] = b)
      BY <1>3, <1>8
    <2>4. n + 1 \in 1 .. n + 1 /\ \A x \in 1 .. n : x \in 1 .. n + 1
      BY <1>3
    <2> QED
      BY <1>8, <2>1, <2>2, <2>3, <2>4
  <1>13. ASSUME NEW p \in Objects, p # o, NEW a \in Blocks
         PROVE  (OnList(r, p, a) <=> OnList(m, p, a)) /\ (OnList(m, p, a) => r.heap[a] = m.heap[a])
    BY <1>9, <1>11, <1>13 DEF OnList
  <1>14. DeadEmpty(r)
    BY <1>1, <1>9 DEF DeadEmpty
  <1>15. GivenOut(r)
    <2>1. ASSUME NEW p \in Objects, NEW a \in Blocks, OnList(r, p, a)
          PROVE  r.heap[a] # Free /\ r.heap[a].alloc = r.obj[p].alloc
      <3>1. CASE p # o
        <4>1. OnList(m, p, a) /\ r.heap[a] = m.heap[a] /\ r.obj[p] = m.obj[p]
          BY <1>9, <1>13, <2>1, <3>1
        <4> QED
          BY <1>1, <4>1 DEF GivenOut
      <3>2. CASE p = o /\ a = b
        BY <1>9, <3>2
      <3>3. CASE p = o /\ a # b
        <4>1. OnList(m, o, a) /\ r.heap[a] = m.heap[a]
          BY <1>9, <1>12, <2>1, <3>3
        <4> QED
          BY <1>1, <1>9, <3>3, <4>1 DEF GivenOut
      <3> QED
        BY <3>1, <3>2, <3>3
    <2> QED
      BY <2>1 DEF GivenOut
  <1>16. OneList(r)
    <2>1. ASSUME NEW p \in Objects, NEW a \in Blocks, OnList(r, p, a)
          PROVE  (a = b => p = o) /\ (a # b => OnList(m, p, a))
      BY <1>11, <1>12, <1>13, <2>1
    <2>2. ASSUME NEW p \in Objects, NEW q \in Objects, NEW a \in Blocks, OnList(r, p, a), OnList(r, q, a) PROVE p = q
      <3>1. CASE a = b
        BY <2>1, <2>2, <3>1
      <3>2. CASE a # b
        BY <1>1, <2>1, <2>2, <3>2 DEF OneList
      <3> QED
        BY <3>1, <3>2
    <2> QED
      BY <2>2 DEF OneList
  <1>17. NoLeak(r)
    <2>1. ASSUME NEW a \in Blocks, r.heap[a] # Free PROVE \E p \in Objects : OnList(r, p, a)
      <3>1. CASE a = b
        BY <1>12, <3>1
      <3>2. CASE a # b
        <4>1. m.heap[a] # Free
          BY <1>9, <2>1, <3>2
        <4>2. PICK p \in Objects : OnList(m, p, a)
          BY <1>1, <4>1 DEF NoLeak
        <4> QED
          BY <1>12, <1>13, <4>2
      <3> QED
        BY <3>1, <3>2
    <2> QED
      BY <2>1 DEF NoLeak
  <1>18. Ordered(Places(r), n + 1, t, z) /\ Distinct(n + 1, z)
    <2>1. PICK K \in [Blocks -> Nat], L \in [Blocks -> Nat] : K = Places(m) /\ L = Places(r)
      BY <1>1, <1>9, PlacesType
    <2>2. \A a \in Blocks : a # b => L[a] = K[a]
      BY <1>9, <2>1 DEF Places
    <2>3. L[b] = tolower(name)
      BY <1>9, <2>1 DEF Places
    <2>4. Ordered(K, n, s, l) /\ Distinct(n, l)
      BY <1>1, <1>n, <1>s, <2>1 DEF Threaded, OncePerList
    <2>5. \A x \in 1 .. n : l[x] # b
      BY <1>n, <1>s, <1>11 DEF OnList
    <2>6. t \in [1 .. n + 1 -> Blocks]
      BY <1>7, SeqIsFunction
    <2>7. z \in [1 .. n + 1 -> Blocks]
      BY <1>8, SeqIsFunction
    <2>8. \A k \in 1 .. n : k <= c <=> K[s[k]] <= L[b]
      BY <1>4, <2>1, <2>3
    <2>9. PutIn(n, s, l, b, c, t, z)
      BY <1>7, <1>8, <2>6, <2>7 DEF PutIn
    <2>f. s \in [1 .. n -> Blocks] /\ l \in [1 .. n -> Blocks]
      BY <1>3
    <2>i. Insertion(n, K, L, s, l, b, c, t, z)
      BY <2>f, <2>2, <2>4, <2>5, <2>8, <2>9 DEF Insertion
    <2>10. Ordered(L, n + 1, t, z) /\ Distinct(n + 1, z)
      BY <2>i, InsertOrdered
    <2> QED
      BY <2>1, <2>10
  <1>19. OncePerList(r)
    <2>1. ASSUME NEW p \in Objects PROVE Distinct(Len(r.obj[p].list_), r.obj[p].list_)
      <3>1. CASE p = o
        BY <1>8, <1>10, <1>18, <3>1
      <3>2. CASE p # o
        BY <1>1, <1>9, <3>2 DEF OncePerList
      <3> QED
        BY <3>1, <3>2
    <2> QED
      BY <2>1 DEF OncePerList
  <1>20. ASSUME NEW p \in Objects PROVE Threaded(r, p)
    <2>1. CASE p = o
      BY <1>7, <1>8, <1>10, <1>18, <2>1 DEF Threaded
    <2>2. CASE p # o
      BY <1>1, <1>9, <1>13, <2>2, ThreadedFrame
    <2> QED
      BY <2>1, <2>2
  <1> QED
    BY <1>9, <1>14, <1>15, <1>16, <1>17, <1>19, <1>20 DEF Sound

\* r is m with one more element in container o, in block b.
Inserted(m, o, b, name, value, r) ==
  /\ Sound(r)
  /\ r.heap[b] = [alloc |-> m.obj[o].alloc, name |-> name, value |-> trim(value)]
  /\ r.heap[b] # Free
  /\ \A c \in Blocks : c # b => r.heap[c] = m.heap[c]
  /\ \A p \in Objects : p # o => r.obj[p] = m.obj[p]
  /\ r.obj[o].live = m.obj[o].live /\ r.obj[o].alloc = m.obj[o].alloc
  /\ r.obj[o].list_ = Append(m.obj[o].list_, b)

\* insert keeps the invariant.
LEMMA InsertSound ==
  ASSUME NEW m, NEW o, NEW name, NEW value,
         Sound(m), o \in Objects, m.obj[o].live, name \in Letters,
         block(m) \in Blocks, m.heap[block(m)] = Free
  PROVE  Inserted(m, o, block(m), name, value, insert(m, o, name, value))
  <1>r. PICK r : r = insert(m, o, name, value)
    OBVIOUS
  <1>1. Shape(m) /\ m.obj[o].alloc \in Allocs /\ m.obj[o].set_ \in Seq(Blocks) /\ m.obj[o].list_ \in Seq(Blocks)
    BY Structures DEF Sound
  <1> DEFINE b == block(m)
             e == [alloc |-> m.obj[o].alloc, name |-> name, value |-> trim(value)]
             u == set_upper_bound(m, o, name)
             S == InsertAt(m.obj[o].set_, u, b)
             L == Append(m.obj[o].list_, b)
  <1>2. e # Free /\ e.alloc = m.obj[o].alloc /\ e.alloc \in Allocs /\ e.name = name /\ e.name \in Letters
    BY <1>1 DEF Free, Letters
  <1>3. b \in Blocks /\ m.heap[b] = Free
    OBVIOUS
  <1>4. r = Updated(m, o, b, e, S, L)
    BY <1>1, <1>r, InsertIsUpdate
  <1>5. Changed(m, r, o, b, e, S, L) => r.heap[b] = e
    BY DEF Changed
  <1> HIDE DEF e, b
  <1>6. u \in 1 .. Len(m.obj[o].set_) + 1
    <2>1. PICK c \in 0 .. Len(m.obj[o].set_) : set_upper_bound(m, o, name) = c + 1
      BY SetUpperBound
    <2>2. Len(m.obj[o].set_) \in Nat
      BY <1>1, Structures
    <2> QED
      BY <2>1, <2>2
  <1> HIDE DEF u
  <1>7. S \in Seq(Blocks)
    BY <1>1, <1>3, <1>6, InsertAtReads
  <1>8. L \in Seq(Blocks)
    BY <1>1, <1>3
  <1>9. Changed(m, r, o, b, e, S, L)
    <2> HIDE DEF S, L
    <2> QED
      BY <1>1, <1>2, <1>3, <1>4, <1>7, <1>8, UpdatedEffect
  <1>10. Sound(r)
    BY <1>2, <1>3, <1>9, InsertCore DEF u
  <1>11. /\ \A c \in Blocks : c # b => r.heap[c] = m.heap[c]
         /\ \A p \in Objects : p # o => r.obj[p] = m.obj[p]
         /\ r.obj[o].live = m.obj[o].live /\ r.obj[o].alloc = m.obj[o].alloc
         /\ r.obj[o].list_ = L
    <2> HIDE DEF S, L
    <2> QED
      BY <1>9 DEF Changed
  <1>12. r.heap[b] = e /\ e # Free
    BY <1>2, <1>5, <1>9
  <1>13. Inserted(m, o, block(m), name, value, r)
    BY <1>10, <1>11, <1>12 DEF e, b, Inserted
  <1> QED
    BY <1>13, <1>r

-----------------------------------------------------------------------------
(* The heap                                                                *)

FreeBlocks(m) == {b \in Blocks : m.heap[b] = Free}

\* The blocks that are free can be counted.
LEMMA FreeCount ==
  ASSUME NEW m
  PROVE  /\ IsFiniteSet(FreeBlocks(m)) /\ Cardinality(FreeBlocks(m)) \in Nat
         /\ FreeBlocks(m) \in SUBSET Nat
  <1>1. FreeBlocks(m) \in SUBSET Blocks /\ IsFiniteSet(Blocks) /\ Blocks \in SUBSET Nat
    BY BlocksAreNumbers DEF FreeBlocks
  <1>2. IsFiniteSet(FreeBlocks(m))
    BY <1>1, FS_Subset
  <1>3. Cardinality(FreeBlocks(m)) \in Nat
    BY <1>2, FS_CardinalityType
  <1> QED
    BY <1>1, <1>2, <1>3

\* Where a block is free, the allocator gives out a block that was free.
LEMMA BlockIsFree ==
  ASSUME NEW m,
         FreeBlocks(m) # {}
  PROVE  block(m) \in Blocks /\ m.heap[block(m)] = Free /\ block(m) \in FreeBlocks(m)
  <1>1. PICK F : F = FreeBlocks(m)
    OBVIOUS
  <1>2. F \subseteq Nat /\ F # {}
    BY <1>1, FreeCount
  <1>3. PICK x \in F : \A y \in F : <<y, x>> \notin Less
    BY <1>2, LessWellFounded, WFMin
  <1>4. ASSUME NEW y \in F PROVE x <= y
    <2>1. x \in Nat /\ y \in Nat /\ <<y, x>> \notin Less
      BY <1>2, <1>3
    <2> QED
      BY <2>1 DEF Less
  <1>5. x \in Blocks /\ m.heap[x] = Free /\ \A c \in Blocks : m.heap[c] = Free => x <= c
    BY <1>1, <1>4 DEF FreeBlocks
  <1>6. block(m) \in Blocks /\ m.heap[block(m)] = Free
    BY <1>5 DEF block
  <1> QED
    BY <1>6 DEF FreeBlocks

\* HasBlocks finds a block.
LEMMA BlockGiven ==
  ASSUME NEW m, NEW n,
         n \in Nat, n > 0, HasBlocks(m, n)
  PROVE  block(m) \in Blocks /\ m.heap[block(m)] = Free
  <1>1. Cardinality(FreeBlocks(m)) >= n /\ Cardinality(FreeBlocks(m)) \in Nat
    BY FreeCount DEF HasBlocks, FreeBlocks
  <1>2. FreeBlocks(m) # {}
    <2>1. Cardinality(FreeBlocks(m)) # 0
      BY <1>1
    <2> QED
      BY <2>1, FS_EmptySet
  <1> QED
    BY <1>2, BlockIsFree

\* Block b was given out between m and r, and no other.
TakesOne(m, r, b) ==
  /\ b \in Blocks /\ m.heap[b] = Free /\ r.heap[b] # Free
  /\ \A c \in Blocks : c # b => r.heap[c] = m.heap[c]

\* A block less is free.
LEMMA InsertTakesOne ==
  ASSUME NEW m, NEW r, NEW b, NEW n, NEW k,
         n \in Nat, k \in Nat, n < k, HasBlocks(m, k), TakesOne(m, r, b)
  PROVE  HasBlocks(r, n)
  <1>1. FreeBlocks(r) = FreeBlocks(m) \ {b} /\ b \in FreeBlocks(m)
    BY DEF FreeBlocks, TakesOne
  <1>2. IsFiniteSet(FreeBlocks(m)) /\ Cardinality(FreeBlocks(m)) \in Nat
    BY FreeCount
  <1>3. Cardinality(FreeBlocks(m) \ {b}) = Cardinality(FreeBlocks(m)) - 1
    BY <1>1, <1>2, FS_RemoveElement
  <1>4. Cardinality(FreeBlocks(m)) >= k
    BY DEF HasBlocks, FreeBlocks
  <1>5. Cardinality(FreeBlocks(r)) >= n
    BY <1>1, <1>2, <1>3, <1>4
  <1> QED
    BY <1>5 DEF HasBlocks, FreeBlocks

-----------------------------------------------------------------------------
(* copy_from                                                               *)

\* f is the states after each turn of the loop in copy_from.
CopyTurns(m, o, fs, n, f) ==
  f = [k \in 0 .. n |-> IF k = 0 THEN m ELSE insert(f[k - 1], o, fs[k].name, fs[k].value)]

\* The loop has a state after each turn.
LEMMA CopyTurnsExist ==
  ASSUME NEW m, NEW o, NEW fs, NEW n,
         n \in Nat
  PROVE  \E f : CopyTurns(m, o, fs, n, f)
  <1> DEFINE Turn(p, k) == insert(p, o, fs[k].name, fs[k].value)
             Is(x, f) == f = [k \in 0 .. x |-> IF k = 0 THEN m ELSE Turn(f[k - 1], k)]
             H == {x \in Nat : \E f : Is(x, f)}
  <1>0. \A x, f : Is(x, f) <=> CopyTurns(m, o, fs, x, f)
    BY DEF CopyTurns
  <1> HIDE DEF Turn
  <1>1. 0 \in H
    <2>1. Is(0, [k \in 0 .. 0 |-> m])
      OBVIOUS
    <2> QED
      BY <2>1
  <1>2. ASSUME NEW x \in H PROVE x + 1 \in H
    <2>1. PICK f : Is(x, f)
      OBVIOUS
    <2>2. x \in Nat
      OBVIOUS
    <2> DEFINE g == [k \in 0 .. x + 1 |-> IF k = x + 1 THEN Turn(f[x], x + 1) ELSE f[k]]
    <2>3. ASSUME NEW k \in 0 .. x + 1 PROVE g[k] = IF k = 0 THEN m ELSE Turn(g[k - 1], k)
      <3>1. CASE k = 0
        BY <2>1, <2>2, <3>1
      <3>2. CASE k \in 1 .. x
        <4>1. g[k] = f[k] /\ g[k - 1] = f[k - 1]
          BY <2>2, <3>2
        <4>2. f[k] = Turn(f[k - 1], k)
          BY <2>1, <2>2, <3>2
        <4> HIDE DEF g
        <4> QED
          BY <3>2, <4>1, <4>2
      <3>3. CASE k = x + 1
        <4>1. g[k] = Turn(f[x], k) /\ g[k - 1] = f[x] /\ k # 0
          BY <2>2, <3>3
        <4> HIDE DEF g
        <4> QED
          BY <4>1
      <3> QED
        BY <2>2, <3>1, <3>2, <3>3
    <2>4. Is(x + 1, g)
      <3>1. g = [k \in 0 .. x + 1 |-> g[k]]
        OBVIOUS
      <3> HIDE DEF g
      <3> QED
        BY <2>3, <3>1
    <2> HIDE DEF Is, g
    <2> QED
      BY <2>2, <2>4
  <1>3. H = Nat
    <2> HIDE DEF H
    <2>1. H \in SUBSET Nat
      BY DEF H
    <2> QED
      BY <1>1, <1>2, <2>1, NatBySuccessor
  <1>4. PICK f : Is(n, f)
    BY <1>3
  <1> HIDE DEF Is
  <1> QED
    BY <1>0, <1>4

\* copy_from is the state after the last turn.
LEMMA CopyFromTurns ==
  ASSUME NEW m, NEW o, NEW fs,
         Len(fs) \in Nat
  PROVE  \E f : CopyTurns(m, o, fs, Len(fs), f) /\ copy_from(m, o, fs) = f[Len(fs)]
  <1> DEFINE u == CHOOSE f : CopyTurns(m, o, fs, Len(fs), f)
  <1>1. \E f : CopyTurns(m, o, fs, Len(fs), f)
    BY CopyTurnsExist
  <1>2. CopyTurns(m, o, fs, Len(fs), u)
    BY <1>1
  <1>3. copy_from(m, o, fs) = u[Len(fs)]
    BY DEF copy_from, CopyTurns
  <1> QED
    BY <1>2, <1>3

\* The invariant holds and the heap has n blocks for container o.
Ready(m, o, n) == Sound(m) /\ m.obj[o].live /\ HasBlocks(m, n)

\* One turn.
LEMMA CopyTurn ==
  ASSUME NEW p, NEW o, NEW name, NEW value, NEW x, NEW y,
         Ready(p, o, y), o \in Objects, name \in Letters, x \in Nat, y \in Nat, x < y
  PROVE  Ready(insert(p, o, name, value), o, x)
  <1>q. PICK q : q = insert(p, o, name, value)
    OBVIOUS
  <1>0. Sound(p) /\ p.obj[o].live /\ HasBlocks(p, y)
    BY DEF Ready
  <1>1. y > 0
    OBVIOUS
  <1>2. block(p) \in Blocks /\ p.heap[block(p)] = Free
    BY <1>0, <1>1, BlockGiven
  <1>3. Inserted(p, o, block(p), name, value, q)
    BY <1>0, <1>2, <1>q, InsertSound
  <1>b. PICK b, s : b = block(p) /\ s = q
    OBVIOUS
  <1>4. TakesOne(p, s, b)
    BY <1>2, <1>3, <1>b DEF Inserted, TakesOne
  <1>5. HasBlocks(s, x)
    BY <1>0, <1>4, InsertTakesOne
  <1>6. Sound(s) /\ s.obj[o].live
    BY <1>0, <1>3, <1>b DEF Inserted
  <1> QED
    BY <1>5, <1>6, <1>b, <1>q DEF Ready

\* Copying fields into a container keeps the invariant, as long as the heap has a
\* block for each.
LEMMA CopyFromSound ==
  ASSUME NEW m, NEW o, NEW fs, NEW r,
         Sound(m), o \in Objects, m.obj[o].live, Len(fs) \in Nat,
         \A k \in 1 .. Len(fs) : fs[k].name \in Letters, HasBlocks(m, Len(fs)),
         r = copy_from(m, o, fs)
  PROVE  Sound(r)
  <1>1. PICK f : CopyTurns(m, o, fs, Len(fs), f) /\ r = f[Len(fs)]
    BY CopyFromTurns
  <1>2. PICK n \in Nat : n = Len(fs)
    OBVIOUS
  <1>3. f[0] = m /\ \A k \in 1 .. n : f[k] = insert(f[k - 1], o, fs[k].name, fs[k].value)
    BY <1>1, <1>2 DEF CopyTurns
  <1> DEFINE Good(k) == Ready(f[k], o, n - k)
             H == {k \in Nat : k <= n => Good(k)}
  <1>4. 0 \in H
    <2>1. HasBlocks(f[0], n - 0)
      <3>1. n - 0 = n
        OBVIOUS
      <3> QED
        BY <1>2, <1>3, <3>1
    <2> QED
      BY <1>3, <2>1 DEF Ready
  <1>5. ASSUME NEW k \in H PROVE k + 1 \in H
    <2>1. SUFFICES ASSUME k + 1 <= n PROVE Good(k + 1)
      OBVIOUS
    <2>2. k \in Nat /\ k + 1 \in 1 .. n /\ k <= n /\ n - k \in Nat /\ n - k > 0 /\ n - (k + 1) \in Nat
          /\ n - k = (n - (k + 1)) + 1 /\ (k + 1) - 1 = k
      BY <2>1
    <2>3. Good(k)
      BY <2>2
    <2>p. PICK p : p = f[k]
      OBVIOUS
    <2>q. PICK q : q = f[k + 1]
      OBVIOUS
    <2>x. PICK x \in Nat, y \in Nat : x = n - (k + 1) /\ y = n - k
      BY <2>2
    <2>4. Ready(p, o, y) /\ x < y
      BY <2>2, <2>3, <2>p, <2>x
    <2>5. q = insert(p, o, fs[k + 1].name, fs[k + 1].value) /\ fs[k + 1].name \in Letters
      BY <1>2, <1>3, <2>2, <2>p, <2>q
    <2>6. Ready(q, o, x)
      BY <2>4, <2>5, CopyTurn
    <2> QED
      BY <2>6, <2>q, <2>x
  <1>6. H = Nat
    <2> HIDE DEF H
    <2>1. H \in SUBSET Nat
      BY DEF H
    <2> QED
      BY <1>4, <1>5, <2>1, NatBySuccessor
  <1>7. Good(n)
    BY <1>6
  <1> QED
    BY <1>1, <1>2, <1>7 DEF Ready

-----------------------------------------------------------------------------
(* Iteration and moves                                                     *)

\* Iterating a container shows an element for each on its list.
LEMMA IterateShows ==
  ASSUME NEW m, NEW o, NEW fs,
         Sound(m), o \in Objects, fs = iterate(m, o)
  PROVE  /\ Len(fs) = Len(m.obj[o].list_) /\ Len(fs) \in Nat
         /\ \A k \in 1 .. Len(fs) : fs[k].name \in Letters
  <1>1. Shape(m) /\ GivenOut(m)
    BY DEF Sound
  <1>2. PICK n \in Nat : n = Len(m.obj[o].list_)
    BY <1>1, Structures
  <1>3. PICK l \in [1 .. n -> Blocks] : l = m.obj[o].list_
    BY <1>1, <1>2, Structures
  <1>4. fs = [k \in 1 .. n |-> [name |-> m.heap[l[k]].name, value |-> m.heap[l[k]].value]]
    BY <1>3 DEF iterate
  <1>5. Len(fs) = n
    BY <1>4
  <1>6. ASSUME NEW k \in 1 .. n PROVE fs[k].name \in Letters
    <2>1. PICK b \in Blocks : b = l[k]
      OBVIOUS
    <2>2. OnList(m, o, b)
      BY <1>2, <1>3, <2>1 DEF OnList
    <2>3. m.heap[b] # Free
      BY <1>1, <2>2 DEF GivenOut
    <2>4. m.heap[b].name \in Letters
      BY <1>1, <2>3 DEF Shape
    <2>5. fs[k].name = m.heap[b].name
      BY <1>4, <2>1
    <2> QED
      BY <2>4, <2>5
  <1> QED
    BY <1>2, <1>5, <1>6

\* r is m with the elements of container p moved to container o.
Moved(m, o, p, r) ==
  /\ Shape(r) /\ r.heap = m.heap
  /\ \A q \in Objects : q # o /\ q # p => r.obj[q] = m.obj[q]
  /\ r.obj[o].live = m.obj[o].live /\ r.obj[o].alloc = m.obj[o].alloc
  /\ r.obj[o].set_ = m.obj[p].set_ /\ r.obj[o].list_ = m.obj[p].list_
  /\ r.obj[p].live = m.obj[p].live /\ r.obj[p].alloc = m.obj[p].alloc
  /\ r.obj[p].set_ = <<>> /\ r.obj[p].list_ = <<>>

\* take moves the elements.
LEMMA TakeMoves ==
  ASSUME NEW m, NEW o, NEW p, NEW r,
         Shape(m), o \in Objects, p \in Objects, o # p, r = take(m, o, p)
  PROVE  Moved(m, o, p, r)
  <1>1. PICK O, H : m = [obj |-> O, heap |-> H] /\ O = m.obj /\ H = m.heap
    BY DEF Shape
  <1>2. O \in [Objects -> Container] /\ H = [b \in Blocks |-> H[b]]
    BY <1>1 DEF Shape
  <1>n. PICK none : none = <<>>
    OBVIOUS
  <1>3. none \in Seq(Blocks) /\ O[p].set_ \in Seq(Blocks) /\ O[p].list_ \in Seq(Blocks)
        /\ O[o] \in Container /\ O[p] \in Container
    BY <1>2, <1>n DEF Container
  <1> DEFINE c == Rethread(O[o], O[p].set_, O[p].list_)
             d == Rethread(O[p], none, none)
  <1>4. c \in Container /\ c.live = O[o].live /\ c.alloc = O[o].alloc
        /\ c.set_ = O[p].set_ /\ c.list_ = O[p].list_
    BY <1>3, Rethreaded
  <1>5. d \in Container /\ d.live = O[p].live /\ d.alloc = O[p].alloc /\ d.set_ = none /\ d.list_ = none
    BY <1>3, Rethreaded
  <1>6. /\ r.obj = [O EXCEPT ![o].set_ = O[p].set_, ![o].list_ = O[p].list_,
                             ![p].set_ = <<>>, ![p].list_ = <<>>]
        /\ r.heap = H /\ r = [obj |-> r.obj, heap |-> r.heap]
    BY <1>1 DEF take
  <1>7. r.obj = [O EXCEPT ![o] = [O[o] EXCEPT !.set_ = O[p].set_, !.list_ = O[p].list_],
                          ![p] = [O[p] EXCEPT !.set_ = <<>>, !.list_ = <<>>]]
    BY <1>2, <1>6
  <1>8. r.obj = [O EXCEPT ![o] = c, ![p] = d]
    BY <1>7, <1>n DEF Rethread
  <1> HIDE DEF c, d
  <1>9. /\ r.obj \in [Objects -> Container] /\ r.obj[o] = c /\ r.obj[p] = d
        /\ \A q \in Objects : q # o /\ q # p => r.obj[q] = O[q]
    BY <1>2, <1>4, <1>5, <1>8
  <1>10. Shape(r)
    BY <1>1, <1>6, <1>9 DEF Shape
  <1> QED
    BY <1>1, <1>4, <1>5, <1>6, <1>9, <1>10, <1>n DEF Moved

\* The order of the elements does not depend on who owns them.
LEMMA ThreadedMoved ==
  ASSUME NEW m, NEW r, NEW o, NEW p,
         o \in Objects, p \in Objects, r.heap = m.heap, Threaded(m, p),
         r.obj[o].set_ = m.obj[p].set_, r.obj[o].list_ = m.obj[p].list_
  PROVE  Threaded(r, o)
  <1>1. Places(r) = Places(m)
    BY DEF Places
  <1> QED
    BY <1>1 DEF Threaded

\* Moving the elements of a container to an empty one that lives and has an equal
\* allocator keeps the invariant.
LEMMA MovedSound ==
  ASSUME NEW m, NEW o, NEW p, NEW r,
         Sound(m), o \in Objects, p \in Objects, o # p, m.obj[o].live, m.obj[o].list_ = <<>>,
         m.obj[o].alloc = m.obj[p].alloc, Moved(m, o, p, r)
  PROVE  Sound(r)
  <1>1. Shape(m) /\ DeadEmpty(m) /\ GivenOut(m) /\ OneList(m) /\ OncePerList(m) /\ NoLeak(m)
        /\ \A q \in Objects : Threaded(m, q)
    BY DEF Sound
  <1>2. /\ Shape(r) /\ r.heap = m.heap
        /\ \A q \in Objects : q # o /\ q # p => r.obj[q] = m.obj[q]
        /\ r.obj[o].live /\ r.obj[o].alloc = m.obj[p].alloc
        /\ r.obj[o].set_ = m.obj[p].set_ /\ r.obj[o].list_ = m.obj[p].list_
        /\ r.obj[p].set_ = <<>> /\ r.obj[p].list_ = <<>>
    BY DEF Moved
  <1>3. \A b \in Blocks : ~OnList(r, p, b) /\ ~OnList(m, o, b) /\ (OnList(r, o, b) <=> OnList(m, p, b))
    BY <1>2, EmptyList DEF OnList
  <1>4. ASSUME NEW q \in Objects, q # o, q # p, NEW b \in Blocks
        PROVE  OnList(r, q, b) <=> OnList(m, q, b)
    BY <1>2, <1>4 DEF OnList
  <1>5. ASSUME NEW q \in Objects, NEW b \in Blocks, OnList(r, q, b)
        PROVE  q # p /\ (q = o => OnList(m, p, b)) /\ (q # o => OnList(m, q, b))
    BY <1>3, <1>4, <1>5
  <1>6. DeadEmpty(r)
    BY <1>1, <1>2 DEF DeadEmpty
  <1>7. GivenOut(r)
    <2>1. ASSUME NEW q \in Objects, NEW b \in Blocks, OnList(r, q, b)
          PROVE  r.heap[b] # Free /\ r.heap[b].alloc = r.obj[q].alloc
      <3>1. CASE q = o
        BY <1>1, <1>2, <1>5, <2>1, <3>1 DEF GivenOut
      <3>2. CASE q # o
        <4>1. OnList(m, q, b) /\ r.obj[q] = m.obj[q]
          BY <1>2, <1>5, <2>1, <3>2
        <4> QED
          BY <1>1, <1>2, <4>1 DEF GivenOut
      <3> QED
        BY <3>1, <3>2
    <2> QED
      BY <2>1 DEF GivenOut
  <1>8. OneList(r)
    <2>1. ASSUME NEW q \in Objects, NEW s \in Objects, NEW b \in Blocks, OnList(r, q, b), OnList(r, s, b)
          PROVE  q = s
      BY <1>1, <1>5, <2>1 DEF OneList
    <2> QED
      BY <2>1 DEF OneList
  <1>9. OncePerList(r)
    <2>1. ASSUME NEW q \in Objects PROVE Distinct(Len(r.obj[q].list_), r.obj[q].list_)
      <3>1. CASE q = o
        BY <1>1, <1>2, <3>1 DEF OncePerList
      <3>2. CASE q = p
        BY <1>2, <3>2, EmptyList
      <3>3. CASE q # o /\ q # p
        BY <1>1, <1>2, <3>3 DEF OncePerList
      <3> QED
        BY <3>1, <3>2, <3>3
    <2> QED
      BY <2>1 DEF OncePerList
  <1>10. NoLeak(r)
    <2>1. ASSUME NEW b \in Blocks, r.heap[b] # Free PROVE \E q \in Objects : OnList(r, q, b)
      <3>1. PICK q \in Objects : OnList(m, q, b)
        BY <1>1, <1>2, <2>1 DEF NoLeak
      <3>2. CASE q = p
        BY <1>3, <3>1, <3>2
      <3>3. CASE q # p
        BY <1>3, <1>4, <3>1, <3>3
      <3> QED
        BY <3>2, <3>3
    <2> QED
      BY <2>1 DEF NoLeak
  <1>11. ASSUME NEW q \in Objects PROVE Threaded(r, q)
    <2>1. CASE q = o
      BY <1>1, <1>2, <2>1, ThreadedMoved
    <2>2. CASE q = p
      BY <1>2, <2>2, ThreadedEmpty
    <2>3. CASE q # o /\ q # p
      <3>1. r.obj[q].set_ = m.obj[q].set_ /\ r.obj[q].list_ = m.obj[q].list_
        BY <1>2, <2>3
      <3> QED
        BY <1>1, <1>2, <3>1, ThreadedMoved
    <2> QED
      BY <2>1, <2>2, <2>3
  <1> QED
    BY <1>2, <1>6, <1>7, <1>8, <1>9, <1>10, <1>11 DEF Sound

\* take keeps the invariant.
LEMMA TakeSound ==
  ASSUME NEW m, NEW o, NEW p,
         Sound(m), o \in Objects, p \in Objects, o # p, m.obj[o].live, m.obj[o].list_ = <<>>,
         m.obj[o].alloc = m.obj[p].alloc
  PROVE  Sound(take(m, o, p))
  <1>r. PICK r : r = take(m, o, p)
    OBVIOUS
  <1>1. Moved(m, o, p, r)
    BY <1>r, TakeMoves DEF Sound
  <1>2. Sound(r)
    BY <1>1, MovedSound
  <1> QED
    BY <1>2, <1>r

-----------------------------------------------------------------------------
(* erase                                                                   *)

\* The place of an element in a sequence that has it once.
LEMMA IteratorTo ==
  ASSUME NEW n, NEW s, NEW b, NEW k,
         n \in Nat, s \in [1 .. n -> Blocks], Distinct(n, s), k \in 1 .. n, s[k] = b
  PROVE  Place(s, b) = k
  <1>1. DOMAIN s = 1 .. n
    OBVIOUS
  <1>2. \A j \in 1 .. n : s[j] = b => j = k
    BY DEF Distinct
  <1> QED
    BY <1>1, <1>2 DEF Place

\* r is m without element b of container o.
Unlinked(m, o, b, r) ==
  /\ Sound(r) /\ r.obj[o].live = m.obj[o].live
  /\ \A a \in Blocks : OnList(r, o, a) <=> OnList(m, o, a) /\ a # b
  /\ \A a \in Blocks : m.heap[a] = Free => r.heap[a] = Free

\* An element less in a container keeps the invariant.
LEMMA UnlinkCore ==
  ASSUME NEW m, NEW r, NEW o, NEW b, NEW S, NEW L, NEW n, NEW i, NEW z,
         Sound(m), o \in Objects, b \in Blocks, Changed(m, r, o, b, Free, S, L),
         n = Len(m.obj[o].list_), S \in Seq(Blocks), L \in Seq(Blocks), Len(S) = n - 1, Len(L) = n - 1,
         Removal(n, Places(m), Places(r), m.obj[o].set_, m.obj[o].list_, b, i, z, S, L)
  PROVE  Unlinked(m, o, b, r)
  <1>1. Shape(m) /\ DeadEmpty(m) /\ GivenOut(m) /\ OneList(m) /\ OncePerList(m) /\ NoLeak(m)
        /\ \A p \in Objects : Threaded(m, p)
    BY DEF Sound
  <1>2. /\ Shape(r) /\ r.heap[b] = Free
        /\ \A a \in Blocks : a # b => r.heap[a] = m.heap[a]
        /\ \A p \in Objects : p # o => r.obj[p] = m.obj[p]
        /\ r.obj[o].live = m.obj[o].live /\ r.obj[o].alloc = m.obj[o].alloc
        /\ r.obj[o].set_ = S /\ r.obj[o].list_ = L
    BY DEF Changed
  <1>3. /\ Ordered(Places(r), n - 1, S, L) /\ Distinct(n - 1, L)
        /\ Stay(n, m.obj[o].list_, z, L)
    BY RemoveOrdered
  <1>l. PICK l : l = m.obj[o].list_
    OBVIOUS
  <1>4. n \in Nat /\ l \in [1 .. n -> Blocks] /\ z \in 1 .. n /\ l[z] = b /\ Distinct(n, l) /\ Stay(n, l, z, L)
    BY <1>3, <1>l DEF Removal
  <1>5. ASSUME NEW a \in Blocks PROVE OnList(r, o, a) <=> OnList(m, o, a) /\ a # b
    <2>1. OnList(r, o, a) <=> \E x \in 1 .. n - 1 : L[x] = a
      BY <1>2 DEF OnList
    <2>2. OnList(m, o, a) <=> \E y \in 1 .. n : l[y] = a
      BY <1>l DEF OnList
    <2>3. ASSUME NEW y \in 1 .. n PROVE l[y] = b <=> y = z
      BY <1>4 DEF Distinct
    <2>4. ASSUME NEW x \in 1 .. n - 1, L[x] = a PROVE OnList(m, o, a) /\ a # b
      <3>1. PICK y \in 1 .. n : y # z /\ L[x] = l[y]
        BY <1>4 DEF Stay
      <3> QED
        BY <2>2, <2>3, <2>4, <3>1
    <2>5. ASSUME NEW y \in 1 .. n, l[y] = a, a # b PROVE OnList(r, o, a)
      <3>1. y # z
        BY <2>3, <2>5
      <3>2. PICK x \in 1 .. n - 1 : L[x] = l[y]
        BY <1>4, <3>1 DEF Stay
      <3> QED
        BY <2>1, <2>5, <3>2
    <2> QED
      BY <2>1, <2>2, <2>4, <2>5
  <1>6. ASSUME NEW p \in Objects, p # o, NEW a \in Blocks
        PROVE  (OnList(r, p, a) <=> OnList(m, p, a)) /\ (OnList(m, p, a) => a # b /\ r.heap[a] = m.heap[a])
    <2>1. OnList(r, p, a) <=> OnList(m, p, a)
      BY <1>2, <1>6 DEF OnList
    <2>2. OnList(m, o, b)
      BY <1>4, <1>l DEF OnList
    <2>3. OnList(m, p, a) => a # b
      BY <1>1, <1>6, <2>2 DEF OneList
    <2> QED
      BY <1>2, <2>1, <2>3
  <1>7. ASSUME NEW p \in Objects, NEW a \in Blocks, OnList(r, p, a)
        PROVE  OnList(m, p, a) /\ a # b /\ r.heap[a] = m.heap[a]
    BY <1>2, <1>5, <1>6, <1>7
  <1>8. DeadEmpty(r)
    <2>1. ASSUME NEW p \in Objects, ~r.obj[p].live PROVE r.obj[p].list_ = <<>>
      <3>1. CASE p = o
        <4>1. m.obj[o].list_ = <<>>
          BY <1>1, <1>2, <2>1, <3>1 DEF DeadEmpty
        <4>2. ~OnList(m, o, b)
          BY <4>1, EmptyList
        <4> QED
          BY <4>2, <1>4, <1>l DEF OnList
      <3>2. CASE p # o
        BY <1>1, <1>2, <2>1, <3>2 DEF DeadEmpty
      <3> QED
        BY <3>1, <3>2
    <2> QED
      BY <2>1 DEF DeadEmpty
  <1>9. GivenOut(r)
    <2>1. ASSUME NEW p \in Objects, NEW a \in Blocks, OnList(r, p, a)
          PROVE  r.heap[a] # Free /\ r.heap[a].alloc = r.obj[p].alloc
      <3>1. OnList(m, p, a) /\ r.heap[a] = m.heap[a]
        BY <1>7, <2>1
      <3>2. r.obj[p].alloc = m.obj[p].alloc
        BY <1>2
      <3> QED
        BY <1>1, <3>1, <3>2 DEF GivenOut
    <2> QED
      BY <2>1 DEF GivenOut
  <1>10. OneList(r)
    <2>1. ASSUME NEW p \in Objects, NEW q \in Objects, NEW a \in Blocks, OnList(r, p, a), OnList(r, q, a)
          PROVE  p = q
      BY <1>1, <1>7, <2>1 DEF OneList
    <2> QED
      BY <2>1 DEF OneList
  <1>11. OncePerList(r)
    <2>1. ASSUME NEW p \in Objects PROVE Distinct(Len(r.obj[p].list_), r.obj[p].list_)
      <3>1. CASE p = o
        BY <1>2, <1>3, <3>1
      <3>2. CASE p # o
        BY <1>1, <1>2, <3>2 DEF OncePerList
      <3> QED
        BY <3>1, <3>2
    <2> QED
      BY <2>1 DEF OncePerList
  <1>12. NoLeak(r)
    <2>1. ASSUME NEW a \in Blocks, r.heap[a] # Free PROVE \E p \in Objects : OnList(r, p, a)
      <3>1. a # b /\ m.heap[a] # Free
        BY <1>2, <2>1
      <3>2. PICK p \in Objects : OnList(m, p, a)
        BY <1>1, <3>1 DEF NoLeak
      <3> QED
        BY <1>5, <1>6, <3>1, <3>2
    <2> QED
      BY <2>1 DEF NoLeak
  <1>13. ASSUME NEW p \in Objects PROVE Threaded(r, p)
    <2>1. CASE p = o
      BY <1>2, <1>3, <2>1 DEF Threaded
    <2>2. CASE p # o
      BY <1>1, <1>2, <1>6, <2>2, ThreadedFrame
    <2> QED
      BY <2>1, <2>2
  <1>14. Sound(r)
    BY <1>2, <1>8, <1>9, <1>10, <1>11, <1>12, <1>13 DEF Sound
  <1>15. \A a \in Blocks : m.heap[a] = Free => r.heap[a] = Free
    BY <1>2
  <1> QED
    BY <1>2, <1>5, <1>14, <1>15 DEF Unlinked

\* unlink keeps the invariant.
LEMMA UnlinkSound ==
  ASSUME NEW m, NEW o, NEW b,
         Sound(m), o \in Objects, b \in Blocks, OnList(m, o, b)
  PROVE  Unlinked(m, o, b, unlink(m, o, b))
  <1>r. PICK r : r = unlink(m, o, b)
    OBVIOUS
  <1>1. Shape(m) /\ OncePerList(m) /\ Threaded(m, o)
    BY DEF Sound
  <1>n. PICK n \in Nat : n = Len(m.obj[o].set_) /\ n = Len(m.obj[o].list_)
    BY <1>1, Structures DEF Threaded
  <1>s. PICK s \in Seq(Blocks), l \in Seq(Blocks) : s = m.obj[o].set_ /\ l = m.obj[o].list_
    BY <1>1, Structures
  <1>3. n = Len(s) /\ n = Len(l)
    BY <1>n, <1>s
  <1>4. s \in [1 .. n -> Blocks] /\ l \in [1 .. n -> Blocks]
    BY <1>3, SeqIsFunction
  <1>k. PICK K \in [Blocks -> Nat] : K = Places(m)
    BY <1>1, PlacesType
  <1>5. Ordered(K, n, s, l) /\ Distinct(n, l)
    BY <1>1, <1>n, <1>s, <1>k DEF Threaded, OncePerList
  <1>6. Distinct(n, s)
    BY <1>4, <1>5, SetDistinct
  <1>z. PICK z \in 1 .. n : l[z] = b
    BY <1>n, <1>s DEF OnList
  <1>i. PICK i \in 1 .. n : s[i] = b
    <2>1. Covers(n, s, l)
      BY <1>5 DEF Ordered
    <2>2. \E i \in 1 .. n : s[i] = l[z]
      BY <2>1 DEF Covers
    <2> QED
      BY <2>2, <1>z
  <1>7. Place(s, b) = i
    BY <1>4, <1>6, <1>i, IteratorTo
  <1>8. Place(l, b) = z
    BY <1>4, <1>5, <1>z, IteratorTo
  <1> DEFINE S == RemoveAt(s, i)
             L == RemoveAt(l, z)
  <1>9. r = Updated(m, o, b, Free, S, L)
    BY <1>1, <1>r, <1>s, <1>7, <1>8, UnlinkIsUpdate
  <1>10. i \in 1 .. Len(s) /\ z \in 1 .. Len(l)
    BY <1>3
  <1>11. /\ S \in Seq(Blocks) /\ Len(S) = Len(s) - 1
         /\ \A j \in 1 .. Len(s) - 1 : S[j] = IF j < i THEN s[j] ELSE s[j + 1]
    BY <1>10, RemoveAtReads
  <1>12. /\ L \in Seq(Blocks) /\ Len(L) = Len(l) - 1
         /\ \A j \in 1 .. Len(l) - 1 : L[j] = IF j < z THEN l[j] ELSE l[j + 1]
    BY <1>10, RemoveAtReads
  <1> HIDE DEF S, L
  <1>13. Changed(m, r, o, b, Free, S, L)
    BY <1>1, <1>9, <1>11, <1>12, UpdatedEffect
  <1>t. PICK t, x : t = S /\ x = L
    OBVIOUS
  <1>14. TakenOut(n, s, l, i, z, t, x)
    <2>1. t \in [1 .. n - 1 -> Blocks] /\ x \in [1 .. n - 1 -> Blocks]
      BY <1>3, <1>11, <1>12, <1>t, SeqIsFunction
    <2>2. \A j \in 1 .. n - 1 : t[j] = IF j < i THEN s[j] ELSE s[j + 1]
      BY <1>3, <1>11, <1>t
    <2>3. \A j \in 1 .. n - 1 : x[j] = IF j < z THEN l[j] ELSE l[j + 1]
      BY <1>3, <1>12, <1>t
    <2> QED
      BY <2>1, <2>2, <2>3 DEF TakenOut
  <1>m. PICK M \in [Blocks -> Nat] : M = Places(r)
    BY <1>13, PlacesType DEF Changed
  <1>15. \A a \in Blocks : a # b => M[a] = K[a]
    BY <1>13, <1>k, <1>m DEF Changed, Places
  <1>16. Removal(n, K, M, s, l, b, i, z, t, x)
    BY <1>4, <1>5, <1>14, <1>15, <1>z, <1>i DEF Removal
  <1>17. Removal(n, Places(m), Places(r), m.obj[o].set_, m.obj[o].list_, b, i, z, S, L)
    BY <1>16, <1>k, <1>m, <1>s, <1>t
  <1>18. Len(S) = n - 1 /\ Len(L) = n - 1
    BY <1>3, <1>11, <1>12
  <1>19. Unlinked(m, o, b, r)
    <2>1. S \in Seq(Blocks) /\ L \in Seq(Blocks)
      BY <1>11, <1>12
    <2>2. n = Len(m.obj[o].list_)
      BY <1>n
    <2> QED
      BY <1>13, <1>17, <1>18, <2>1, <2>2, UnlinkCore
  <1> QED
    BY <1>19, <1>r

\* lower_bound in the multiset of a container.
LEMMA SetLowerBound ==
  ASSUME NEW m, NEW o, NEW name,
         Sound(m), o \in Objects, name \in Letters
  PROVE  \E c \in 0 .. Len(m.obj[o].set_) :
           /\ set_lower_bound(m, o, name) = c + 1
           /\ \A k \in 1 .. Len(m.obj[o].set_) : k <= c <=> Places(m)[m.obj[o].set_[k]] < tolower(name)
  <1>1. Shape(m) /\ Threaded(m, o)
    BY DEF Sound
  <1>n. PICK n \in Nat : n = Len(m.obj[o].set_) /\ n = Len(m.obj[o].list_)
    BY <1>1, Structures DEF Threaded
  <1>s. PICK s \in [1 .. n -> Blocks], l \in [1 .. n -> Blocks] : s = m.obj[o].set_ /\ l = m.obj[o].list_
    BY <1>1, <1>n, Structures
  <1>k. PICK K \in [Blocks -> Nat], v \in Nat : K = Places(m) /\ v = tolower(name)
    BY <1>1, PlacesType, LetterPlaces
  <1>2. n = Len(m.obj[o].set_) /\ s = m.obj[o].set_ /\ l = m.obj[o].list_ /\ K = Places(m) /\ v = tolower(name)
    BY <1>n, <1>s, <1>k
  <1>3. Ordered(K, n, s, l)
    BY <1>1, <1>n, <1>s, <1>k DEF Threaded
  <1>4. PICK T \in SUBSET (1 .. n) : T = {k \in 1 .. n : K[s[k]] < v}
    OBVIOUS
  <1>5. \A k \in 1 .. n : k \in T <=> K[s[k]] < v
    BY <1>4
  <1>6. Cardinality(T) \in 0 .. n /\ T = 1 .. Cardinality(T)
    BY <1>3, <1>5, LowerBound
  <1>c. PICK c \in 0 .. n : c = Cardinality(T)
    BY <1>6
  <1>7. T = 1 .. c
    BY <1>6, <1>c
  <1>8. set_lower_bound(m, o, name) = c + 1
    <2>1. ASSUME NEW k \in 1 .. n PROVE K[s[k]] < v <=> ci_less(m.heap[s[k]].name, name)
      <3>1. k \in 1 .. Len(m.obj[o].set_)
        BY <1>n
      <3>2. Places(m)[m.obj[o].set_[k]] = tolower(m.heap[m.obj[o].set_[k]].name)
        BY <3>1, SetElements
      <3>3. K[s[k]] = tolower(m.heap[s[k]].name)
        BY <3>2, <1>s, <1>k
      <3> QED
        BY <3>3, <1>k DEF ci_less
    <2>2. T = {k \in DOMAIN s : ci_less(m.heap[s[k]].name, name)}
      BY <1>4, <2>1
    <2> QED
      BY <1>c, <1>s, <2>2 DEF set_lower_bound
  <1>9. ASSUME NEW k \in 1 .. n PROVE k <= c <=> K[s[k]] < v
    <2>1. k \in T <=> k <= c
      BY <1>7
    <2> QED
      BY <1>5, <2>1
  <1> QED
    BY <1>2, <1>8, <1>9

\* The fields of a name are the elements from lower_bound, at a + 1, to
\* upper_bound, at c + 1, of the multiset s.
Matching(K, v, n, s, a, c, gone) ==
  /\ gone \in Seq(Blocks) /\ Len(gone) = c - a
  /\ \A k \in 1 .. c - a : gone[k] = s[a + k]
  /\ \A k \in 1 .. n : (k <= a <=> K[s[k]] < v) /\ (k <= c <=> K[s[k]] <= v)

\* find() and the elements up to upper_bound.
LEMMA SetMatches ==
  ASSUME NEW m, NEW o, NEW name, NEW n,
         Sound(m), o \in Objects, name \in Letters, n = Len(m.obj[o].set_)
  PROVE  \E a, c \in 0 .. n : /\ a <= c
                              /\ Matching(Places(m), tolower(name), n, m.obj[o].set_, a, c, set_matches(m, o, name))
  <1>1. Shape(m)
    BY DEF Sound
  <1>2. n \in Nat /\ m.obj[o].set_ \in Seq(Blocks) /\ m.obj[o].set_ \in [1 .. n -> Blocks]
    BY <1>1, Structures
  <1>s. PICK s \in Seq(Blocks) : s = m.obj[o].set_ /\ n = Len(s)
    BY <1>2
  <1>k. PICK K \in [Blocks -> Nat], v \in Nat : K = Places(m) /\ v = tolower(name)
    BY <1>1, PlacesType, LetterPlaces
  <1>a. PICK a \in 0 .. n : set_lower_bound(m, o, name) = a + 1 /\ \A k \in 1 .. n : k <= a <=> K[s[k]] < v
    BY <1>s, <1>k, SetLowerBound
  <1>c. PICK c \in 0 .. n : set_upper_bound(m, o, name) = c + 1 /\ \A k \in 1 .. n : k <= c <=> K[s[k]] <= v
    BY <1>s, <1>k, SetUpperBound
  <1>3. a <= c
    <2>1. CASE a = 0
      BY <1>2, <2>1
    <2>2. CASE a # 0
      <3>1. a \in 1 .. n
        BY <1>2, <2>2
      <3>2. K[s[a]] < v
        BY <1>a, <3>1
      <3>3. s[a] \in Blocks
        BY <1>s, <3>1
      <3>4. K[s[a]] \in Nat
        BY <3>3
      <3> QED
        BY <1>c, <3>1, <3>2, <3>4
    <2> QED
      BY <2>1, <2>2
  <1>4. set_matches(m, o, name) = SubSeq(s, a + 1, c)
    <2>1. (c + 1) - 1 = c
      OBVIOUS
    <2> QED
      BY <1>s, <1>a, <1>c, <2>1 DEF set_matches
  <1>5. SubSeq(s, a + 1, c) \in Seq(Blocks) /\ Len(SubSeq(s, a + 1, c)) = c - a
        /\ \A k \in 1 .. c - a : SubSeq(s, a + 1, c)[k] = s[a + k]
    BY <1>2, <1>3, <1>s
  <1>6. Matching(K, v, n, s, a, c, set_matches(m, o, name))
    BY <1>a, <1>c, <1>4, <1>5 DEF Matching
  <1> QED
    BY <1>3, <1>6, <1>s, <1>k

\* Fields that match are on the list and no two are the same element.
LEMMA MatchesOnList ==
  ASSUME NEW m, NEW o, NEW name, NEW gone,
         Sound(m), o \in Objects, name \in Letters, gone = set_matches(m, o, name)
  PROVE  /\ Len(gone) \in Nat
         /\ \A k \in 1 .. Len(gone) : gone[k] \in Blocks /\ OnList(m, o, gone[k])
         /\ Distinct(Len(gone), gone)
  <1>1. Shape(m) /\ Threaded(m, o) /\ OncePerList(m)
    BY DEF Sound
  <1>n. PICK n \in Nat : n = Len(m.obj[o].set_) /\ n = Len(m.obj[o].list_)
    BY <1>1, Structures DEF Threaded
  <1>s. PICK s \in [1 .. n -> Blocks], l \in [1 .. n -> Blocks] : s = m.obj[o].set_ /\ l = m.obj[o].list_
    BY <1>1, <1>n, Structures
  <1>2. Ordered(Places(m), n, s, l) /\ Distinct(n, l) /\ Places(m) \in [Blocks -> Nat]
    BY <1>1, <1>n, <1>s, PlacesType DEF Threaded, OncePerList
  <1>3. Distinct(n, s)
    BY <1>2, SetDistinct
  <1>4. PICK a \in 0 .. n, c \in 0 .. n :
          a <= c /\ Matching(Places(m), tolower(name), n, m.obj[o].set_, a, c, set_matches(m, o, name))
    BY <1>n, SetMatches
  <1>5. Len(gone) = c - a /\ \A k \in 1 .. c - a : gone[k] = s[a + k]
    BY <1>4, <1>s DEF Matching
  <1>6. c - a \in Nat
    BY <1>4
  <1>7. ASSUME NEW k \in 1 .. c - a PROVE a + k \in 1 .. n /\ gone[k] = s[a + k]
    BY <1>4, <1>5
  <1>8. ASSUME NEW k \in 1 .. c - a PROVE gone[k] \in Blocks /\ OnList(m, o, gone[k])
    <2>1. PICK j \in 1 .. n : j = a + k /\ gone[k] = s[j]
      BY <1>7
    <2>2. s[j] \in Blocks /\ OnList(m, o, s[j])
      BY <1>n, <1>s, SetElements
    <2> QED
      BY <2>1, <2>2
  <1>9. ASSUME NEW j \in 1 .. c - a, NEW k \in 1 .. c - a, gone[j] = gone[k] PROVE j = k
    <2>1. a + j = a + k
      BY <1>3, <1>7, <1>9 DEF Distinct
    <2> QED
      BY <2>1
  <1>10. Distinct(c - a, gone)
    BY <1>9 DEF Distinct
  <1> QED
    BY <1>5, <1>6, <1>8, <1>10

\* f is the states after each turn of the loop in erase.
EraseTurns(m, o, gone, n, f) ==
  f = [k \in 0 .. n |-> IF k = 0 THEN m ELSE unlink(f[k - 1], o, gone[k])]

\* The loop has a state after each turn.
LEMMA EraseTurnsExist ==
  ASSUME NEW m, NEW o, NEW gone, NEW n,
         n \in Nat
  PROVE  \E f : EraseTurns(m, o, gone, n, f)
  <1> DEFINE Turn(p, k) == unlink(p, o, gone[k])
             Is(x, f) == f = [k \in 0 .. x |-> IF k = 0 THEN m ELSE Turn(f[k - 1], k)]
             H == {x \in Nat : \E f : Is(x, f)}
  <1>0. \A x, f : Is(x, f) <=> EraseTurns(m, o, gone, x, f)
    BY DEF EraseTurns
  <1> HIDE DEF Turn
  <1>1. 0 \in H
    <2>1. Is(0, [k \in 0 .. 0 |-> m])
      OBVIOUS
    <2> QED
      BY <2>1
  <1>2. ASSUME NEW x \in H PROVE x + 1 \in H
    <2>1. PICK f : Is(x, f)
      OBVIOUS
    <2>2. x \in Nat
      OBVIOUS
    <2> DEFINE g == [k \in 0 .. x + 1 |-> IF k = x + 1 THEN Turn(f[x], x + 1) ELSE f[k]]
    <2>3. ASSUME NEW k \in 0 .. x + 1 PROVE g[k] = IF k = 0 THEN m ELSE Turn(g[k - 1], k)
      <3>1. CASE k = 0
        BY <2>1, <2>2, <3>1
      <3>2. CASE k \in 1 .. x
        <4>1. g[k] = f[k] /\ g[k - 1] = f[k - 1]
          BY <2>2, <3>2
        <4>2. f[k] = Turn(f[k - 1], k)
          BY <2>1, <2>2, <3>2
        <4> HIDE DEF g
        <4> QED
          BY <3>2, <4>1, <4>2
      <3>3. CASE k = x + 1
        <4>1. g[k] = Turn(f[x], k) /\ g[k - 1] = f[x] /\ k # 0
          BY <2>2, <3>3
        <4> HIDE DEF g
        <4> QED
          BY <4>1
      <3> QED
        BY <2>2, <3>1, <3>2, <3>3
    <2>4. Is(x + 1, g)
      <3>1. g = [k \in 0 .. x + 1 |-> g[k]]
        OBVIOUS
      <3> HIDE DEF g
      <3> QED
        BY <2>3, <3>1
    <2> HIDE DEF Is, g
    <2> QED
      BY <2>2, <2>4
  <1>3. H = Nat
    <2> HIDE DEF H
    <2>1. H \in SUBSET Nat
      BY DEF H
    <2> QED
      BY <1>1, <1>2, <2>1, NatBySuccessor
  <1>4. PICK f : Is(n, f)
    BY <1>3
  <1> HIDE DEF Is
  <1> QED
    BY <1>0, <1>4

\* erase is the state after the last turn.
LEMMA EraseLoop ==
  ASSUME NEW m, NEW o, NEW name, NEW gone,
         Len(gone) \in Nat, gone = set_matches(m, o, name)
  PROVE  \E f : EraseTurns(m, o, gone, Len(gone), f) /\ erase(m, o, name) = f[Len(gone)]
  <1> DEFINE u == CHOOSE f : EraseTurns(m, o, gone, Len(gone), f)
  <1>1. \E f : EraseTurns(m, o, gone, Len(gone), f)
    BY EraseTurnsExist
  <1>2. EraseTurns(m, o, gone, Len(gone), u)
    BY <1>1
  <1>3. erase(m, o, name) = u[Len(gone)]
    BY DEF erase, EraseTurns
  <1> QED
    BY <1>2, <1>3

\* p is m after k of the n elements gone have left container o.
Erasing(m, o, gone, n, k, p) ==
  /\ Sound(p) /\ p.obj[o].live = m.obj[o].live
  /\ \A j \in 1 .. n : k < j => OnList(p, o, gone[j])
  /\ \A a \in Blocks : m.heap[a] = Free => p.heap[a] = Free

\* One turn.
LEMMA EraseTurn ==
  ASSUME NEW m, NEW o, NEW gone, NEW n, NEW k, NEW i, NEW p,
         o \in Objects, n \in Nat, k \in Nat, i \in 1 .. n, k < i, \A j \in 1 .. n : k < j <=> i <= j,
         \A j \in 1 .. n : gone[j] \in Blocks, Distinct(n, gone), Erasing(m, o, gone, n, k, p)
  PROVE  Erasing(m, o, gone, n, i, unlink(p, o, gone[i]))
  <1>b. PICK b \in Blocks : b = gone[i]
    OBVIOUS
  <1>q. PICK q : q = unlink(p, o, gone[i])
    OBVIOUS
  <1>1. b = gone[i] /\ q = unlink(p, o, gone[i])
    BY <1>b, <1>q
  <1>2. Sound(p) /\ OnList(p, o, b)
    BY <1>1 DEF Erasing
  <1>3. Unlinked(p, o, b, q)
    BY <1>1, <1>2, UnlinkSound
  <1>4. ASSUME NEW j \in 1 .. n, i < j PROVE OnList(q, o, gone[j])
    <2>1. gone[j] # b
      BY <1>1, <1>4 DEF Distinct
    <2>2. k < j
      BY <1>4
    <2>3. OnList(p, o, gone[j])
      BY <2>2 DEF Erasing
    <2> QED
      BY <1>3, <2>1, <2>3 DEF Unlinked
  <1>5. Sound(q) /\ q.obj[o].live = m.obj[o].live
    BY <1>3 DEF Unlinked, Erasing
  <1>6. \A a \in Blocks : m.heap[a] = Free => q.heap[a] = Free
    BY <1>3 DEF Unlinked, Erasing
  <1> QED
    BY <1>1, <1>4, <1>5, <1>6 DEF Erasing

\* erase keeps the invariant.
LEMMA EraseSound ==
  ASSUME NEW m, NEW o, NEW name, NEW r,
         Sound(m), o \in Objects, name \in Letters, r = erase(m, o, name)
  PROVE  /\ Sound(r) /\ r.obj[o].live = m.obj[o].live
         /\ \A a \in Blocks : m.heap[a] = Free => r.heap[a] = Free
  <1>g. PICK gone : gone = set_matches(m, o, name)
    OBVIOUS
  <1>1. /\ Len(gone) \in Nat /\ Distinct(Len(gone), gone)
        /\ \A k \in 1 .. Len(gone) : gone[k] \in Blocks /\ OnList(m, o, gone[k])
    BY <1>g, MatchesOnList
  <1>2. PICK f : EraseTurns(m, o, gone, Len(gone), f) /\ r = f[Len(gone)]
    BY <1>g, <1>1, EraseLoop
  <1>n. PICK n \in Nat : n = Len(gone)
    BY <1>1
  <1>3. f[0] = m /\ \A k \in 1 .. n : f[k] = unlink(f[k - 1], o, gone[k])
    BY <1>2, <1>n DEF EraseTurns
  <1>4. Distinct(n, gone) /\ \A k \in 1 .. n : gone[k] \in Blocks /\ OnList(m, o, gone[k])
    BY <1>1, <1>n
  <1> DEFINE Good(k) == Erasing(m, o, gone, n, k, f[k])
             H == {k \in Nat : k <= n => Good(k)}
  <1>5. 0 \in H
    BY <1>3, <1>4 DEF Erasing
  <1>6. ASSUME NEW k \in H PROVE k + 1 \in H
    <2>1. SUFFICES ASSUME k + 1 <= n PROVE Good(k + 1)
      OBVIOUS
    <2>2. k \in Nat /\ k <= n /\ Good(k)
      BY <2>1
    <2>i. PICK i \in 1 .. n : i = k + 1
      BY <2>1, <2>2
    <2>3. k < i /\ i - 1 = k /\ \A j \in 1 .. n : k < j <=> i <= j
      BY <2>2, <2>i
    <2>p. PICK p : p = f[k]
      OBVIOUS
    <2>4. Erasing(m, o, gone, n, k, p)
      BY <2>2, <2>p
    <2>5. f[i] = unlink(p, o, gone[i])
      BY <1>3, <2>3, <2>p
    <2>6. \A j \in 1 .. n : gone[j] \in Blocks
      BY <1>4
    <2>7. \A j \in 1 .. n : k < j <=> i <= j
      BY <2>3
    <2>8. k < i /\ Distinct(n, gone)
      BY <1>4, <2>3
    <2>9. Erasing(m, o, gone, n, i, unlink(p, o, gone[i]))
      BY <2>2, <2>4, <2>6, <2>7, <2>8, EraseTurn
    <2> QED
      BY <2>5, <2>9, <2>i
  <1>7. H = Nat
    <2> HIDE DEF H
    <2>1. H \in SUBSET Nat
      BY DEF H
    <2> QED
      BY <1>5, <1>6, <2>1, NatBySuccessor
  <1>8. Good(n)
    BY <1>7
  <1>9. Erasing(m, o, gone, n, n, r)
    BY <1>2, <1>n, <1>8
  <1> QED
    BY <1>9 DEF Erasing

-----------------------------------------------------------------------------
(* The calls, as functions of the state                                    *)

\* An empty container that lives, with the allocator given.
Empty(alloc) == [Dead EXCEPT !.live = TRUE, !.alloc = alloc]

\* It is a container without elements.
LEMMA EmptyIsContainer ==
  ASSUME NEW alloc, NEW c,
         alloc \in Allocs, c = Empty(alloc)
  PROVE  c \in Container /\ c.live /\ c.alloc = alloc /\ c.set_ = <<>> /\ c.list_ = <<>>
  <1>1. <<>> \in Seq(Blocks)
    OBVIOUS
  <1>n. PICK none \in Seq(Blocks) : none = <<>>
    BY <1>1
  <1>2. c = [live |-> TRUE, alloc |-> alloc, set_ |-> none, list_ |-> none]
    BY <1>n DEF Empty, Dead
  <1> QED
    BY <1>2, <1>n DEF Container

\* So is a container that does not exist.
LEMMA DeadIsContainer ==
  /\ Dead \in Container /\ ~Dead.live /\ Dead.set_ = <<>> /\ Dead.list_ = <<>> /\ Dead.alloc \in Allocs
  <1>1. Dead.alloc \in Allocs
    BY ProgramHasParts DEF Dead
  <1>2. <<>> \in Seq(Blocks)
    OBVIOUS
  <1>n. PICK none \in Seq(Blocks), a \in Allocs : none = <<>> /\ a = Dead.alloc
    BY <1>1, <1>2
  <1>3. Dead = [live |-> FALSE, alloc |-> a, set_ |-> none, list_ |-> none]
    BY <1>n DEF Dead
  <1> QED
    BY <1>3, <1>n DEF Container

\* With n blocks the heap has fewer, too.
LEMMA FewerBlocks ==
  ASSUME NEW m, NEW n, NEW k,
         n \in Nat, k \in Nat, k <= n, HasBlocks(m, n)
  PROVE  HasBlocks(m, k)
  <1>1. Cardinality(FreeBlocks(m)) \in Nat
    BY FreeCount
  <1>2. Cardinality(FreeBlocks(m)) >= n
    BY DEF HasBlocks, FreeBlocks
  <1>3. Cardinality(FreeBlocks(m)) >= k
    BY <1>1, <1>2
  <1> QED
    BY <1>3 DEF HasBlocks, FreeBlocks

\* The blocks that are free depend on the heap alone.
LEMMA SameBlocks ==
  ASSUME NEW m, NEW r, NEW n,
         r.heap = m.heap, HasBlocks(m, n)
  PROVE  HasBlocks(r, n)
  BY DEF HasBlocks

\* insert keeps the invariant, if a block is free.
LEMMA InsertKeeps ==
  ASSUME NEW m, NEW o, NEW name, NEW value,
         Sound(m), o \in Objects, m.obj[o].live, name \in Letters, FreeBlocks(m) # {}
  PROVE  Sound(insert(m, o, name, value))
  <1>1. block(m) \in Blocks /\ m.heap[block(m)] = Free
    BY BlockIsFree
  <1>2. Inserted(m, o, block(m), name, value, insert(m, o, name, value))
    BY <1>1, InsertSound
  <1> QED
    BY <1>2 DEF Inserted

\* replace keeps the invariant, if a block is free.
LEMMA ReplaceKeeps ==
  ASSUME NEW m, NEW o, NEW name, NEW value,
         Sound(m), o \in Objects, m.obj[o].live, name \in Letters, FreeBlocks(m) # {}
  PROVE  Sound(replace(m, o, name, value))
  <1>1. PICK e : e = erase(m, o, name)
    OBVIOUS
  <1>2. Sound(e) /\ e.obj[o].live = m.obj[o].live /\ \A a \in Blocks : m.heap[a] = Free => e.heap[a] = Free
    BY <1>1, EraseSound
  <1>3. FreeBlocks(e) # {}
    BY <1>2 DEF FreeBlocks
  <1>4. Sound(insert(e, o, name, trim(value)))
    BY <1>2, <1>3, InsertKeeps
  <1> QED
    BY <1>1, <1>4 DEF replace

\* m with another allocator in container o.
WithAlloc(m, o, a) == [m EXCEPT !.obj[o].alloc = a]

\* An empty container may change its allocator.
LEMMA WithAllocSound ==
  ASSUME NEW m, NEW o, NEW a, NEW r,
         Sound(m), o \in Objects, a \in Allocs, m.obj[o].set_ = <<>>, m.obj[o].list_ = <<>>,
         r = WithAlloc(m, o, a)
  PROVE  /\ Sound(r) /\ r.heap = m.heap /\ \A p \in Objects : p # o => r.obj[p] = m.obj[p]
         /\ r.obj[o].live = m.obj[o].live /\ r.obj[o].alloc = a
         /\ r.obj[o].set_ = <<>> /\ r.obj[o].list_ = <<>>
  <1>1. Shape(m)
    BY DEF Sound
  <1>2. PICK O, H : m = [obj |-> O, heap |-> H] /\ O = m.obj /\ H = m.heap
    BY <1>1 DEF Shape
  <1>3. O \in [Objects -> Container]
    BY <1>1, <1>2 DEF Shape
  <1>k. PICK k \in Container : k = O[o]
    BY <1>3
  <1>c. PICK c : c = [k EXCEPT !.alloc = a]
    OBVIOUS
  <1>4. c \in Container /\ c.live = k.live /\ c.alloc = a /\ c.set_ = k.set_ /\ c.list_ = k.list_
    BY <1>c DEF Container
  <1>5. r = Put(m, o, c)
    BY <1>2, <1>3, <1>k, <1>c DEF WithAlloc, Put
  <1>6. k.set_ = <<>> /\ k.list_ = <<>> /\ k.live = m.obj[o].live
    BY <1>2, <1>k
  <1>7. c.set_ = <<>> /\ c.list_ = <<>>
    BY <1>4, <1>6
  <1>8. /\ Sound(r) /\ r.obj[o] = c /\ r.heap = m.heap
        /\ \A p \in Objects : p # o => r.obj[p] = m.obj[p]
    BY <1>4, <1>5, <1>7, PutSound
  <1> QED
    BY <1>4, <1>6, <1>7, <1>8

\* Copying the fields of container p, as they are in c, into container o of r.
LEMMA CopyKeeps ==
  ASSUME NEW c, NEW r, NEW o, NEW p, NEW n,
         Sound(c), Sound(r), o \in Objects, p \in Objects, r.obj[o].live, n \in Nat,
         Len(c.obj[p].list_) <= n, HasBlocks(r, n)
  PROVE  Sound(copy_from(r, o, iterate(c, p)))
  <1>1. PICK fs : fs = iterate(c, p)
    OBVIOUS
  <1>2. Len(fs) = Len(c.obj[p].list_) /\ Len(fs) \in Nat /\ \A k \in 1 .. Len(fs) : fs[k].name \in Letters
    BY <1>1, IterateShows
  <1>3. HasBlocks(r, Len(fs))
    <2>1. PICK k \in Nat : k = Len(fs)
      BY <1>2
    <2>2. k <= n
      BY <1>2, <2>1
    <2>3. HasBlocks(r, k)
      BY <2>2, FewerBlocks
    <2> QED
      BY <2>1, <2>3
  <1>4. Sound(copy_from(r, o, fs))
    BY <1>2, <1>3, CopyFromSound
  <1> QED
    BY <1>1, <1>4

\* A copy needs no more blocks after clear, also from the container itself.
LEMMA ClearedSource ==
  ASSUME NEW m, NEW o, NEW p, NEW c,
         Sound(m), o \in Objects, p \in Objects, c = clear(m, o)
  PROVE  /\ Sound(c) /\ Len(m.obj[p].list_) \in Nat /\ Len(c.obj[p].list_) <= Len(m.obj[p].list_)
         /\ c.obj[o].live = m.obj[o].live /\ c.obj[p].alloc \in Allocs
         /\ c.obj[o].set_ = <<>> /\ c.obj[o].list_ = <<>>
         /\ c.obj[p].live = m.obj[p].live
  <1>1. /\ Sound(c) /\ c.obj[o].live = m.obj[o].live /\ c.obj[o].set_ = <<>> /\ c.obj[o].list_ = <<>>
        /\ \A q \in Objects : q # o => c.obj[q] = m.obj[q]
    BY ClearSound
  <1>2. Len(m.obj[p].list_) \in Nat
    BY Structures DEF Sound
  <1>3. c.obj[p].alloc \in Allocs
    BY <1>1, Structures DEF Sound
  <1>4. CASE p = o
    <2>1. Len(c.obj[p].list_) = 0
      BY <1>1, <1>4
    <2> QED
      BY <1>1, <1>2, <1>3, <1>4, <2>1
  <1>5. CASE p # o
    <2>1. c.obj[p] = m.obj[p]
      BY <1>1, <1>5
    <2>2. PICK n \in Nat : n = Len(m.obj[p].list_)
      BY <1>2
    <2>3. Len(c.obj[p].list_) = n
      BY <2>1, <2>2
    <2>4. Len(c.obj[p].list_) <= Len(m.obj[p].list_)
      BY <2>2, <2>3
    <2> QED
      BY <1>1, <1>2, <1>3, <2>1, <2>4
  <1> QED
    BY <1>4, <1>5

\* Assignment by copy keeps the invariant.
LEMMA CopyAssignKeeps ==
  ASSUME NEW m, NEW o, NEW p,
         Sound(m), o \in Objects, p \in Objects, m.obj[o].live,
         HasBlocks(clear(m, o), Len(m.obj[p].list_))
  PROVE  Sound(copy_assign(m, o, p))
  <1>c. PICK c, n : c = clear(m, o) /\ n = Len(m.obj[p].list_)
    OBVIOUS
  <1>1. /\ Sound(c) /\ n \in Nat /\ Len(c.obj[p].list_) <= n
        /\ c.obj[o].live /\ c.obj[p].alloc \in Allocs
        /\ c.obj[o].set_ = <<>> /\ c.obj[o].list_ = <<>>
    BY <1>c, ClearedSource
  <1>2. HasBlocks(c, n)
    BY <1>c
  <1>3. CASE traits.copy
    <2>1. PICK r : r = WithAlloc(c, o, c.obj[p].alloc)
      OBVIOUS
    <2>2. Sound(r) /\ r.heap = c.heap /\ r.obj[o].live
      BY <1>1, <2>1, WithAllocSound
    <2>3. HasBlocks(r, n)
      BY <1>2, <2>2, SameBlocks
    <2>4. Sound(copy_from(r, o, iterate(c, p)))
      BY <1>1, <2>2, <2>3, CopyKeeps
    <2> QED
      BY <1>3, <1>c, <2>1, <2>4 DEF copy_assign, WithAlloc
  <1>4. CASE ~traits.copy
    <2>1. Sound(copy_from(c, o, iterate(c, p)))
      BY <1>1, <1>2, CopyKeeps
    <2> QED
      BY <1>4, <1>c, <2>1 DEF copy_assign
  <1> QED
    BY <1>3, <1>4

\* Assignment by move keeps the invariant.
LEMMA MoveAssignKeeps ==
  ASSUME NEW m, NEW o, NEW p,
         Sound(m), o \in Objects, p \in Objects, m.obj[o].live,
         HasBlocks(clear(m, o), Len(m.obj[p].list_))
  PROVE  Sound(move_assign(m, o, p))
  <1>c. PICK c, n : c = clear(m, o) /\ n = Len(m.obj[p].list_)
    OBVIOUS
  <1>1. /\ Sound(c) /\ n \in Nat /\ Len(c.obj[p].list_) <= n
        /\ c.obj[o].live /\ c.obj[p].alloc \in Allocs
        /\ c.obj[o].set_ = <<>> /\ c.obj[o].list_ = <<>>
    BY <1>c, ClearedSource
  <1>2. HasBlocks(c, n)
    BY <1>c
  <1>3. CASE o = p
    BY <1>3 DEF move_assign
  <1>4. CASE o # p /\ traits.move
    <2>1. PICK r : r = WithAlloc(c, o, c.obj[p].alloc)
      OBVIOUS
    <2>2. Sound(r) /\ r.obj[o].live /\ r.obj[o].alloc = c.obj[p].alloc /\ r.obj[o].list_ = <<>>
          /\ r.obj[p] = c.obj[p]
      BY <1>1, <1>4, <2>1, WithAllocSound
    <2>3. r.obj[o].alloc = r.obj[p].alloc
      BY <2>2
    <2>4. Sound(take(r, o, p))
      BY <1>4, <2>2, <2>3, TakeSound
    <2> QED
      BY <1>4, <1>c, <2>1, <2>4 DEF move_assign, WithAlloc
  <1>5. CASE o # p /\ ~traits.move /\ c.obj[o].alloc # c.obj[p].alloc
    <2>1. PICK r : r = copy_from(c, o, iterate(c, p))
      OBVIOUS
    <2>2. Sound(r)
      BY <1>1, <1>2, <2>1, CopyKeeps
    <2>3. Sound(clear(r, p))
      BY <2>2, ClearSound
    <2> QED
      BY <1>5, <1>c, <2>1, <2>3 DEF move_assign
  <1>6. CASE o # p /\ ~traits.move /\ c.obj[o].alloc = c.obj[p].alloc
    <2>1. Sound(take(c, o, p))
      BY <1>1, <1>6, TakeSound
    <2> QED
      BY <1>6, <1>c, <2>1 DEF move_assign
  <1> QED
    BY <1>3, <1>4, <1>5, <1>6

-----------------------------------------------------------------------------
(* The steps of the program                                                *)

\* The loop over a header value as it is stored.
ReaderShape ==
  /\ rd = [kind |-> rd.kind, s |-> rd.s, x |-> rd.x, got |-> rd.got]
  /\ rd.kind \in Kinds \cup {"none"}

Inv == Sound(State) /\ ReaderShape

\* The names of the program are letters.
LEMMA ProgramNames ==
  ASSUME NEW n,
         n \in Names
  PROVE  n \in Letters
  BY NamesAreLetters DEF Letters

\* The state after a call is what the call returns.
LEMMA BecomesState ==
  ASSUME NEW m,
         Sound(m), Becomes(m)
  PROVE  Sound(State')
  <1>1. m = [obj |-> m.obj, heap |-> m.heap]
    BY DEF Sound, Shape
  <1>2. State' = m
    BY <1>1 DEF Becomes, State
  <1> QED
    BY <1>2

\* Constructing an empty container keeps the invariant.
LEMMA BornKeeps ==
  ASSUME NEW o, NEW a, NEW r,
         Sound(State), o \in Objects, ~obj[o].live, a \in Allocs, r = Born(o, a)
  PROVE  /\ Sound(r) /\ r.heap = heap /\ \A p \in Objects : p # o => r.obj[p] = obj[p]
         /\ r.obj[o].live /\ r.obj[o].alloc = a /\ r.obj[o].list_ = <<>>
  <1>m. PICK m : m = State
    OBVIOUS
  <1>1. m.obj = obj /\ m.heap = heap
    BY <1>m DEF State
  <1>2. Sound(m) /\ m.obj[o].list_ = <<>>
    BY <1>m, <1>1 DEF Sound, DeadEmpty
  <1>c. PICK c : c = Empty(a)
    OBVIOUS
  <1>3. c \in Container /\ c.live /\ c.alloc = a /\ c.set_ = <<>> /\ c.list_ = <<>>
    BY <1>c, EmptyIsContainer
  <1>4. r = Put(m, o, c)
    BY <1>m, <1>c DEF Born, Put, Empty
  <1>5. /\ Sound(r) /\ r.obj[o] = c /\ r.heap = m.heap
        /\ \A p \in Objects : p # o => r.obj[p] = m.obj[p]
    BY <1>2, <1>3, <1>4, PutSound
  <1> QED
    BY <1>1, <1>3, <1>5

\* The destructor keeps the invariant.
LEMMA DestroyKeeps ==
  ASSUME NEW o,
         Sound(State), o \in Objects
  PROVE  Sound([delete_all(State, o) EXCEPT !.obj[o] = Dead])
  <1>m. PICK m : m = State
    OBVIOUS
  <1>r. PICK r : r = [delete_all(m, o) EXCEPT !.obj[o] = Dead]
    OBVIOUS
  <1>d. PICK d : d = Dead
    OBVIOUS
  <1>1. d \in Container /\ d.set_ = <<>> /\ d.list_ = <<>>
    BY <1>d, DeadIsContainer
  <1>2. r = Put(delete_all(m, o), o, d)
    BY <1>r, <1>d DEF Put
  <1>3. Sound(m)
    BY <1>m
  <1>4. Sound(r)
    BY <1>1, <1>2, <1>3, ResetTo
  <1> QED
    BY <1>4, <1>m, <1>r

\* Nothing exists at first.
LEMMA InitSound ==
  ASSUME Init
  PROVE  Inv
  <1>m. PICK m : m = State
    OBVIOUS
  <1>1. m = [obj |-> m.obj, heap |-> m.heap] /\ m.obj = [o \in Objects |-> Dead] /\ m.heap = [b \in Blocks |-> Free]
    BY <1>m DEF Init, FieldsInit, State
  <1>2. \A o \in Objects : m.obj[o].set_ = <<>> /\ m.obj[o].list_ = <<>>
    BY <1>1, DeadIsContainer
  <1>3. \A b \in Blocks : m.heap[b] = Free
    BY <1>1
  <1>4. \A o \in Objects : \A b \in Blocks : ~OnList(m, o, b)
    BY <1>2, EmptyList
  <1>5. Shape(m)
    <2>1. m.obj \in [Objects -> Container]
      BY <1>1, DeadIsContainer
    <2>2. m.heap = [b \in Blocks |-> m.heap[b]]
      BY <1>1
    <2> QED
      BY <1>1, <1>3, <2>1, <2>2 DEF Shape
  <1>6. DeadEmpty(m)
    BY <1>2 DEF DeadEmpty
  <1>7. GivenOut(m) /\ OneList(m)
    BY <1>4 DEF GivenOut, OneList
  <1>8. OncePerList(m)
    BY <1>2, EmptyList DEF OncePerList
  <1>9. NoLeak(m)
    BY <1>3 DEF NoLeak
  <1>10. \A o \in Objects : Threaded(m, o)
    BY <1>2, ThreadedEmpty
  <1>11. Sound(m)
    BY <1>5, <1>6, <1>7, <1>8, <1>9, <1>10 DEF Sound
  <1>12. ReaderShape
    BY DEF Init, NoReader, ReaderShape
  <1> QED
    BY <1>m, <1>11, <1>12 DEF Inv

\* Every call of the program keeps the invariant of the containers.
LEMMA FieldsNextKeeps ==
  ASSUME Sound(State), FieldsNext
  PROVE  Sound(State')
  <1>1. PICK o \in Objects :
          \/ Construct(o) \/ Destroy(o) \/ Clear(o)
          \/ \E n \in Names : Erase(o, n) \/ \E v \in Values(n) : Insert(o, n, v) \/ Replace(o, n, v)
          \/ \E p \in Objects : \/ CopyConstruct(o, p) \/ RangeConstruct(o, p) \/ MoveConstruct(o, p)
                                \/ CopyAssign(o, p) \/ MoveAssign(o, p)
    BY DEF FieldsNext
  <1>m. PICK m : m = State
    OBVIOUS
  <1>2. Sound(m) /\ m.obj = obj /\ m.heap = heap
    BY <1>m DEF State
  <1>3. ASSUME NEW p \in Objects, NEW r, r.heap = heap, NEW k, HasBlocks(State, k) PROVE HasBlocks(r, k)
    BY <1>2, <1>3, <1>m DEF HasBlocks
  <1>4. CASE Construct(o)
    <2>1. PICK a \in Allocs : ~obj[o].live /\ Becomes(Born(o, a))
      BY <1>4 DEF Construct
    <2>2. Sound(Born(o, a))
      BY <2>1, BornKeeps
    <2> QED
      BY <2>1, <2>2, BecomesState
  <1>5. CASE Destroy(o)
    <2>1. Sound([delete_all(State, o) EXCEPT !.obj[o] = Dead])
      BY DestroyKeeps
    <2>r. PICK r : r = [delete_all(State, o) EXCEPT !.obj[o] = Dead]
      OBVIOUS
    <2>2. Sound(r) /\ Becomes(r)
      BY <1>5, <2>1, <2>r DEF Destroy
    <2> QED
      BY <2>2, BecomesState
  <1>6. CASE Clear(o)
    <2>1. Sound(clear(m, o))
      BY <1>2, ClearSound
    <2> QED
      BY <1>6, <1>m, <2>1, BecomesState DEF Clear
  <1>7. ASSUME NEW n \in Names, Erase(o, n) PROVE Sound(State')
    <2>1. Sound(erase(m, o, n))
      BY <1>2, ProgramNames, EraseSound
    <2> QED
      BY <1>7, <1>m, <2>1, BecomesState DEF Erase
  <1>8. ASSUME HasRoom(o) PROVE FreeBlocks(m) # {}
    <2>1. PICK one \in Nat : one = 1
      OBVIOUS
    <2>2. HasBlocks(m, one) /\ one > 0
      BY <1>8, <1>m, <2>1 DEF HasRoom
    <2>3. block(m) \in Blocks /\ m.heap[block(m)] = Free
      BY <2>2, BlockGiven
    <2> QED
      BY <2>3 DEF FreeBlocks
  <1>9. ASSUME NEW n \in Names, NEW v \in Values(n), Insert(o, n, v) PROVE Sound(State')
    <2>1. m.obj[o].live /\ HasRoom(o) /\ Becomes(insert(m, o, n, v))
      BY <1>2, <1>9, <1>m DEF Insert
    <2>2. Sound(insert(m, o, n, v))
      BY <1>2, <1>8, <2>1, ProgramNames, InsertKeeps
    <2> QED
      BY <2>1, <2>2, BecomesState
  <1>10. ASSUME NEW n \in Names, NEW v \in Values(n), Replace(o, n, v) PROVE Sound(State')
    <2>1. m.obj[o].live /\ HasRoom(o) /\ Becomes(replace(m, o, n, v))
      BY <1>2, <1>10, <1>m DEF Replace
    <2>2. Sound(replace(m, o, n, v))
      BY <1>2, <1>8, <2>1, ProgramNames, ReplaceKeeps
    <2> QED
      BY <2>1, <2>2, BecomesState
  <1>11. ASSUME NEW p \in Objects, NEW a \in Allocs, ~obj[o].live, HasBlocks(State, Len(obj[p].list_)),
                Becomes(copy_from(Born(o, a), o, iterate(State, p)))
         PROVE  Sound(State')
    <2>r. PICK r : r = Born(o, a)
      OBVIOUS
    <2>1. Sound(r) /\ r.heap = heap /\ r.obj[o].live
      BY <1>11, <2>r, BornKeeps
    <2>n. PICK n \in Nat : n = Len(m.obj[p].list_)
      BY <1>2, Structures DEF Sound
    <2>2. HasBlocks(m, n)
      BY <1>2, <1>11, <1>m, <2>n
    <2>3. HasBlocks(r, n)
      BY <1>2, <2>1, <2>2, SameBlocks
    <2>4. Len(m.obj[p].list_) <= n
      BY <2>n
    <2>5. Sound(copy_from(r, o, iterate(m, p)))
      BY <1>2, <2>1, <2>3, <2>4, CopyKeeps
    <2> QED
      BY <1>11, <1>m, <2>r, <2>5, BecomesState
  <1>12. ASSUME NEW p \in Objects, CopyConstruct(o, p) PROVE Sound(State')
    <2>1. obj[p].alloc \in Allocs
      BY <1>2, Structures DEF Sound
    <2> QED
      BY <1>11, <1>12, <2>1 DEF CopyConstruct
  <1>13. ASSUME NEW p \in Objects, RangeConstruct(o, p) PROVE Sound(State')
    BY <1>11, <1>13, DeadIsContainer DEF RangeConstruct
  <1>14. ASSUME NEW p \in Objects, MoveConstruct(o, p) PROVE Sound(State')
    <2>1. obj[p].alloc \in Allocs
      BY <1>2, Structures DEF Sound
    <2>2. ~obj[o].live /\ obj[p].live /\ o # p
      BY <1>14 DEF MoveConstruct
    <2>r. PICK r : r = Born(o, obj[p].alloc)
      OBVIOUS
    <2>3. /\ Sound(r) /\ r.obj[o].live /\ r.obj[o].alloc = obj[p].alloc /\ r.obj[o].list_ = <<>>
          /\ r.obj[p] = obj[p]
      BY <2>1, <2>2, <2>r, BornKeeps
    <2>4. r.obj[o].alloc = r.obj[p].alloc
      BY <2>3
    <2>5. Sound(take(r, o, p))
      BY <2>2, <2>3, <2>4, TakeSound
    <2> QED
      BY <1>14, <2>5, <2>r, BecomesState DEF MoveConstruct
  <1>15. ASSUME NEW p \in Objects, CopyAssign(o, p) PROVE Sound(State')
    <2>1. m.obj[o].live /\ HasBlocks(clear(m, o), Len(m.obj[p].list_)) /\ Becomes(copy_assign(m, o, p))
      BY <1>2, <1>15, <1>m DEF CopyAssign
    <2>2. Sound(copy_assign(m, o, p))
      BY <1>2, <2>1, CopyAssignKeeps
    <2> QED
      BY <2>1, <2>2, BecomesState
  <1>16. ASSUME NEW p \in Objects, MoveAssign(o, p) PROVE Sound(State')
    <2>1. m.obj[o].live /\ HasBlocks(clear(m, o), Len(m.obj[p].list_)) /\ Becomes(move_assign(m, o, p))
      BY <1>2, <1>16, <1>m DEF MoveAssign
    <2>2. Sound(move_assign(m, o, p))
      BY <1>2, <2>1, MoveAssignKeeps
    <2> QED
      BY <2>1, <2>2, BecomesState
  <1> QED
    BY <1>1, <1>4, <1>5, <1>6, <1>7, <1>9, <1>10, <1>12, <1>13, <1>14, <1>15, <1>16

\* A value goes through a container of its own before it is read.
LEMMA ReadKeeps ==
  ASSUME Inv, Read
  PROVE  Inv'
  <1>k. PICK kind \in Kinds : \E text : Begin(kind, text)
    BY DEF Read
  <1>1. PICK text : Begin(kind, text)
    BY <1>k
  <1>2. Sound(State) /\ \A o \in Objects : ~obj[o].live
    BY DEF Inv, Read
  <1>3. local \in Objects /\ header \in Letters /\ Dead.alloc \in Allocs
    BY ProgramHasParts, ProgramNames, DeadIsContainer DEF local, header
  <1>r. PICK r : r = Born(local, Dead.alloc)
    OBVIOUS
  <1>4. Sound(r) /\ r.heap = heap /\ r.obj[local].live /\ r.obj[local].list_ = <<>>
        /\ \A p \in Objects : p # local => r.obj[p] = obj[p]
    BY <1>2, <1>3, <1>r, BornKeeps
  <1>5. ASSUME NEW o \in Objects PROVE r.obj[o].list_ = <<>>
    <2>1. CASE o = local
      BY <1>4, <2>1
    <2>2. CASE o # local
      <3>1. ~r.obj[o].live
        BY <1>2, <1>4, <2>2
      <3> QED
        BY <1>4, <3>1 DEF Sound, DeadEmpty
    <2> QED
      BY <2>1, <2>2
  <1>6. FreeBlocks(r) # {}
    <2>1. \A o \in Objects : \A b \in Blocks : ~OnList(r, o, b)
      BY <1>5, EmptyList
    <2>2. \A b \in Blocks : r.heap[b] = Free
      BY <1>4, <2>1 DEF Sound, NoLeak
    <2> QED
      BY <2>2, BlocksAreNumbers DEF FreeBlocks
  <1>7. Sound(insert(r, local, header, text))
    BY <1>3, <1>4, <1>6, InsertKeeps
  <1>8. Becomes(insert(r, local, header, text))
    BY <1>1, <1>r DEF Begin
  <1>9. Sound(State')
    BY <1>7, <1>8, BecomesState
  <1>10. ReaderShape'
    <2>1. PICK s, x : rd' = [kind |-> kind, s |-> s, x |-> x, got |-> <<>>]
      BY <1>1 DEF Begin
    <2> QED
      BY <2>1 DEF ReaderShape
  <1> QED
    BY <1>9, <1>10 DEF Inv

\* No step of the program breaks the invariant.
LEMMA NextKeeps ==
  ASSUME Inv, [Next]_vars
  PROVE  Inv'
  <1>1. CASE Fields
    <2>1. Sound(State')
      BY <1>1, FieldsNextKeeps DEF Inv, Fields
    <2>2. ReaderShape'
      BY <1>1 DEF Inv, Fields, ReaderShape
    <2> QED
      BY <2>1, <2>2 DEF Inv
  <1>2. CASE Read
    BY <1>2, ReadKeeps
  <1>3. CASE Advance
    <2>1. State' = State
      BY <1>3 DEF Advance, fieldVars, State
    <2>2. PICK got, x : rd' = [rd EXCEPT !.got = got, !.x = x]
      BY <1>3 DEF Advance
    <2>3. rd = [kind |-> rd.kind, s |-> rd.s, x |-> rd.x, got |-> rd.got] /\ rd.kind \in Kinds \cup {"none"}
      BY DEF Inv, ReaderShape
    <2>4. rd' = [kind |-> rd.kind, s |-> rd.s, x |-> x, got |-> got]
      BY <2>2, <2>3
    <2>5. ReaderShape'
      BY <2>3, <2>4 DEF ReaderShape
    <2> QED
      BY <2>1, <2>5 DEF Inv
  <1>4. CASE End
    <2>1. local \in Objects
      BY ProgramHasParts DEF local
    <2>r. PICK r : r = [delete_all(State, local) EXCEPT !.obj[local] = Dead]
      OBVIOUS
    <2>2. Sound(r) /\ Becomes(r)
      BY <1>4, <2>1, <2>r, DestroyKeeps DEF Inv, End
    <2>3. Sound(State')
      BY <2>2, BecomesState
    <2>4. ReaderShape'
      BY <1>4 DEF End, NoReader, ReaderShape
    <2> QED
      BY <2>3, <2>4 DEF Inv
  <1>5. CASE UNCHANGED vars
    <2>1. State' = State /\ rd' = rd
      BY <1>5 DEF vars, State
    <2> QED
      BY <2>1 DEF Inv, ReaderShape
  <1> QED
    BY <1>1, <1>2, <1>3, <1>4, <1>5 DEF Next

-----------------------------------------------------------------------------
(* The lookups                                                             *)

\* What a lookup of the name at place v goes by: the multiset s from a + 1 to c is
\* gone, the list l has the name at hits.
Lookup(n, K, v, s, l, a, c, gone, hits) ==
  /\ n \in Nat /\ K \in [Blocks -> Nat] /\ v \in Nat
  /\ s \in [1 .. n -> Blocks] /\ l \in [1 .. n -> Blocks]
  /\ a \in 0 .. n /\ c \in 0 .. n /\ a <= c
  /\ Ordered(K, n, s, l) /\ Distinct(n, l) /\ Matching(K, v, n, s, a, c, gone)
  /\ hits \in SUBSET (1 .. n) /\ \A x \in 1 .. n : x \in hits <=> K[l[x]] = v

\* A lookup in the multiset finds each hit of the list once, the first in front.
LEMMA LookupFinds ==
  ASSUME NEW n, NEW K, NEW v, NEW s, NEW l, NEW a, NEW c, NEW gone, NEW hits,
         Lookup(n, K, v, s, l, a, c, gone, hits)
  PROVE  /\ Len(gone) = Cardinality(hits) /\ IsFiniteSet(hits)
         /\ \A k \in hits : (\A j \in hits : k <= j) => Len(gone) # 0 /\ gone[1] = l[k]
  <1> SUFFICES ASSUME n \in Nat, K \in [Blocks -> Nat], v \in Nat, s \in [1 .. n -> Blocks],
                      l \in [1 .. n -> Blocks], a \in 0 .. n, c \in 0 .. n, a <= c,
                      Ordered(K, n, s, l), Distinct(n, l), Matching(K, v, n, s, a, c, gone),
                      hits \in SUBSET (1 .. n), \A x \in 1 .. n : x \in hits <=> K[l[x]] = v
               PROVE  /\ Len(gone) = Cardinality(hits) /\ IsFiniteSet(hits)
                      /\ \A k \in hits : (\A j \in hits : k <= j) => Len(gone) # 0 /\ gone[1] = l[k]
    BY DEF Lookup
  <1>1. PICK d \in Nat : d = c - a
    OBVIOUS
  <1>2. Len(gone) = d /\ \A k \in 1 .. d : gone[k] = s[a + k]
    BY <1>1 DEF Matching
  <1>3. \A k \in 1 .. n : (k <= a <=> K[s[k]] < v) /\ (k <= c <=> K[s[k]] <= v)
    BY DEF Matching
  <1>4. Distinct(n, s)
    BY SetDistinct
  <1>5. ASSUME NEW k \in 1 .. d PROVE a + k \in 1 .. n /\ a + k > a /\ a + k <= c
    BY <1>1
  <1>6. ASSUME NEW k \in 1 .. d PROVE \E x \in hits : l[x] = gone[k]
    <2>1. PICK j \in 1 .. n : j = a + k /\ j > a /\ j <= c
      BY <1>5
    <2>2. K[s[j]] \in Nat
      OBVIOUS
    <2>3. K[s[j]] = v
      BY <1>3, <2>1, <2>2
    <2>4. PICK x \in 1 .. n : l[x] = s[j]
      BY DEF Ordered, Covers
    <2>5. x \in hits
      BY <2>3, <2>4
    <2> QED
      BY <1>2, <2>1, <2>4, <2>5
  <1>7. ASSUME NEW x \in hits PROVE \E k \in 1 .. d : gone[k] = l[x]
    <2>1. x \in 1 .. n /\ K[l[x]] = v
      OBVIOUS
    <2>2. PICK j \in 1 .. n : s[j] = l[x]
      BY <2>1 DEF Ordered, Covers
    <2>3. j > a /\ j <= c
      BY <1>3, <2>1, <2>2
    <2>4. j - a \in 1 .. d /\ a + (j - a) = j
      BY <1>1, <2>3
    <2> QED
      BY <1>2, <2>2, <2>4
  <1>8. ASSUME NEW j \in 1 .. d, NEW k \in 1 .. d, gone[j] = gone[k] PROVE j = k
    <2>1. s[a + j] = s[a + k] /\ a + j \in 1 .. n /\ a + k \in 1 .. n
      BY <1>2, <1>5, <1>8
    <2>2. a + j = a + k
      BY <1>4, <2>1 DEF Distinct
    <2> QED
      BY <2>2
  <1>9. \A x, y \in hits : l[x] = l[y] => x = y
    BY DEF Distinct
  <1>10. IsFiniteSet(hits)
    <2>1. 1 \in Int /\ n \in Int
      OBVIOUS
    <2>2. IsFiniteSet(1 .. n)
      BY <2>1, FS_Interval
    <2> QED
      BY <2>2, FS_Subset
  <1>11. Cardinality(hits) = d
    <2> DEFINE f == [x \in hits |-> CHOOSE k \in 1 .. d : gone[k] = l[x]]
    <2>1. ASSUME NEW x \in hits PROVE f[x] \in 1 .. d /\ gone[f[x]] = l[x]
      BY <1>7
    <2>2. f \in [hits -> 1 .. d]
      BY <2>1
    <2> HIDE DEF f
    <2>3. ASSUME NEW x \in hits, NEW y \in hits, f[x] = f[y] PROVE x = y
      <3>1. l[x] = l[y]
        BY <2>1, <2>3
      <3> QED
        BY <1>9, <3>1
    <2>4. ASSUME NEW k \in 1 .. d PROVE \E x \in hits : f[x] = k
      <3>1. PICK x \in hits : l[x] = gone[k]
        BY <1>6
      <3>2. f[x] = k
        BY <1>8, <2>1, <3>1
      <3> QED
        BY <3>2
    <2>5. f \in Bijection(hits, 1 .. d)
      BY <2>2, <2>3, <2>4 DEF Bijection, Injection, Surjection, IsInjective
    <2>6. ExistsBijection(hits, 1 .. d)
      BY <2>5 DEF ExistsBijection
    <2>7. Cardinality(1 .. d) = Cardinality(hits)
      BY <1>10, <2>6, FS_Bijection
    <2>8. Cardinality(1 .. d) = d
      BY FS_Interval
    <2> QED
      BY <2>7, <2>8
  <1>12. ASSUME NEW k \in hits, \A j \in hits : k <= j PROVE d # 0 /\ gone[1] = l[k]
    <2>1. PICK j \in 1 .. d : gone[j] = l[k]
      BY <1>7
    <2>2. 1 \in 1 .. d /\ d # 0
      BY <1>1
    <2>3. CASE j = 1
      BY <2>1, <2>2, <2>3
    <2>4. CASE j > 1
      <3>1. PICK p \in 1 .. n, q \in 1 .. n : p = a + 1 /\ q = a + j
        BY <1>5, <2>2
      <3>2. p < q /\ gone[1] = s[p] /\ gone[j] = s[q]
        BY <1>2, <2>2, <2>4, <3>1
      <3>3. PICK x \in hits : l[x] = gone[1]
        BY <1>6, <2>2
      <3>4. K[s[p]] = v /\ K[s[q]] = v
        BY <2>1, <3>2, <3>3
      <3>5. Before(n, l, s[p], s[q])
        BY <3>2, <3>4 DEF Ordered, InOrder
      <3>6. PICK y \in 1 .. n, z \in 1 .. n : y < z /\ l[y] = s[p] /\ l[z] = s[q]
        BY <3>5 DEF Before
      <3>7. z = k
        <4>1. l[z] = l[k] /\ k \in 1 .. n
          BY <2>1, <3>2, <3>6
        <4> QED
          BY <4>1 DEF Distinct
      <3>8. y \in hits
        BY <3>4, <3>6
      <3> QED
        BY <1>12, <3>6, <3>7, <3>8
    <2> QED
      BY <2>3, <2>4
  <1> QED
    BY <1>2, <1>10, <1>11, <1>12

-----------------------------------------------------------------------------
(* What the invariant gives                                                *)

\* The containers and the heap have their types.
LEMMA SoundTypes ==
  ASSUME Sound(State)
  PROVE  FieldsTypeOK
  <1>m. PICK m : m = State
    OBVIOUS
  <1>1. Shape(m) /\ m.obj = obj /\ m.heap = heap
    BY <1>m DEF Sound, State
  <1>2. obj \in [Objects -> Container]
    BY <1>1 DEF Shape
  <1>3. \A b \in Blocks : heap[b] # Free => heap[b].alloc \in Allocs
    BY <1>1 DEF Shape
  <1> QED
    BY <1>2, <1>3 DEF FieldsTypeOK, Container

\* The elements of a list by their places on it.
LEMMA OnListDomain ==
  ASSUME NEW m, NEW o, NEW b,
         Shape(m), o \in Objects
  PROVE  /\ DOMAIN m.obj[o].list_ = 1 .. Len(m.obj[o].list_)
         /\ OnList(m, o, b) <=> \E k \in DOMAIN m.obj[o].list_ : m.obj[o].list_[k] = b
  <1>1. DOMAIN m.obj[o].list_ = 1 .. Len(m.obj[o].list_)
    BY Structures
  <1> QED
    BY <1>1 DEF OnList

\* Every element that was allocated has one owner.
LEMMA SoundOwners ==
  ASSUME Sound(State)
  PROVE  OneOwner
  <1>m. PICK m : m = State
    OBVIOUS
  <1>1. /\ Shape(m) /\ GivenOut(m) /\ OneList(m) /\ OncePerList(m) /\ NoLeak(m)
        /\ m.obj = obj /\ m.heap = heap
    BY <1>m DEF Sound, State
  <1>2. ASSUME NEW b \in Allocated
        PROVE  \E o \in Objects :
                 /\ obj[o].alloc = heap[b].alloc
                 /\ \E k \in DOMAIN obj[o].list_ :
                       /\ obj[o].list_[k] = b
                       /\ \A p \in Objects : \A l \in DOMAIN obj[p].list_ :
                             obj[p].list_[l] = b => p = o /\ l = k
    <2>1. b \in Blocks /\ m.heap[b] # Free
      BY <1>1 DEF Allocated
    <2>2. PICK o \in Objects : OnList(m, o, b)
      BY <1>1, <2>1 DEF NoLeak
    <2>3. obj[o].alloc = heap[b].alloc
      BY <1>1, <2>1, <2>2 DEF GivenOut
    <2>4. PICK k \in DOMAIN obj[o].list_ : obj[o].list_[k] = b
      BY <1>1, <2>2, OnListDomain
    <2>5. ASSUME NEW p \in Objects, NEW l \in DOMAIN obj[p].list_, obj[p].list_[l] = b
          PROVE  p = o /\ l = k
      <3>1. OnList(m, p, b)
        BY <1>1, <2>5, OnListDomain
      <3>2. p = o
        BY <1>1, <2>1, <2>2, <3>1 DEF OneList
      <3>3. Distinct(Len(obj[o].list_), obj[o].list_) /\ DOMAIN obj[o].list_ = 1 .. Len(obj[o].list_)
        BY <1>1, OnListDomain DEF OncePerList
      <3>4. l = k
        BY <2>4, <2>5, <3>2, <3>3 DEF Distinct
      <3> QED
        BY <3>2, <3>4
    <2> QED
      BY <2>3, <2>4, <2>5
  <1>3. ASSUME NEW o \in Objects PROVE ToSet(obj[o].list_) \subseteq Allocated
    <2>1. ASSUME NEW k \in DOMAIN obj[o].list_ PROVE obj[o].list_[k] \in Allocated
      <3>1. PICK b : b = obj[o].list_[k]
        OBVIOUS
      <3>2. b \in Blocks
        <4>1. m.obj[o].list_ \in [1 .. Len(m.obj[o].list_) -> Blocks]
          BY <1>1, Structures
        <4>2. k \in 1 .. Len(m.obj[o].list_)
          BY <1>1, OnListDomain
        <4> QED
          BY <1>1, <3>1, <4>1, <4>2
      <3>3. OnList(m, o, b)
        BY <1>1, <3>1, OnListDomain
      <3>4. heap[b] # Free
        BY <1>1, <3>2, <3>3 DEF GivenOut
      <3> QED
        BY <3>1, <3>2, <3>4 DEF Allocated
    <2> QED
      BY <2>1 DEF ToSet
  <1> QED
    BY <1>2, <1>3 DEF OneOwner

\* The two structures of a container agree.
LEMMA SoundStructures ==
  ASSUME Sound(State)
  PROVE  SetMatchesList
  <1>m. PICK m : m = State
    OBVIOUS
  <1>1. /\ Sound(m) /\ Shape(m) /\ OncePerList(m) /\ m.obj = obj /\ m.heap = heap
        /\ \A o \in Objects : Threaded(m, o)
    BY <1>m DEF Sound, State
  <1>2. ASSUME NEW o \in Objects, NEW s, NEW l, s = obj[o].set_, l = obj[o].list_
        PROVE  /\ Len(s) = Len(l) /\ ToSet(s) = ToSet(l)
               /\ \A j, k \in DOMAIN s : j < k =>
                     \/ ci_less(heap[s[j]].name, heap[s[k]].name)
                     \/ /\ tolower(heap[s[j]].name) = tolower(heap[s[k]].name)
                        /\ \E x, y \in DOMAIN l : x < y /\ l[x] = s[j] /\ l[y] = s[k]
    <2>n. PICK n \in Nat : n = Len(m.obj[o].set_) /\ n = Len(m.obj[o].list_)
      BY <1>1, Structures DEF Threaded
    <2>1. /\ s \in [1 .. n -> Blocks] /\ l \in [1 .. n -> Blocks]
          /\ Ordered(Places(m), n, s, l)
      BY <1>1, <1>2, <2>n, Structures DEF Threaded
    <2>2. DOMAIN s = 1 .. n /\ DOMAIN l = 1 .. n
      BY <2>1
    <2>3. Len(s) = Len(l)
      BY <1>1, <1>2, <2>n
    <2>4. ToSet(s) = ToSet(l)
      <3>1. \A j \in 1 .. n : \E x \in 1 .. n : l[x] = s[j]
        BY <2>1 DEF Ordered, Covers
      <3>2. \A x \in 1 .. n : \E j \in 1 .. n : s[j] = l[x]
        BY <2>1 DEF Ordered, Covers
      <3>3. ToSet(s) \subseteq ToSet(l)
        BY <2>2, <3>1 DEF ToSet
      <3>4. ToSet(l) \subseteq ToSet(s)
        BY <2>2, <3>2 DEF ToSet
      <3> QED
        BY <3>3, <3>4
    <2>5. ASSUME NEW j \in 1 .. n PROVE Places(m)[s[j]] = tolower(heap[s[j]].name)
      <3>1. j \in 1 .. Len(m.obj[o].set_)
        BY <2>n
      <3>2. Places(m)[m.obj[o].set_[j]] = tolower(m.heap[m.obj[o].set_[j]].name)
        BY <1>1, <3>1, SetElements
      <3> QED
        BY <1>1, <1>2, <3>2
    <2>6. ASSUME NEW j \in 1 .. n, NEW k \in 1 .. n, j < k
          PROVE  \/ ci_less(heap[s[j]].name, heap[s[k]].name)
                 \/ /\ tolower(heap[s[j]].name) = tolower(heap[s[k]].name)
                    /\ \E x, y \in DOMAIN l : x < y /\ l[x] = s[j] /\ l[y] = s[k]
      <3>1. Places(m)[s[j]] < Places(m)[s[k]]
            \/ (Places(m)[s[j]] = Places(m)[s[k]] /\ Before(n, l, s[j], s[k]))
        BY <2>1, <2>6 DEF Ordered, InOrder
      <3>2. Before(n, l, s[j], s[k]) => \E x, y \in DOMAIN l : x < y /\ l[x] = s[j] /\ l[y] = s[k]
        BY <2>2 DEF Before
      <3> QED
        BY <2>5, <3>1, <3>2 DEF ci_less
    <2> QED
      BY <2>2, <2>3, <2>4, <2>6
  <1> QED
    BY <1>2 DEF SetMatchesList

\* The lookups agree with iteration.
LEMMA SoundLookups ==
  ASSUME Sound(State)
  PROVE  LookupsAgree
  <1>m. PICK m : m = State
    OBVIOUS
  <1>1. /\ Sound(m) /\ Shape(m) /\ OncePerList(m) /\ m.obj = obj /\ m.heap = heap
        /\ \A o \in Objects : Threaded(m, o)
    BY <1>m DEF Sound, State
  <1>2. ASSUME NEW o \in Objects, NEW name \in Names, NEW fields, NEW hits, fields = iterate(m, o),
               hits = {k \in DOMAIN fields : tolower(fields[k].name) = tolower(name)}
        PROVE  /\ count(m, o, name) = Cardinality(hits)
               /\ hits = {} => value_of(m, o, name) = <<>>
               /\ \A k \in hits : (\A j \in hits : k <= j) => value_of(m, o, name) = fields[k].value
    <2>n. PICK n \in Nat : n = Len(m.obj[o].set_) /\ n = Len(m.obj[o].list_)
      BY <1>1, Structures DEF Threaded
    <2>s. PICK s \in [1 .. n -> Blocks], l \in [1 .. n -> Blocks] : s = m.obj[o].set_ /\ l = m.obj[o].list_
      BY <1>1, <2>n, Structures
    <2>0. name \in Letters
      BY ProgramNames
    <2>k. PICK K \in [Blocks -> Nat], v \in Nat : K = Places(m) /\ v = tolower(name)
      BY <1>1, <2>0, PlacesType, LetterPlaces
    <2>1. Ordered(K, n, s, l) /\ Distinct(n, l)
      BY <1>1, <2>n, <2>s, <2>k DEF Threaded, OncePerList
    <2>g. PICK gone : gone = set_matches(m, o, name)
      OBVIOUS
    <2>2. PICK a \in 0 .. n, c \in 0 .. n : a <= c /\ Matching(K, v, n, s, a, c, gone)
      <3>1. \E a, c \in 0 .. n : /\ a <= c
              /\ Matching(Places(m), tolower(name), n, m.obj[o].set_, a, c, set_matches(m, o, name))
        BY <1>1, <2>0, <2>n, SetMatches
      <3> QED
        BY <3>1, <2>s, <2>k, <2>g
    <2>3. DOMAIN fields = 1 .. n /\ \A x \in 1 .. n : fields[x].name = m.heap[l[x]].name /\ fields[x].value = m.heap[l[x]].value
      BY <1>2, <2>s DEF iterate
    <2>4. ASSUME NEW x \in 1 .. n PROVE K[l[x]] = tolower(m.heap[l[x]].name)
      <3>1. l[x] \in Blocks
        OBVIOUS
      <3>2. OnList(m, o, l[x])
        BY <2>n, <2>s DEF OnList
      <3>3. m.heap[l[x]] # Free
        BY <1>1, <3>1, <3>2 DEF Sound, GivenOut
      <3> QED
        BY <2>k, <3>1, <3>3 DEF Places
    <2>5. hits \in SUBSET (1 .. n) /\ \A x \in 1 .. n : x \in hits <=> K[l[x]] = v
      BY <1>2, <2>3, <2>4, <2>k
    <2>6. Lookup(n, K, v, s, l, a, c, gone, hits)
      BY <2>1, <2>2, <2>5 DEF Lookup
    <2>7. /\ Len(gone) = Cardinality(hits) /\ IsFiniteSet(hits)
          /\ \A k \in hits : (\A j \in hits : k <= j) => Len(gone) # 0 /\ gone[1] = l[k]
      BY <2>6, LookupFinds
    <2>8. count(m, o, name) = Len(gone)
      BY <2>g DEF count
    <2>9. ASSUME hits = {} PROVE value_of(m, o, name) = <<>>
      <3>1. count(m, o, name) = 0
        BY <2>7, <2>8, <2>9, FS_EmptySet
      <3>2. find(m, o, name) = 0
        BY <3>1 DEF find
      <3> QED
        BY <3>2 DEF value_of
    <2>10. ASSUME NEW k \in hits, \A j \in hits : k <= j PROVE value_of(m, o, name) = fields[k].value
      <3>1. k \in 1 .. n /\ Len(gone) # 0 /\ gone[1] = l[k]
        BY <2>5, <2>7, <2>10
      <3>2. find(m, o, name) = l[k]
        BY <2>8, <2>g, <3>1 DEF find
      <3>3. l[k] # 0
        <4>1. l[k] \in Blocks
          BY <3>1
        <4> QED
          BY <4>1, BlocksAreNumbers
      <3>4. value_of(m, o, name) = m.heap[l[k]].value
        BY <3>2, <3>3 DEF value_of
      <3> QED
        BY <2>3, <3>1, <3>4
    <2> QED
      BY <2>7, <2>8, <2>9, <2>10
  <1> QED
    BY <1>2, <1>m DEF LookupsAgree

\* In every state of the program each element has one owner, the multiset and the
\* list of each container agree, and so do the lookups: however it inserts,
\* replaces, erases, copies, moves and destroys (fields.ipp).
THEOREM ContainersSound == Spec => []ContainersAgree
  <1>1. Init => Inv
    BY InitSound
  <1>2. Inv /\ [Next]_vars => Inv'
    BY NextKeeps
  <1>3. Inv => ContainersAgree
    <2> SUFFICES ASSUME Inv PROVE ContainersAgree
      OBVIOUS
    <2>1. FieldsTypeOK /\ OneOwner /\ SetMatchesList /\ LookupsAgree
      BY SoundTypes, SoundOwners, SoundStructures, SoundLookups DEF Inv
    <2>2. rd.kind \in Kinds \cup {"none"}
      BY DEF Inv, ReaderShape
    <2> QED
      BY <2>1, <2>2 DEF ContainersAgree, TypeOK
  <1> QED
    BY <1>1, <1>2, <1>3, PTL DEF Spec
=============================================================================
