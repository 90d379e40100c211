------------------------------ MODULE Huffman ------------------------------
(***************************************************************************)
(* The prefix codes of the deflate format as both ends build them:         *)
(* deflate_stream from the frequencies of the symbols (build_tree and what *)
(* it calls), inflate_stream from the lengths it reads (inflate_table).    *)
(* A code word is the sequence of its bits in the order they are sent.     *)
(*                                                                         *)
(* The format is the deflate format with an alphabet of any size: the      *)
(* constants stand for the tables and limits of the code.                  *)
(***************************************************************************)
EXTENDS Integers, Sequences, FiniteSets, FiniteSetsExt, SequencesExt

CONSTANTS
  Literals,      \* octets are 0 .. Literals - 1 (literals)
  LengthExtra,   \* extra bits of each length code (extra_lbits, lext)
  DistExtra,     \* extra bits of each distance code (extra_dbits, dext)
  StaticLens,    \* code lengths of the static literal tree, two unused codes included
  StaticDist,    \* length of every code of the static distance tree
  MaxMatch       \* maxMatch

MinMatch == 3
EndBlock == Literals
lCodes == Literals + 1 + Len(LengthExtra)
dCodes == Len(DistExtra)

\* The n low bits of v, the lowest first, and the value of such bits.
ToBits(v, n) == [i \in 1 .. n |-> (v \div 2^(i - 1)) % 2]
FromBits(bits) ==
  LET upto[k \in 0 .. Len(bits)] == IF k = 0 THEN 0 ELSE upto[k - 1] + bits[k] * 2^(k - 1)
  IN upto[Len(bits)]

Total(S, f(_)) == FoldSet(LAMBDA x, a : a + f(x), 0, S)

\* The first value a code stands for: base_length and base_dist, lbase and dbase.
Base(extra, c) == Total(1 .. c, LAMBDA i : 2^extra[i])
length_base(c) == IF c = Len(LengthExtra) - 1 THEN MaxMatch ELSE MinMatch + Base(LengthExtra, c)
dist_base(c) == 1 + Base(DistExtra, c)

-----------------------------------------------------------------------------
(* deflate_stream: the heap.  A tree t has for each node its frequency fc, *)
(* its depth and, once it has one, its parent dl.                          *)

smaller(t, n, m) == t.fc[n] < t.fc[m] \/ (t.fc[n] = t.fc[m] /\ t.depth[n] <= t.depth[m])

RECURSIVE pqdownheap(_, _, _)
pqdownheap(t, heap, k) ==
  LET left == 2 * k
      j == IF left < Len(heap) /\ smaller(t, heap[left + 1], heap[left]) THEN left + 1 ELSE left
  IN IF left > Len(heap) \/ smaller(t, heap[k], heap[j]) THEN heap
     ELSE pqdownheap(t, [heap EXCEPT ![k] = heap[j], ![j] = heap[k]], j)

\* The heap without its smallest node.
pqremove(t, heap) ==
  IF Len(heap) = 1 THEN <<>>
  ELSE pqdownheap(t, [Front(heap) EXCEPT ![1] = Last(heap)], 1)

RECURSIVE heapify(_, _, _)
heapify(t, heap, n) == IF n = 0 THEN heap ELSE heapify(t, pqdownheap(t, heap, n), n - 1)

\* A node for the parent of n and m.
join(t, n, m, node) ==
  [t EXCEPT !.fc[node] = t.fc[n] + t.fc[m], !.depth[node] = 1 + Max({t.depth[n], t.depth[m]}),
            !.dl[n] = node, !.dl[m] = node]
replace_top(t, heap, node) == pqdownheap(t, [heap EXCEPT ![1] = node], 1)

\* The two least frequent nodes get a parent until one node is left.
\* order has the nodes by decreasing frequency, the root first.  rest is the heap
\* without the least frequent node n.
RECURSIVE combine(_, _, _, _)
combine_with(t, n, rest, node, order) ==
  combine(join(t, n, rest[1], node), replace_top(join(t, n, rest[1], node), rest, node), node + 1,
          <<rest[1], n>> \o order)
combine(t, heap, node, order) ==
  IF Len(heap) < 2 THEN [dl |-> t.dl, order |-> heap \o order]
  ELSE combine_with(t, heap[1], pqremove(t, heap), node, order)

\* At least two symbols get a code.
RECURSIVE force_two(_, _)
force_two(heap, max_code) ==
  IF Len(heap) >= 2 THEN [heap |-> heap, max_code |-> max_code]
  ELSE IF max_code < 2 THEN force_two(Append(heap, max_code + 1), max_code + 1)
  ELSE force_two(Append(heap, 0), max_code)

\* One leaf moves down and takes an overflowing one as its brother.
RECURSIVE spread(_, _, _)
spread(bl_count, max_length, overflow) ==
  IF overflow <= 0 THEN bl_count
  ELSE LET b == Max({x \in 1 .. max_length - 1 : bl_count[x] # 0})
       IN spread([[[bl_count EXCEPT ![b] = @ - 1] EXCEPT ![b + 1] = @ + 2] EXCEPT ![max_length] = @ - 1],
                 max_length, overflow - 2)

\* The lengths of the codes of the leaves, none longer than max_length.
gen_bitlen(dl, order, leaves, max_length) ==
  LET depth[n \in DOMAIN dl] == IF n = order[1] THEN 0 ELSE Min({depth[dl[n]] + 1, max_length})
      inner == ToSet(Tail(order))
      overflow == Cardinality({n \in inner : depth[dl[n]] + 1 > max_length})
      bl_count == spread([b \in 1 .. max_length |-> Cardinality({n \in leaves : depth[n] = b})],
                         max_length, overflow)
      rare == SelectSeq(Reverse(order), LAMBDA n : n \in leaves)
      length(i) == Max({b \in 1 .. max_length : i <= Total(b .. max_length, LAMBDA x : bl_count[x])})
      new == [i \in DOMAIN rare |-> length(i)]
  IN IF overflow = 0 THEN [n \in leaves |-> depth[n]]
     ELSE [n \in leaves |-> new[CHOOSE i \in DOMAIN rare : rare[i] = n]]

symbols(freq) == SelectSeq([i \in 1 .. Cardinality(DOMAIN freq) |-> i - 1], LAMBDA n : freq[n] # 0)
leaves_of(used) == force_two(used, IF used = <<>> THEN -1 ELSE Last(used))

\* The nodes before any has a parent.
forest(f) ==
  LET nodes == 0 .. 2 * Cardinality(DOMAIN f)
  IN [fc |-> [n \in nodes |-> IF n \in DOMAIN f THEN f[n] ELSE 0],
      depth |-> [n \in nodes |-> 0], dl |-> [n \in nodes |-> 0]]
tree(t, heap, elems) == combine(t, heapify(t, heap, Len(heap) \div 2), elems, <<>>)
leaf_lengths(c, leaves, max_length) == gen_bitlen(c.dl, c.order, leaves, max_length)

\* The lengths for frequencies with those forced on the tree.  opt and stat are the
\* lengths of the block in bits with this code and with the static one, added to
\* what the codes forced on the tree subtract.
measured(f, forced, bits, max_code, extra, static) ==
  [len |-> [n \in DOMAIN f |-> IF n \in DOMAIN bits THEN bits[n] ELSE 0], max_code |-> max_code,
   opt |-> Total(DOMAIN bits, LAMBDA n : f[n] * (bits[n] + extra[n])) - Cardinality(forced),
   stat |-> Total(DOMAIN bits, LAMBDA n : f[n] * (static[n] + extra[n])) - Total(forced, LAMBDA n : static[n])]
tree_of(f, two, forced, max_length, extra, static) ==
  measured(f, forced, leaf_lengths(tree(forest(f), two.heap, Cardinality(DOMAIN f)), ToSet(two.heap), max_length),
           two.max_code, extra, static)
tree_with(freq, two, max_length, extra, static) ==
  LET forced == {n \in ToSet(two.heap) : freq[n] = 0}
  IN tree_of([n \in DOMAIN freq |-> IF n \in forced THEN 1 ELSE freq[n]], two, forced, max_length, extra, static)

\* The code for the frequencies freq[0 .. elems - 1].
build_tree(freq, max_length, extra, static) ==
  tree_with(freq, leaves_of(symbols(freq)), max_length, extra, static)

\* The code words of the symbols with these lengths: in each length the codes
\* count up from next_code, and bi_reverse has the high bit sent first.
gen_codes(len) ==
  LET lengths == {len[n] : n \in DOMAIN len}
      bl_count(b) == IF b = 0 THEN 0 ELSE Cardinality({n \in DOMAIN len : len[n] = b})
      next_code[b \in 0 .. Max(lengths)] == IF b = 0 THEN 0 ELSE 2 * (next_code[b - 1] + bl_count(b - 1))
      code(n) == next_code[len[n]] + Cardinality({m \in DOMAIN len : m < n /\ len[m] = len[n]})
  IN [n \in DOMAIN len |-> Reverse(ToBits(code(n), len[n]))]

\* BOOST_ASSERT of gen_codes: the last code is all ones.
codes_are_complete(len, max_bits) ==
  Total({n \in DOMAIN len : len[n] # 0}, LAMBDA n : 2^(max_bits - len[n])) = 2^max_bits

-----------------------------------------------------------------------------
(* The lengths of a tree in the code of the bit lengths: each item is a    *)
(* code and the value and number of its extra bits.                        *)

Item(code, value, extra) == [code |-> code, value |-> value, extra |-> extra]

limits(cur, next) == IF next = 0 THEN <<138, 3>> ELSE IF cur = next THEN <<6, 3>> ELSE <<7, 4>>

run_items(cur, prev, count, min_count) ==
  LET repeats == IF cur # prev THEN count - 1 ELSE count
  IN IF count < min_count THEN [i \in 1 .. count |-> Item(cur, 0, 0)]
     ELSE IF cur # 0 THEN (IF cur # prev THEN <<Item(cur, 0, 0)>> ELSE <<>>) \o <<Item(16, repeats - 3, 2)>>
     ELSE IF count <= 10 THEN <<Item(17, count - 3, 3)>>
     ELSE <<Item(18, count - 11, 7)>>

RECURSIVE tree_items(_, _, _, _, _)
tree_items(len, n, prev, count, lim) ==
  IF n > Len(len) THEN <<>>
  ELSE LET next == IF n < Len(len) THEN len[n + 1] ELSE 65535
       IN IF count + 1 < lim[1] /\ len[n] = next THEN tree_items(len, n + 1, prev, count + 1, lim)
          ELSE run_items(len[n], prev, count + 1, lim[2])
               \o tree_items(len, n + 1, len[n], 0, limits(len[n], next))

\* send_tree sends these items, scan_tree counts them.
send_tree(len) == tree_items(len, 1, -1, 0, IF len[1] = 0 THEN <<138, 3>> ELSE <<7, 4>>)
scan_tree(items) == [c \in 0 .. 18 |-> Cardinality({i \in DOMAIN items : items[i].code = c})]

bl_order == <<16, 17, 18, 0, 8, 7, 9, 6, 10, 5, 11, 4, 12, 3, 13, 2, 14, 1, 15>>

-----------------------------------------------------------------------------
(* inflate_stream: the decoding table of the lengths lens[1 .. n].  error  *)
(* is "" if they are a code; word has the bits of each symbol, and a       *)
(* lookup of root bits finds a symbol or the size of a second table.       *)

table_error(lens, complete) ==
  LET max == Max({0} \cup ToSet(lens))
      sum == Total({i \in DOMAIN lens : lens[i] # 0}, LAMBDA i : 2^(max - lens[i]))
  IN IF max = 0 THEN "" ELSE IF sum > 2^max THEN "over_subscribed_length"
     ELSE IF sum < 2^max /\ (complete \/ max # 1) THEN "incomplete_length_set" ELSE ""

\* Symbols are numbered from 0; shorter codes come first, then lower symbols.
inflate_table(lens, bits, complete) ==
  LET used == {i \in DOMAIN lens : lens[i] # 0}
      max == Max({0} \cup ToSet(lens))
      before(i) == {j \in used : lens[j] < lens[i] \/ (lens[j] = lens[i] /\ j < i)}
      code(i) == Total(before(i), LAMBDA j : 2^(max - lens[j])) \div 2^(max - lens[i])
  IN [error |-> table_error(lens, complete),
      root |-> IF used = {} THEN 1 ELSE Max({Min({bits, max}), Min({lens[i] : i \in used})}),
      word |-> IF table_error(lens, complete) # "" THEN [i \in {} |-> <<>>]
               ELSE [i \in {k - 1 : k \in used} |-> Reverse(ToBits(code(i + 1), lens[i + 1]))]]

\* Bits to fetch before the symbol is known: of the table for codes that begin
\* with the root bits in hand.
second_bits(table, bits) ==
  LET long == {s \in DOMAIN table.word :
                 Len(table.word[s]) > table.root /\ SubSeq(table.word[s], 1, table.root) = SubSeq(bits, 1, table.root)}
  IN IF long = {} THEN table.root ELSE Max({Len(table.word[s]) : s \in long})

\* The symbols whose code the bits begin with: one, or none for an invalid code.
decoded(table, bits) == {s \in DOMAIN table.word : IsPrefix(table.word[s], bits)}
=============================================================================
