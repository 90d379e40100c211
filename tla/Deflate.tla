------------------------------ MODULE Deflate ------------------------------
(***************************************************************************)
(* zlib::deflate_stream.  A call of write is a function of the stream's    *)
(* state and the flush parameter; the state d holds the members of the     *)
(* stream and of the z_params of the call:                                 *)
(*   in, out, avail_out, total_in   what the caller passes and gets        *)
(*   window, head, prev, ins_h, strstart, lookahead, block_start,          *)
(*   match_start, match_length, prev_match, prev_length, match_available,  *)
(*   insert, high_water             the search for matches                 *)
(*   sym        the literals and matches of the block (d_buf_ and l_buf_)  *)
(*   bits       the bits sent that make no octet yet (bi_buf_)             *)
(*   pending    the octets that wait for room                              *)
(***************************************************************************)
EXTENDS Huffman, Bitwise

CONSTANTS
  MaxBits,       \* maxBits
  MaxBlBits,     \* maxBlBits
  HashBits,      \* hash_bits_
  LengthLimit    \* largest stored block (0xffff)

kMinLookahead == MaxMatch + MinMatch + 1
kWinInit == MaxMatch
kTooFar == 4096
hash_shift == (HashBits + MinMatch - 1) \div MinMatch

\* get_config: good, lazy, nice and chain of a level, and its function
Config(good, lazy, nice, chain, func) ==
  [good |-> good, lazy |-> lazy, nice |-> nice, chain |-> chain, func |-> func]
get_config(level) ==
  <<Config(0, 0, 0, 0, "stored"), Config(4, 4, 8, 4, "fast"), Config(4, 5, 16, 8, "fast"),
    Config(4, 6, 32, 32, "fast"), Config(4, 4, 16, 16, "slow"), Config(8, 16, 32, 32, "slow"),
    Config(8, 16, 128, 128, "slow"), Config(8, 32, 128, 256, "slow"),
    Config(32, 128, 258, 1024, "slow"), Config(32, 258, 258, 4096, "slow")>>[level + 1]

flush_rank(flush) ==
  CASE flush = "none" -> 0 [] flush = "block" -> 1 [] flush = "partial" -> 2
    [] flush = "sync" -> 3 [] flush = "full" -> 4 [] flush = "finish" -> 5

window_size(d) == 2 * d.w_size
max_dist(d) == d.w_size - kMinLookahead

-----------------------------------------------------------------------------
(* Output *)

\* bi_flush: whole octets go to the pending buffer
bi_flush(d) ==
  LET n == Len(d.bits) \div 8
  IN [d EXCEPT !.pending = @ \o [i \in 1 .. n |-> SubSeq(d.bits, 8 * i - 7, 8 * i)],
               !.bits = SubSeq(@, 8 * n + 1, Len(@))]
send_bits(d, bits) == [d EXCEPT !.bits = @ \o bits]
bi_windup(d) == bi_flush([d EXCEPT !.bits = @ \o [i \in 1 .. (-Len(@)) % 8 |-> 0]])

flush_pending(d0) ==
  LET d == bi_flush(d0)
      n == Min({Len(d.pending), d.avail_out})
  IN [d EXCEPT !.out = @ \o SubSeq(d.pending, 1, n), !.avail_out = @ - n,
               !.pending = SubSeq(@, n + 1, Len(@))]

Octets(s) == [i \in DOMAIN s |-> ToBits(s[i], 8)]

\* tr_stored_block, copy_block
tr_stored_block(d, s, last) ==
  LET d1 == bi_windup(send_bits(d, <<last, 0, 0>>))
      n == ToBits(Len(s), 16)
      complement == ToBits(65535 - Len(s), 16)
  IN [d1 EXCEPT !.pending = @ \o <<SubSeq(n, 1, 8), SubSeq(n, 9, 16), SubSeq(complement, 1, 8),
                                   SubSeq(complement, 9, 16)>> \o Octets(s)]

\* tr_align
tr_align(d) == bi_flush(send_bits(d, <<0, 1, 0>> \o gen_codes(StaticLens)[EndBlock + 1]))

-----------------------------------------------------------------------------
(* Blocks *)

\* length_code and d_code
length_code(lc) ==
  IF lc = MaxMatch - MinMatch THEN Len(LengthExtra) - 1
  ELSE CHOOSE c \in 0 .. Len(LengthExtra) - 2 :
         lc + MinMatch \in length_base(c) .. length_base(c) + 2^LengthExtra[c + 1] - 1
d_code(dist) == CHOOSE c \in 0 .. dCodes - 1 : dist \in dist_base(c) .. dist_base(c) + 2^DistExtra[c + 1] - 1

ltree_symbol(s) == IF s.dist = 0 THEN s.lc ELSE EndBlock + 1 + length_code(s.lc)

\* What tr_tally_lit and tr_tally_dist counted since init_block.
ltree_freq(d) ==
  [n \in 0 .. lCodes - 1 |-> (IF n = EndBlock THEN 1 ELSE 0)
                             + Cardinality({i \in DOMAIN d.sym : ltree_symbol(d.sym[i]) = n})]
dtree_freq(d) ==
  [n \in 0 .. dCodes - 1 |-> Cardinality({i \in DOMAIN d.sym : d.sym[i].dist # 0 /\ d_code(d.sym[i].dist) = n})]

lextra == [n \in 0 .. lCodes - 1 |-> IF n > EndBlock THEN LengthExtra[n - EndBlock] ELSE 0]
dextra == [n \in 0 .. dCodes - 1 |-> DistExtra[n + 1]]
blextra == [n \in 0 .. 18 |-> IF n < 16 THEN 0 ELSE <<2, 3, 7>>[n - 15]]
static_ltree == [n \in 0 .. lCodes + 1 |-> StaticLens[n + 1]]
static_dtree == [n \in 0 .. 2^StaticDist - 1 |-> StaticDist]

\* The bits of one literal or match.
symbol_bits(s, lword, dword) ==
  LET lcode == length_code(s.lc)
      dcode == d_code(s.dist)
  IN IF s.dist = 0 THEN lword[s.lc]
     ELSE lword[EndBlock + 1 + lcode]
          \o ToBits(s.lc + MinMatch - length_base(lcode), LengthExtra[lcode + 1])
          \o dword[dcode] \o ToBits(s.dist - dist_base(dcode), DistExtra[dcode + 1])

compress_block(d, lword, dword) ==
  FlattenSeq([i \in DOMAIN d.sym |-> symbol_bits(d.sym[i], lword, dword)]) \o lword[EndBlock]

\* The trees of a block with dynamic codes, as they are sent.
AsSeq(len, max_code) == [i \in 1 .. max_code + 1 |-> len[i - 1]]
tree_lengths(l, t) == send_tree(AsSeq(l.len, l.max_code)) \o send_tree(AsSeq(t.len, t.max_code))
trees_with(l, t, items, bl) ==
  LET blcodes == Max({3} \cup {i \in 4 .. 19 : bl.len[bl_order[i]] # 0})
  IN [l |-> l, d |-> t, items |-> items, bl |-> bl, blcodes |-> blcodes,
      opt_len |-> l.opt + t.opt + bl.opt + 3 * blcodes + 14, static_len |-> l.stat + t.stat]
build_bl_tree(l, t, items) == trees_with(l, t, items, build_tree(scan_tree(items), MaxBlBits, blextra, blextra))
two_trees(l, t) == build_bl_tree(l, t, tree_lengths(l, t))
block_trees(d) ==
  two_trees(build_tree(ltree_freq(d), MaxBits, lextra, static_ltree),
            build_tree(dtree_freq(d), MaxBits, dextra, static_dtree))

send_all_trees(t) ==
  LET word == gen_codes(t.bl.len)
  IN ToBits(t.l.max_code - Literals, 5) \o ToBits(t.d.max_code, 5) \o ToBits(t.blcodes - 4, 4)
     \o FlattenSeq([i \in 1 .. t.blcodes |-> ToBits(t.bl.len[bl_order[i]], 3)])
     \o FlattenSeq([i \in DOMAIN t.items |-> word[t.items[i].code] \o ToBits(t.items[i].value, t.items[i].extra)])

\* The symbols lie in the buffer of the pending octets, behind them: none is overwritten
\* before it is sent.  What is sent leaves bi_buf_ in pairs of octets.
overlay_is_ok(d, header, lword, dword) ==
  LET sent[lx \in 0 .. Len(d.sym)] ==
        IF lx = 0 THEN Len(d.bits) + 3 + header ELSE sent[lx - 1] + Len(symbol_bits(d.sym[lx], lword, dword))
  IN \A lx \in DOMAIN d.sym : Len(d.pending) + 2 * ((sent[lx] - 1) \div 16) < d.lit_bufsize + 2 * lx

\* Checks what was predicted of the block's length, and the assertions on its codes.
checked(d, t, bits, predicted) ==
  [d EXCEPT !.asserts = @ /\ Len(bits) = predicted
              /\ codes_are_complete(t.l.len, MaxBits) /\ codes_are_complete(t.d.len, MaxBits)
              /\ codes_are_complete(t.bl.len, MaxBlBits)]

\* The assertions of send_all_trees and send_tree on what is sent of the codes.
trees_checked(d, t) ==
  [d EXCEPT !.asserts = @ /\ t.l.max_code \in Literals .. lCodes - 1 /\ t.d.max_code \in 0 .. dCodes - 1
              /\ t.blcodes \in 4 .. 19
              /\ \A i \in DOMAIN t.items : t.items[i].code = 16 => t.items[i].value \in 0 .. 3]

static_block(d) == compress_block(d, gen_codes(static_ltree), gen_codes(static_dtree))
dynamic_block(d, t) == send_all_trees(t) \o compress_block(d, gen_codes(t.l.len), gen_codes(t.d.len))
send_static(d, last, t) ==
  send_bits([checked(d, t, static_block(d), t.static_len) EXCEPT
               !.asserts = @ /\ overlay_is_ok(d, 0, gen_codes(static_ltree), gen_codes(static_dtree))],
            <<last, 1, 0>> \o static_block(d))
send_dynamic(d, last, t) ==
  send_bits([trees_checked(checked(d, t, dynamic_block(d, t), t.opt_len), t) EXCEPT
               !.asserts = @ /\ overlay_is_ok(d, Len(send_all_trees(t)), gen_codes(t.l.len), gen_codes(t.d.len))],
            <<last, 0, 1>> \o dynamic_block(d, t))

\* The block is stored, or sent with the static or with its own codes, whichever is shorter.
send_block(d, last, t) ==
  LET stored_len == d.strstart - d.block_start
      buf == [i \in 1 .. stored_len |-> d.window[d.block_start + i - 1]]
      static_lenb == IF d.level > 0 THEN (t.static_len + 10) \div 8 ELSE stored_len + 5
      opt_lenb == IF d.level > 0 THEN Min({(t.opt_len + 10) \div 8, static_lenb}) ELSE stored_len + 5
  IN IF stored_len + 4 <= opt_lenb /\ d.block_start >= 0 THEN tr_stored_block(d, buf, last)
     ELSE IF d.strategy = "fixed" \/ static_lenb = opt_lenb
     THEN send_static(d, last, t) ELSE send_dynamic(d, last, t)

\* init_block and, after the last block, the end of its octet
next_block(d, last) == IF last = 1 THEN bi_windup([d EXCEPT !.sym = <<>>]) ELSE [d EXCEPT !.sym = <<>>]
tr_flush_block(d, last) == next_block(send_block(d, last, block_trees(d)), last)

flush_block(d, last) == flush_pending([tr_flush_block(d, last) EXCEPT !.block_start = d.strstart])

-----------------------------------------------------------------------------
(* The window *)

update_hash(h, c) == ((h * 2^hash_shift) ^^ c) % 2^HashBits

\* The string at str goes to the head of its chain.
insert_string(d, str) ==
  LET h == update_hash(d.ins_h, d.window[str + 2])
  IN [d EXCEPT !.ins_h = h, !.prev[str % d.w_size] = d.head[h], !.head[h] = str]

\* The upper half moves to the lower one.
slide(d) ==
  IF d.strstart < d.w_size + max_dist(d) THEN d
  ELSE LET down(x) == IF x >= d.w_size THEN x - d.w_size ELSE 0
       IN [d EXCEPT !.window = [k \in DOMAIN @ |-> IF k < d.w_size THEN @[k + d.w_size] ELSE @[k]],
                    !.match_start = @ - d.w_size, !.strstart = @ - d.w_size, !.block_start = @ - d.w_size,
                    !.head = [h \in DOMAIN @ |-> down(@[h])], !.prev = [k \in DOMAIN @ |-> down(@[k])]]

read_buf(d) ==
  LET at == d.strstart + d.lookahead
      n == Min({Len(d.in), window_size(d) - at})
  IN [d EXCEPT !.window = [k \in DOMAIN @ |-> IF k \in at .. at + n - 1 THEN d.in[k - at + 1] ELSE @[k]],
               !.in = SubSeq(@, n + 1, Len(@)), !.lookahead = @ + n, !.total_in = @ + n]

\* The strings a former call could not insert for want of input.
RECURSIVE insert_left(_, _)
insert_left(d, str) ==
  IF d.insert = 0 THEN d
  ELSE LET d1 == [insert_string(d, str) EXCEPT !.insert = @ - 1]
       IN IF d1.lookahead + d1.insert < MinMatch THEN d1 ELSE insert_left(d1, str + 1)

start_hash(d) ==
  LET str == d.strstart - d.insert
  IN IF d.lookahead + d.insert < MinMatch THEN d
     ELSE insert_left([d EXCEPT !.ins_h = update_hash(d.window[str], d.window[str + 1])], str)

\* What is read past the input is zero.
zero_ahead(d) ==
  LET curr == d.strstart + d.lookahead
      from == Max({d.high_water, curr})
      to == Min({curr + kWinInit, window_size(d)})
  IN IF d.high_water >= window_size(d) \/ d.high_water >= curr + kWinInit THEN d
     ELSE [d EXCEPT !.window = [k \in DOMAIN @ |-> IF k \in from .. to - 1 THEN 0 ELSE @[k]],
                    !.high_water = to]

RECURSIVE fill_rest(_)
fill_more(d) == IF d.lookahead < kMinLookahead /\ d.in # <<>> THEN fill_rest(d) ELSE d
fill_slid(d) == IF d.in = <<>> THEN d ELSE fill_more(start_hash(read_buf(d)))
fill_rest(d) == fill_slid(slide(d))
fill_window(d) == zero_ahead(fill_rest(d))

-----------------------------------------------------------------------------
(* longest_match *)

common(d, m) ==
  LET differ == {k \in 0 .. MaxMatch - 1 : d.window[d.strstart + k] # d.window[m + k]}
  IN IF differ = {} THEN MaxMatch ELSE Min(differ)

RECURSIVE search(_, _, _, _, _)
search(d, cur, chain, best, nice) ==
  LET same(k) == d.window[cur + k] = d.window[d.strstart + k]
      len == IF same(best.len) /\ same(best.len - 1) /\ same(0) /\ same(1) THEN common(d, cur) ELSE 0
      new == IF len > best.len THEN [best EXCEPT !.len = len, !.start = cur] ELSE best
      next == d.prev[cur % d.w_size]
      limit == Max({d.strstart - max_dist(d), 0})
      new1 == [new EXCEPT !.asserts = @ /\ cur < d.strstart /\ (len > 0 => len > 2)]
  IN IF (len > best.len /\ len >= nice) \/ next <= limit \/ chain = 1 THEN new1
     ELSE search(d, next, chain - 1, new1, nice)

\* match_start is set to the longest match found; the result is its length.
longest_match(d, head) ==
  LET chain == IF d.prev_length >= d.good THEN d.chain \div 4 ELSE d.chain
      matched(r) == [d EXCEPT !.match_start = r.start, !.match_length = Min({r.len, d.lookahead}),
                              !.asserts = @ /\ r.asserts /\ d.strstart <= window_size(d) - kMinLookahead]
  IN matched(search(d, head, chain, [len |-> d.prev_length, start |-> d.match_start, asserts |-> TRUE],
                    Min({d.nice, d.lookahead})))

-----------------------------------------------------------------------------
(* The functions that compress.  bstate is what they return.               *)

tally(d, dist, lc) == [d EXCEPT !.sym = Append(@, [dist |-> dist, lc |-> lc])]
bflush(d) == Len(d.sym) = d.lit_bufsize - 1
Ret(d, bstate) == [d EXCEPT !.bstate = bstate]

\* The function returns if a block took all the room.
no_room(d, full, else) == Ret(d, IF d.avail_out = 0 THEN full ELSE else)

\* A full block is flushed.
after_tally(d) == IF bflush(d) THEN no_room(flush_block(d, 0), "need_more", "") ELSE Ret(d, "")

\* The end of f_fast, f_slow, f_rle and f_huff.
end_block(d, flush, some) ==
  IF flush = "finish" THEN no_room(flush_block(d, 1), "finish_started", "finish_done")
  ELSE IF some THEN no_room(flush_block(d, 0), "need_more", "block_done")
  ELSE Ret(d, "block_done")

more_input(d, least) == IF d.lookahead < least THEN fill_window(d) ELSE d

RECURSIVE f_stored(_, _)
stored_on(d, flush) == IF d.bstate # "" THEN d ELSE f_stored(d, flush)
\* A block that reaches max_start, and one that fills the window, is flushed.
stored_window(d) ==
  IF d.bstate = "" /\ d.strstart - d.block_start >= max_dist(d) THEN no_room(flush_block(d, 0), "need_more", "") ELSE d
stored_limit(d, end, max_start) ==
  IF end # 0 /\ end < max_start THEN d
  ELSE no_room(flush_block([d EXCEPT !.lookahead = end - max_start, !.strstart = max_start], 0), "need_more", "")
stored_step(d, end) ==
  stored_window(stored_limit([d EXCEPT !.strstart = end, !.lookahead = 0, !.bstate = ""], end,
                             d.block_start + Min({LengthLimit, 4 * d.lit_bufsize - 5})))
f_stored_filled(d, flush) ==
  IF d.lookahead > 0
  THEN stored_on(stored_step([d EXCEPT !.asserts = @ /\ d.block_start >= 0], d.strstart + d.lookahead), flush)
  ELSE IF flush = "none" THEN Ret(d, "need_more")
  ELSE end_block([d EXCEPT !.insert = 0], flush, d.strstart > d.block_start)
f_stored(d, flush) ==
  LET slides_safely == d.lookahead > 1 \/ d.strstart < d.w_size + max_dist(d) \/ d.block_start >= d.w_size
  IN f_stored_filled(more_input([d EXCEPT !.asserts = @ /\ slides_safely], 2), flush)

\* insert_string for the current string, and the head it replaces
with_head(d) == IF d.lookahead >= MinMatch THEN insert_string(d, d.strstart) ELSE d
hash_head(d) == IF d.lookahead >= MinMatch THEN d.head[update_hash(d.ins_h, d.window[d.strstart + 2])] ELSE 0

RECURSIVE insert_range(_, _)
insert_range(d, to) ==
  IF d.strstart = to THEN d ELSE insert_range(insert_string([d EXCEPT !.strstart = @ + 1], d.strstart + 1), to)

\* A match was found: its strings are inserted if it is short.
matched_fast(d, n, at) ==
  IF n <= d.lazy /\ d.lookahead >= MinMatch
  THEN [insert_range(d, at - 1) EXCEPT !.strstart = at, !.match_length = 0]
  ELSE [d EXCEPT !.strstart = at, !.match_length = 0, !.ins_h = update_hash(d.window[at], d.window[at + 1])]
fast_match(d) ==
  matched_fast([tally(d, d.strstart - d.match_start, d.match_length - MinMatch) EXCEPT !.lookahead = @ - d.match_length],
               d.match_length, d.strstart + d.match_length)

literal(d) == [tally(d, 0, d.window[d.strstart]) EXCEPT !.lookahead = @ - 1, !.strstart = @ + 1]

MinInsert(d) == Min({d.strstart, MinMatch - 1})

fast_search(d, head) ==
  IF head # 0 /\ d.strstart - head <= max_dist(d) THEN longest_match(with_head(d), head) ELSE with_head(d)
fast_tally(d) == after_tally(IF d.match_length >= MinMatch THEN fast_match(d) ELSE literal(d))

RECURSIVE f_fast(_, _)
fast_on(d, flush) == IF d.bstate # "" THEN d ELSE f_fast(d, flush)
f_fast_filled(d, flush) ==
  IF d.lookahead < kMinLookahead /\ flush = "none" THEN Ret(d, "need_more")
  ELSE IF d.lookahead = 0 THEN end_block([d EXCEPT !.insert = MinInsert(d)], flush, d.sym # <<>>)
  ELSE fast_on(fast_tally(fast_search(d, hash_head(d))), flush)
f_fast(d, flush) == f_fast_filled(more_input(d, kMinLookahead), flush)

\* The match of the step before is used: the strings in it are inserted.
RECURSIVE insert_upto(_, _, _)
insert_upto(d, n, max_insert) ==
  IF n = 0 THEN d
  ELSE LET d1 == [d EXCEPT !.strstart = @ + 1]
       IN insert_upto(IF d1.strstart <= max_insert THEN insert_string(d1, d1.strstart) ELSE d1, n - 1, max_insert)

slow_match(d) ==
  LET d1 == [tally(d, d.strstart - 1 - d.prev_match, d.prev_length - MinMatch) EXCEPT !.lookahead = @ - (d.prev_length - 1)]
  IN [insert_upto(d1, d.prev_length - 2, d.strstart + d.lookahead - MinMatch) EXCEPT
        !.prev_length = 0, !.match_available = FALSE, !.match_length = MinMatch - 1, !.strstart = @ + 1]

\* Looks for a match at this position, remembering the last one.
no_match(d) == [d EXCEPT !.match_length = MinMatch - 1]
good_match(d) ==
  LET poor == d.match_length <= 5 /\ (d.strategy = "filtered"
                \/ (d.match_length = MinMatch /\ d.strstart - d.match_start > kTooFar))
  IN IF poor THEN no_match(d) ELSE d
slow_search_from(d, head) ==
  IF head = 0 \/ d.prev_length >= d.lazy \/ d.strstart - head > max_dist(d) THEN d
  ELSE good_match(longest_match(d, head))
slow_search(d) ==
  slow_search_from(no_match([with_head(d) EXCEPT !.prev_length = d.match_length, !.prev_match = d.match_start]),
                   hash_head(d))

\* The literal of the position before, as the match there was not the best.
flush_if_full(d) == IF bflush(d) THEN flush_block(d, 0) ELSE d
slow_literal(d) ==
  no_room([flush_if_full(tally(d, 0, d.window[d.strstart - 1])) EXCEPT !.strstart = @ + 1, !.lookahead = @ - 1],
          "need_more", "")

slow_step(d) ==
  IF d.prev_length >= MinMatch /\ d.match_length <= d.prev_length THEN after_tally(slow_match(d))
  ELSE IF d.match_available THEN slow_literal(d)
  ELSE Ret([d EXCEPT !.match_available = TRUE, !.strstart = @ + 1, !.lookahead = @ - 1], "")

last_literal(d) ==
  IF d.match_available THEN [tally(d, 0, d.window[d.strstart - 1]) EXCEPT !.match_available = FALSE] ELSE d
slow_end(d, flush) == end_block([d EXCEPT !.insert = MinInsert(d)], flush, d.sym # <<>>)

RECURSIVE f_slow(_, _)
slow_on(d, flush) == IF d.bstate # "" THEN d ELSE f_slow(d, flush)
f_slow_filled(d, flush) ==
  IF d.lookahead < kMinLookahead /\ flush = "none" THEN Ret(d, "need_more")
  ELSE IF d.lookahead = 0 THEN slow_end(last_literal(d), flush)
  ELSE slow_on(slow_step(slow_search(d)), flush)
f_slow(d, flush) == f_slow_filled(more_input(d, kMinLookahead), flush)

\* The length of the run of the octet before the current one.
run_length(d) ==
  LET prev == d.window[d.strstart - 1]
      differ == {k \in 0 .. MaxMatch - 1 : d.window[d.strstart + k] # prev}
      run == IF differ = {} THEN MaxMatch ELSE Min(differ)
  IN IF d.lookahead < MinMatch \/ d.strstart = 0 \/ run < MinMatch THEN 0 ELSE Min({run, d.lookahead})

\* BOOST_ASSERT of f_rle: the scan of the run, which goes on past the input, stays in the window.
scan_checked(d) ==
  LET run == {k \in 0 .. MaxMatch - 1 : \A j \in 0 .. k : d.window[d.strstart + j] = d.window[d.strstart - 1]}
  IN IF d.lookahead < MinMatch \/ d.strstart = 0 THEN d
     ELSE [d EXCEPT !.asserts = @ /\ d.strstart + Cardinality(run) <= window_size(d) - 1]

rle_tally(d, n) ==
  IF n >= MinMatch
  THEN [tally(d, 1, n - MinMatch) EXCEPT !.lookahead = @ - n, !.strstart = @ + n, !.match_length = 0]
  ELSE [literal(d) EXCEPT !.match_length = n]

RECURSIVE f_rle(_, _)
rle_on(d, flush) == IF d.bstate # "" THEN d ELSE f_rle(d, flush)
f_rle_filled(d, flush) ==
  IF d.lookahead <= MaxMatch /\ flush = "none" THEN Ret(d, "need_more")
  ELSE IF d.lookahead = 0 THEN end_block([d EXCEPT !.insert = 0], flush, d.sym # <<>>)
  ELSE rle_on(after_tally(rle_tally(scan_checked(d), run_length(d))), flush)
f_rle(d, flush) == f_rle_filled(more_input(d, MaxMatch + 1), flush)

RECURSIVE f_huff(_, _)
huff_on(d, flush) == IF d.bstate # "" THEN d ELSE f_huff(d, flush)
f_huff_filled(d, flush) ==
  IF d.lookahead > 0 THEN huff_on(after_tally([literal(d) EXCEPT !.match_length = 0]), flush)
  ELSE IF flush = "none" THEN Ret(d, "need_more")
  ELSE end_block([d EXCEPT !.insert = 0], flush, d.sym # <<>>)
f_huff(d, flush) == f_huff_filled(more_input(d, 1), flush)

-----------------------------------------------------------------------------
(* The operations of a stream *)

\* The members of a new stream.  memory is what the memory of the window holds when
\* it is allocated.
deflate_stream(w_bits, memory) ==
  [inited |-> FALSE, level |-> 0, strategy |-> "normal", w_size |-> 2^w_bits, lit_bufsize |-> 0,
   status |-> "", last_flush |-> 0, pending |-> <<>>, bits |-> <<>>, sym |-> <<>>, ins_h |-> 0, high_water |-> 0,
   window |-> [k \in 0 .. 2 * 2^w_bits - 1 |-> memory], head |-> <<>>, prev |-> [k \in 0 .. 2^w_bits - 1 |-> 0],
   strstart |-> 0, lookahead |-> 0, block_start |-> 0, insert |-> 0,
   match_start |-> 0, match_length |-> 0, prev_match |-> 0, prev_length |-> 0, match_available |-> FALSE,
   good |-> 0, lazy |-> 0, nice |-> 0, chain |-> 0,
   in |-> <<>>, out |-> <<>>, avail_out |-> 0, total_in |-> 0, bstate |-> "", asserts |-> TRUE]

\* doReset with settings; the rest is set by init() in the next write.
deflate_reset(level, w_bits, lit_bufsize, strategy, memory) ==
  [deflate_stream(w_bits, memory) EXCEPT !.level = level, !.strategy = strategy, !.lit_bufsize = lit_bufsize]

\* doReset(), which keeps the settings
deflate_again(d) == [d EXCEPT !.inited = FALSE]

configured(d, level) ==
  LET c == get_config(level)
  IN [d EXCEPT !.level = level, !.lazy = c.lazy, !.good = c.good, !.nice = c.nice, !.chain = c.chain]

clear_hash(d) == [d EXCEPT !.head = [h \in 0 .. 2^HashBits - 1 |-> 0]]

\* init, tr_init, lm_init
init(d) ==
  configured(clear_hash(
    [d EXCEPT !.inited = TRUE, !.status = "BUSY", !.last_flush = 0, !.pending = <<>>, !.bits = <<>>, !.sym = <<>>,
              !.high_water = 0, !.ins_h = 0, !.strstart = 0, !.lookahead = 0, !.block_start = 0, !.insert = 0,
              !.match_length = MinMatch - 1, !.prev_length = MinMatch - 1, !.match_available = FALSE]), d.level)

compress(d, flush) ==
  LET func == IF d.strategy \in {"huffman", "rle"} THEN d.strategy ELSE get_config(d.level).func
  IN CASE func = "huffman" -> f_huff(d, flush) [] func = "rle" -> f_rle(d, flush)
       [] func = "stored" -> f_stored(d, flush) [] func = "fast" -> f_fast(d, flush)
       [] func = "slow" -> f_slow(d, flush)

\* The search forgets everything before a full flush.
forgotten(d) == IF d.lookahead = 0 THEN [clear_hash(d) EXCEPT !.strstart = 0, !.block_start = 0, !.insert = 0]
                ELSE clear_hash(d)

\* Bug: the end of the block is not followed by the bits that let it be read.
flush_marker_NoAlign(d, flush) ==
  CASE flush \in {"partial", "block"} -> d
    [] flush = "full" -> forgotten(tr_stored_block(d, <<>>, 0))
    [] OTHER -> tr_stored_block(d, <<>>, 0)

\* The marker after a block that a flush asked for.
flush_marker(d, flush) ==
  CASE flush = "partial" -> tr_align(d)
    [] flush = "block" -> d
    [] flush = "full" -> forgotten(tr_stored_block(d, <<>>, 0))
    [] OTHER -> tr_stored_block(d, <<>>, 0)

\* A result: the stream and the error.
R(d, ec) == [d |-> d, ec |-> ec]
Full(d) == IF d.avail_out = 0 THEN [d EXCEPT !.last_flush = -1] ELSE d

ending(flush) == IF flush = "finish" THEN "end_of_stream" ELSE ""
block_flushed(d, flush) == IF d.avail_out = 0 THEN R(Full(d), "") ELSE R(d, ending(flush))
block_written(d, flush) ==
  IF d.bstate \in {"need_more", "finish_started"} THEN R(Full(d), "")
  ELSE IF d.bstate # "block_done" THEN R(d, ending(flush))
  ELSE block_flushed(flush_pending(flush_marker(d, flush)), flush)
finishing(d) == IF d.bstate \in {"finish_started", "finish_done"} THEN [d EXCEPT !.status = "FINISH"] ELSE d
write_block(d, flush) ==
  IF d.in = <<>> /\ d.lookahead = 0 /\ (flush = "none" \/ d.status = "FINISH") THEN R(d, ending(flush))
  ELSE block_written(finishing(compress(d, flush)), flush)

write_more(d, flush) ==
  IF d.status = "FINISH" /\ d.in # <<>> THEN R(d, "need_buffers") ELSE write_block(d, flush)

\* Bug: compression goes on while output still waits for room.
write_pending_GoesOn(d, flush) == write_more(d, flush)

\* What waited for room goes first, and if it takes all the room nothing else is done.
write_pending(d, flush) == IF d.avail_out = 0 THEN R(Full(d), "") ELSE write_more(d, flush)

write_initialised(d, flush) ==
  LET d1 == [d EXCEPT !.last_flush = flush_rank(flush)]
  IN IF d.status = "FINISH" /\ flush # "finish" THEN R(d, "stream_error")
     ELSE IF d.avail_out = 0 THEN R(d, "need_buffers")
     ELSE IF d.pending = <<>> /\ d.in = <<>> /\ flush_rank(flush) <= d.last_flush /\ flush # "finish"
     THEN R(d1, "need_buffers")
     ELSE write_pending(IF d.pending # <<>> THEN flush_pending(d1) ELSE d1, flush)

\* doWrite, with the input, the output and the room already in d
doWrite(d, flush) == write_initialised(IF d.inited THEN d ELSE init(d), flush)

\* doParams: what there is is flushed with the old settings.
params_set(r, level, strategy) ==
  R([IF r.d.level # level THEN configured(r.d, level) ELSE r.d EXCEPT !.strategy = strategy],
    IF r.ec = "need_buffers" /\ r.d.pending = <<>> THEN "" ELSE r.ec)
doParams(d, level, strategy) ==
  LET func(l) == get_config(l).func
  IN params_set(IF (strategy # d.strategy \/ func(d.level) # func(level)) /\ d.total_in # 0
                THEN doWrite(d, "block") ELSE R(d, ""), level, strategy)

doTune(d, good, lazy, nice, chain) == [d EXCEPT !.good = good, !.lazy = lazy, !.nice = nice, !.chain = chain]
=============================================================================
