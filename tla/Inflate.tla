------------------------------ MODULE Inflate ------------------------------
(***************************************************************************)
(* zlib::inflate_stream.  A call of write is a function of the stream's    *)
(* state, the input, the room for output and the flush parameter; it goes  *)
(* through the modes of doWrite until one of them returns.  The input is a *)
(* sequence of octets, an octet the sequence of its eight bits, the lowest *)
(* first; the output is a sequence of octets' values.                      *)
(***************************************************************************)
EXTENDS Huffman

CONSTANTS
  LenRoot,       \* index bits of the tables: lenbits_, distbits_
  DistRoot,
  FastInput      \* octets of input inflate_fast needs to decode one symbol

-----------------------------------------------------------------------------
(* window *)

window(bits) == [p |-> [k \in 0 .. 2^bits - 1 |-> 0], i |-> 0, size |-> 0, bits |-> bits]
capacity(w) == 2^w.bits

window_read(w, pos, n) ==
  LET first == IF w.i >= w.size THEN w.i - pos ELSE (w.i - pos + capacity(w)) % capacity(w)
  IN [k \in 1 .. n |-> w.p[(first + k - 1) % capacity(w)]]

\* Bug: the position is not moved past the octets that wrap around.
window_write_Wraps(w, s) ==
  LET at(k) == (w.i + k - 1) % capacity(w)
      m == capacity(w) - w.i
  IN IF Len(s) >= capacity(w)
     THEN [w EXCEPT !.i = 0, !.size = capacity(w),
                    !.p = [k \in DOMAIN @ |-> s[Len(s) - capacity(w) + k + 1]]]
     ELSE [w EXCEPT !.p = [k \in DOMAIN @ |-> IF \E j \in DOMAIN s : at(j) = k THEN s[CHOOSE j \in DOMAIN s : at(j) = k] ELSE @[k]],
                    !.i = IF Len(s) > m THEN Len(s) ELSE (@ + Len(s)) % capacity(w),
                    !.size = IF Len(s) > m THEN capacity(w) ELSE Min({@ + Len(s), capacity(w)})]

window_write(w, s) ==
  LET at(k) == (w.i + k - 1) % capacity(w)
  IN IF Len(s) >= capacity(w)
     THEN [w EXCEPT !.i = 0, !.size = capacity(w),
                    !.p = [k \in DOMAIN @ |-> s[Len(s) - capacity(w) + k + 1]]]
     ELSE [w EXCEPT !.p = [k \in DOMAIN @ |-> IF \E j \in DOMAIN s : at(j) = k THEN s[CHOOSE j \in DOMAIN s : at(j) = k] ELSE @[k]],
                    !.i = (@ + Len(s)) % capacity(w),
                    !.size = Min({@ + Len(s), capacity(w)})]

-----------------------------------------------------------------------------
(* The state of a stream: mode, last, the bits not yet used, the window and *)
(* what the modes leave for each other.                                     *)

NoTable == inflate_table(<<>>, 1, FALSE)
fixed_lens == inflate_table(StaticLens, LenRoot, FALSE)
fixed_dists == inflate_table([i \in 1 .. 2^StaticDist |-> StaticDist], StaticDist, FALSE)

\* doReset(windowBits)
inflate_reset(windowBits) ==
  [mode |-> "HEAD", last |-> FALSE, bits |-> <<>>, w |-> window(windowBits),
   length |-> 0, offset |-> 0, extra |-> 0, nlen |-> 0, ndist |-> 0, ncode |-> 0,
   lens |-> <<>>, lencode |-> NoTable, distcode |-> NoTable]

\* doReset() with the window it has
inflate_again(s) == [inflate_reset(s.w.bits) EXCEPT !.w.p = s.w.p]

\* A call in progress: the stream s, the input and the position in it, the
\* output and what is left of the room for it.
Call(s, input, room, flush) ==
  [s |-> s, in |-> input, pos |-> 0, out |-> <<>>, room |-> room, flush |-> flush,
   ec |-> "", returned |-> FALSE]

avail(c) == Len(c.in) - c.pos

done(c) ==
  LET keep == c.out # <<>> /\ c.s.mode # "BAD" /\ (c.s.mode \notin {"CHECK", "DONE"} \/ c.flush # "finish")
      idle == (c.pos = 0 /\ c.out = <<>>) \/ c.flush = "finish"
  IN [c EXCEPT !.s.w = IF keep THEN window_write(@, c.out) ELSE @,
               !.ec = IF idle /\ @ = "" THEN "need_buffers" ELSE @, !.returned = TRUE]

\* An error returns without giving the input and output of the call to the caller.
err(c, e) == [c EXCEPT !.s.mode = "BAD", !.ec = e, !.returned = TRUE, !.pos = 0, !.out = <<>>]

Mode(c, m) == [c EXCEPT !.s.mode = m]

-----------------------------------------------------------------------------
(* bitstream *)

\* Bug: a part of an octet that is needed is not fetched.
fill_Short(c, n) ==
  LET k == Min({avail(c), IF n > Len(c.s.bits) THEN (n - Len(c.s.bits)) \div 8 ELSE 0})
  IN [c EXCEPT !.s.bits = @ \o FlattenSeq(SubSeq(c.in, c.pos + 1, c.pos + k)), !.pos = @ + k]

\* fill: as many octets as it takes to have n bits, or all there are
fill(c, n) ==
  LET k == Min({avail(c), IF n > Len(c.s.bits) THEN (n - Len(c.s.bits) + 7) \div 8 ELSE 0})
  IN [c EXCEPT !.s.bits = @ \o FlattenSeq(SubSeq(c.in, c.pos + 1, c.pos + k)), !.pos = @ + k]
has(c, n) == Len(c.s.bits) >= n
drop(c, n) == [c EXCEPT !.s.bits = SubSeq(@, n + 1, Len(@))]
peek(c, n) == FromBits(SubSeq(c.s.bits, 1, n))
flush_byte(c) == drop(c, Len(c.s.bits) % 8)

\* rewind: the whole octets go back to the input
rewind(c) == [c EXCEPT !.pos = @ - Len(c.s.bits) \div 8, !.s.bits = SubSeq(@, 1, Len(@) % 8)]

-----------------------------------------------------------------------------
(* The modes *)

TYPEDO(c0) ==
  LET c == fill(c0, 3)
      c1 == drop([c EXCEPT !.s.last = peek(c, 1) = 1], 3)
      type == FromBits(SubSeq(c.s.bits, 2, 3))
  IN IF c0.s.last THEN Mode(flush_byte(c0), "CHECK")
     ELSE IF ~has(c, 3) THEN done(c)
     ELSE CASE type = 0 -> Mode(c1, "STORED")
            [] type = 1 -> LET t == Mode([c1 EXCEPT !.s.lencode = fixed_lens, !.s.distcode = fixed_dists], "LEN_")
                           IN IF c.flush = "trees" THEN done(t) ELSE t
            [] type = 2 -> Mode(c1, "TABLE")
            [] OTHER -> err(c1, "invalid_block_type")

TYPE(c) == IF c.flush \in {"block", "trees"} THEN done(c) ELSE Mode(c, "TYPEDO")

STORED(c0) ==
  LET c == fill(flush_byte(c0), 32)
      v == peek(c, 16)
      c1 == Mode([c EXCEPT !.s.length = v, !.s.bits = <<>>], "COPY_")
  IN IF ~has(c, 32) THEN done(c)
     ELSE IF FromBits(SubSeq(c.s.bits, 17, 32)) # 65535 - v THEN err(c, "invalid_stored_length")
     ELSE IF c.flush = "trees" THEN done(c1) ELSE c1

COPY(c) ==
  LET n == Min({c.s.length, avail(c), c.room})
  IN IF c.s.length = 0 THEN Mode(c, "TYPE")
     ELSE IF n = 0 THEN done(c)
     ELSE [c EXCEPT !.out = @ \o [i \in 1 .. n |-> FromBits(c.in[c.pos + i])], !.pos = @ + n,
                    !.room = @ - n, !.s.length = @ - n]

TABLE(c0) ==
  LET c == fill(c0, 14)
      c1 == [c EXCEPT !.s.nlen = peek(c, 5) + Literals + 1, !.s.ndist = 1 + FromBits(SubSeq(c.s.bits, 6, 10)),
                      !.s.ncode = 4 + FromBits(SubSeq(c.s.bits, 11, 14)), !.s.lens = <<>>]
  IN IF ~has(c, 14) THEN done(c)
     ELSE IF c1.s.nlen > lCodes \/ c1.s.ndist > dCodes THEN err(c1, "too_many_symbols")
     ELSE Mode(drop(c1, 14), "LENLENS")

\* One length of a code of the code lengths, or the table once they are all there.
LENLENS(c0) ==
  LET c == fill(c0, 3)
      place(k) == CHOOSE i \in 1 .. 19 : bl_order[i] = k - 1
      lens == [k \in 1 .. 19 |-> IF place(k) <= Len(c0.s.lens) THEN c0.s.lens[place(k)] ELSE 0]
      t == inflate_table(lens, 7, TRUE)
  IN IF Len(c0.s.lens) < c0.s.ncode
     THEN IF ~has(c, 3) THEN done(c) ELSE drop([c EXCEPT !.s.lens = Append(@, peek(c, 3))], 3)
     ELSE IF t.error # "" THEN [Mode(c0, "BAD") EXCEPT !.ec = t.error]
     ELSE Mode([c0 EXCEPT !.s.lencode = t, !.s.lens = <<>>], "CODELENS")

\* The two tables of a block.
build_tables(c) ==
  LET t == inflate_table(SubSeq(c.s.lens, 1, c.s.nlen), LenRoot, FALSE)
      d == inflate_table(SubSeq(c.s.lens, c.s.nlen + 1, c.s.nlen + c.s.ndist), DistRoot, FALSE)
      c1 == Mode([c EXCEPT !.s.lencode = t, !.s.distcode = d], "LEN_")
  IN IF c.s.lens[EndBlock + 1] = 0 THEN err(c, "missing_eob")
     ELSE IF t.error # "" THEN err(c, t.error)
     ELSE IF d.error # "" THEN err(c, d.error)
     ELSE IF c.flush = "trees" THEN done(c1) ELSE c1

\* One code of the code lengths: a length, or a repetition.  In a code without symbols every
\* bit is a length 0, until the block turns out to have no end.
CODELENS(c0) ==
  LET c == fill(c0, c0.s.lencode.root)
      found == decoded(c.s.lencode, c.s.bits)
      val == IF found = {} THEN 0 ELSE CHOOSE v \in found : TRUE
      bits == IF found = {} THEN 1 ELSE Len(c.s.lencode.word[val])
      extra == IF val < 16 THEN 0 ELSE <<2, 3, 7>>[val - 15]
      c1 == fill(c, bits + extra)
      copy == (IF val = 18 THEN 11 ELSE 3) + FromBits(SubSeq(c1.s.bits, bits + 1, bits + extra))
      len == IF val = 16 THEN Last(c.s.lens) ELSE 0
  IN IF Len(c0.s.lens) = c0.s.nlen + c0.s.ndist THEN build_tables(c0)
     ELSE IF ~has(c, c.s.lencode.root) THEN done(c)
     ELSE IF val < 16 THEN drop([c EXCEPT !.s.lens = Append(@, val)], bits)
     ELSE IF ~has(c1, bits + extra) THEN done(c1)
     ELSE IF val = 16 /\ c.s.lens = <<>> THEN err(c1, "invalid_bit_length_repeat")
     ELSE IF Len(c.s.lens) + copy > c.s.nlen + c.s.ndist THEN err(c1, "invalid_bit_length_repeat")
     ELSE drop([c1 EXCEPT !.s.lens = @ \o [i \in 1 .. copy |-> len]], bits + extra)

\* The symbol found and what it makes of the call.
literal_or_length(c, sym) ==
  IF sym < Literals THEN Mode([c EXCEPT !.s.length = sym], "LIT")
  ELSE IF sym = EndBlock THEN Mode(c, "TYPE")
  ELSE IF sym >= lCodes THEN err(c, "invalid_literal_length")
  ELSE Mode([c EXCEPT !.s.length = length_base(sym - EndBlock - 1), !.s.extra = LengthExtra[sym - EndBlock]], "LENEXT")

distance(c, sym) ==
  IF sym >= dCodes THEN err(c, "invalid_distance_code")
  ELSE Mode([c EXCEPT !.s.offset = dist_base(sym), !.s.extra = DistExtra[sym + 1]], "DISTEXT")

\* Fetches the bits of one code of a table and hands its symbol on.
symbol(c0, code) ==
  LET table == c0.s[code]
      c == fill(c0, table.root)
      need == second_bits(table, c.s.bits)
      c1 == fill(c, need)
      syms == decoded(table, c1.s.bits)
      sym == CHOOSE s \in syms : TRUE
      found == drop(c1, Len(table.word[sym]))
  IN IF ~has(c, table.root) THEN done(c)
     ELSE IF ~has(c1, need) THEN done(c1)
     ELSE IF code = "lencode"
     THEN IF syms = {} THEN err(c1, "invalid_literal_length") ELSE literal_or_length(found, sym)
     ELSE IF syms = {} THEN err(c1, "invalid_distance_code") ELSE distance(found, sym)

DIST(c) == symbol(c, "distcode")

LENEXT(c0) ==
  LET c == fill(c0, c0.s.extra)
  IN IF ~has(c, c.s.extra) THEN done(c)
     ELSE Mode(drop([c EXCEPT !.s.length = @ + peek(c, c.s.extra)], c.s.extra), "DIST")

DISTEXT(c0) ==
  LET c == fill(c0, c0.s.extra)
  IN IF ~has(c, c.s.extra) THEN done(c)
     ELSE Mode(drop([c EXCEPT !.s.offset = @ + peek(c, c.s.extra)], c.s.extra), "MATCH")

\* n octets that begin offset octets back in the output; they may overlap it
from_output(out, offset, n) == [k \in 1 .. n |-> out[Len(out) - offset + 1 + ((k - 1) % offset)]]

Out(c, s) == [c EXCEPT !.out = @ \o s, !.room = @ - Len(s)]
Put(c, s) == [Out(c, s) EXCEPT !.s.length = @ - Len(s)]

MATCH(c) ==
  LET off == c.s.offset - Len(c.out)
      n == Min({c.s.length, c.room} \cup IF off > 0 THEN {off} ELSE {})
      c1 == Put(c, IF off > 0 THEN window_read(c.s.w, off, n) ELSE from_output(c.out, c.s.offset, n))
  IN IF c.room = 0 THEN done(c)
     ELSE IF off > c.s.w.size THEN err(c, "invalid_distance")
     ELSE IF c1.s.length = 0 THEN Mode(c1, "LEN") ELSE c1

LIT(c) == IF c.room = 0 THEN done(c) ELSE Mode(Put([c EXCEPT !.s.length = 1], <<c.s.length>>), "LEN")

-----------------------------------------------------------------------------
(* inflate_fast *)

\* fill_16 and fill_8: unchecked
grab(c, n) == [c EXCEPT !.s.bits = @ \o FlattenSeq(SubSeq(c.in, c.pos + 1, c.pos + n)), !.pos = @ + n]
at_least(c, n, octets) == IF Len(c.s.bits) < n THEN grab(c, octets) ELSE c

\* dist: from the window first, the rest from the output
fast_copy(c, dist, len) ==
  LET op == dist - Len(c.out)
      n == IF op > 0 THEN Min({len, op}) ELSE 0
      c1 == IF n > 0 THEN Out(c, window_read(c.s.w, op, n)) ELSE c
  IN IF op > c.s.w.size THEN err(c, "invalid_distance")
     ELSE Out(c1, from_output(c1.out, dist, Min({len - n, c1.room})))

fast_distance(c0, len) ==
  LET c == at_least(c0, 15, 2)
      syms == decoded(c.s.distcode, c.s.bits)
      sym == CHOOSE s \in syms : TRUE
      extra == DistExtra[sym + 1]
      c1 == at_least(at_least(drop(c, Len(c.s.distcode.word[sym])), extra, 1), extra, 1)
  IN IF syms = {} THEN err(c, "invalid_distance_code")
     ELSE IF sym >= dCodes THEN err(c, "invalid_distance_code")
     ELSE fast_copy(drop(c1, extra), dist_base(sym) + peek(c1, extra), len)

fast_symbol(c0) ==
  LET c == at_least(c0, 15, 2)
      syms == decoded(c.s.lencode, c.s.bits)
      sym == CHOOSE s \in syms : TRUE
      c1 == drop(c, Len(c.s.lencode.word[sym]))
      extra == LengthExtra[sym - EndBlock]
      c2 == at_least(c1, extra, 1)
  IN IF syms = {} THEN err(c, "invalid_literal_length")
     ELSE IF sym < Literals THEN Out(c1, <<sym>>)
     ELSE IF sym = EndBlock THEN Mode(c1, "TYPE")
     ELSE IF sym >= lCodes THEN err(c1, "invalid_literal_length")
     ELSE fast_distance(drop(c2, extra), length_base(sym - EndBlock - 1) + peek(c2, extra))

RECURSIVE inflate_fast(_)
inflate_fast(c0) ==
  LET c == fast_symbol(c0)
  IN IF c.returned THEN c
     ELSE IF c.s.mode = "TYPE" \/ avail(c) < FastInput \/ c.room < MaxMatch THEN rewind(c)
     ELSE inflate_fast(c)

LEN(c) ==
  IF avail(c) >= FastInput /\ c.room >= MaxMatch
  THEN inflate_fast(c)
  ELSE symbol(c, "lencode")

-----------------------------------------------------------------------------
(* doWrite *)

step(c) ==
  CASE c.s.mode = "HEAD"     -> Mode(c, "TYPEDO")
    [] c.s.mode = "TYPE"     -> TYPE(c)
    [] c.s.mode = "TYPEDO"   -> TYPEDO(c)
    [] c.s.mode = "STORED"   -> STORED(c)
    [] c.s.mode = "COPY_"    -> Mode(c, "COPY")
    [] c.s.mode = "COPY"     -> COPY(c)
    [] c.s.mode = "TABLE"    -> TABLE(c)
    [] c.s.mode = "LENLENS"  -> LENLENS(c)
    [] c.s.mode = "CODELENS" -> CODELENS(c)
    [] c.s.mode = "LEN_"     -> Mode(c, "LEN")
    [] c.s.mode = "LEN"      -> LEN(c)
    [] c.s.mode = "LENEXT"   -> LENEXT(c)
    [] c.s.mode = "DIST"     -> DIST(c)
    [] c.s.mode = "DISTEXT"  -> DISTEXT(c)
    [] c.s.mode = "MATCH"    -> MATCH(c)
    [] c.s.mode = "LIT"      -> LIT(c)
    [] c.s.mode = "CHECK"    -> Mode(c, "DONE")
    [] c.s.mode = "DONE"     -> done([c EXCEPT !.ec = "end_of_stream"])
    [] c.s.mode = "BAD"      -> done(c)

RECURSIVE steps(_)
steps(c) == IF c.returned THEN c ELSE steps(step(c))

\* The call that was begun: the stream, how much input it took, its output, its error.
inflate_write(s, input, room, flush) ==
  steps(Call(IF s.mode = "TYPE" THEN [s EXCEPT !.mode = "TYPEDO"] ELSE s, input, room, flush))
=============================================================================
