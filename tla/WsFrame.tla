------------------------------ MODULE WsFrame ------------------------------
(***************************************************************************)
(* The octets of a frame: its header (frame.hpp and the read_fh functions  *)
(* of stream_base.hpp), the payload of a close frame, and the mask.        *)
(*                                                                         *)
(* The 64 bits of a length are scaled to the last 24 of them.              *)
(***************************************************************************)
EXTENDS Integers, Sequences, SequencesExt, Bitwise, Utf8Checker

SizeMax == 2^24 - 1

is_reserved(op) == op \in 3 .. 7 \/ op \in 11 .. 15
is_control(op) == op >= 8
Cont == 0
Text == 1
Binary == 2
Close == 8
Ping == 9
Pong == 10

none == 0
normal == 1000
protocol_error == 1002
bad_payload == 1007
too_big == 1009

is_valid_close_code(v) ==
  \/ v \in 1000 .. 1003 \/ v \in 1007 .. 1013
  \/ v >= 3000

Bit(on, value) == IF on THEN value ELSE 0
big_endian(v, n) == [i \in 1 .. n |-> IF n - i > 2 THEN 0 ELSE (v \div 256^(n - i)) % 256]
to_native(b) == FoldLeft(LAMBDA v, o : (v * 256 + o) % (SizeMax + 1), 0, b)

\* frame_header: op, fin, mask, rsv1, rsv2, rsv3, len and key, the four octets of it
FrameHeader(op, fin, rsv1, len, key) ==
  [op |-> op, fin |-> fin, mask |-> key # <<>>, rsv1 |-> rsv1, rsv2 |-> FALSE, rsv3 |-> FALSE, len |-> len, key |-> key]

\* Bug: a length of 126 is written in one octet.
write_header_126(fh) ==
  LET form == IF fh.len <= 126 THEN <<fh.len, <<>>>> ELSE <<126, big_endian(fh.len, 2)>>
  IN <<Bit(fh.fin, 128) + Bit(fh.rsv1, 64) + Bit(fh.rsv2, 32) + Bit(fh.rsv3, 16) + fh.op,
       Bit(fh.mask, 128) + form[1]>> \o form[2] \o fh.key

write_header(fh) ==
  LET form == IF fh.len <= 125 THEN <<fh.len, <<>>>>
              ELSE IF fh.len <= 65535 THEN <<126, big_endian(fh.len, 2)>>
              ELSE <<127, big_endian(fh.len, 8)>>
  IN <<Bit(fh.fin, 128) + Bit(fh.rsv1, 64) + Bit(fh.rsv2, 32) + Bit(fh.rsv3, 16) + fh.op,
       Bit(fh.mask, 128) + form[1]>> \o form[2] \o fh.key

\* The first two octets: what they say, and how many octets of the header follow.
fixed_header(b) ==
  [op |-> b[1] % 16, fin |-> b[1] >= 128, mask |-> b[2] >= 128, rsv1 |-> (b[1] \div 64) % 2 = 1,
   rsv2 |-> (b[1] \div 32) % 2 = 1, rsv3 |-> (b[1] \div 16) % 2 = 1, len |-> b[2] % 128, key |-> <<>>]
rest_of_header(fh) == (IF fh.len = 126 THEN 2 ELSE IF fh.len = 127 THEN 8 ELSE 0) + Bit(fh.mask, 4)

\* The close code of a fixed header that is wrong, given rd_.cont, pmd_ and role_.
read_fh1(fh, cont, pmd, role) ==
  IF \/ fh.op \in {Text, Binary} /\ (cont \/ (fh.rsv1 /\ ~pmd) \/ fh.rsv2 \/ fh.rsv3)
     \/ fh.op = Cont /\ (~cont \/ fh.rsv1 \/ fh.rsv2 \/ fh.rsv3)
     \/ is_reserved(fh.op)
     \/ is_control(fh.op) /\ (~fh.fin \/ fh.len > 125 \/ fh.rsv1 \/ fh.rsv2 \/ fh.rsv3)
     \/ fh.mask # (role = "server")
  THEN protocol_error ELSE none

\* The variable header b of fh: the frame header and the close code if it is wrong.
read_fh2(fh, b, size) ==
  LET n == IF fh.len = 126 THEN 2 ELSE IF fh.len = 127 THEN 8 ELSE 0
      len == IF n = 0 THEN fh.len ELSE to_native(SubSeq(b, 1, n))
      least == IF n = 2 THEN 126 ELSE IF n = 8 THEN 65536 ELSE 0
      full == [fh EXCEPT !.len = len, !.key = SubSeq(b, n + 1, Len(b))]
  IN [fh |-> full,
      code |-> IF len < least THEN protocol_error
               ELSE IF fh.op = Cont /\ size > SizeMax - len THEN too_big ELSE none]

\* The payload of a close frame: its code and reason, and the close code if it is wrong.
read_close(b) ==
  LET code == b[1] * 256 + b[2]
      reason == SubSeq(b, 3, Len(b))
      wrong == [code |-> none, reason |-> <<>>, error |-> protocol_error]
  IN IF b = <<>> THEN [code |-> none, reason |-> <<>>, error |-> none]
     ELSE IF Len(b) = 1 \/ ~is_valid_close_code(code) \/ ~check_utf8(reason) THEN wrong
     ELSE [code |-> code, reason |-> reason, error |-> none]

-----------------------------------------------------------------------------
(* The mask *)

XorKey(s, key, from) == [i \in 1 .. Len(s) |-> s[i] ^^ key[((from + i - 2) % Len(key)) + 1]]

\* prepared_key of 8 octets
prepare_key(key) == key \o key
ror(key, n) == LET k == n % Len(key) IN SubSeq(key, k + 1, Len(key)) \o SubSeq(key, 1, k)

\* Bug: the key is not turned after the octets up to the alignment.
mask_inplace_NotTurned(s, key, align) ==
  LET i == align % 8
      d == IF Len(s) >= 8 /\ i # 0 THEN 8 - i ELSE 0
      rest == SubSeq(s, d + 1, Len(s))
  IN [out |-> XorKey(SubSeq(s, 1, d), key, 1) \o XorKey(rest, key, 1), key |-> ror(key, Len(rest) % 8)]

\* The octets s at an address of that alignment, and the key for the octets behind them.
mask_inplace(s, key, align) ==
  LET i == align % 8
      d == IF Len(s) >= 8 /\ i # 0 THEN 8 - i ELSE 0
      turned == ror(key, d)
      rest == SubSeq(s, d + 1, Len(s))
      words == 8 * (Len(rest) \div 8)
  IN [out |-> XorKey(SubSeq(s, 1, d), key, 1) \o XorKey(SubSeq(rest, 1, words), turned, 1)
              \o XorKey(SubSeq(rest, words + 1, Len(rest)), turned, 1),
      key |-> ror(turned, Len(rest) % 8)]

\* write_ping and write_close: a control frame.  key is <<>> for a server.
control_frame(op, payload, key, align) ==
  write_header(FrameHeader(op, TRUE, FALSE, Len(payload), key))
  \o (IF key = <<>> THEN payload ELSE mask_inplace(payload, prepare_key(key), align).out)

write_ping(op, data, key, align) == control_frame(op, data, key, align)

\* The code and the reason are masked one after the other.
write_close(cr, key, align) ==
  LET code == <<cr.code \div 256, cr.code % 256>>
      masked == mask_inplace(code, prepare_key(key), align)
  IN IF cr.code = none THEN control_frame(Close, <<>>, key, align)
     ELSE IF key = <<>> THEN control_frame(Close, code \o cr.reason, key, align)
     ELSE write_header(FrameHeader(Close, TRUE, FALSE, 2 + Len(cr.reason), key))
          \o masked.out \o mask_inplace(cr.reason, masked.key, align + 2).out
=============================================================================
