----------------------------- MODULE ZlibStream -----------------------------
(***************************************************************************)
(* A program compresses data with a deflate_stream, in calls of any size   *)
(* with any room for the output, and another decompresses what comes out   *)
(* with an inflate_stream, again in calls of any size.                     *)
(*                                                                         *)
(* A session is a record of the data, the settings and what the programs   *)
(* may choose from in a call:                                              *)
(*   data, level, strategy, w_bits, lit     for deflate_stream::reset      *)
(*   memory          what uninitialised memory holds                       *)
(*   gives, rooms    sizes of the input and of the room of a write         *)
(*   flushes         flush values of a write                               *)
(*   final           flush value of the writes that end the stream         *)
(*   params          settings params() may be called with                  *)
(*   feeds, spaces   the same sizes for the inflate_stream                 *)
(*   rounds          how often the data is sent                            *)
(***************************************************************************)
EXTENDS Deflate, Inflate

CONSTANT Sessions

VARIABLES
  session,
  d,        \* the deflate_stream and its z_params
  left,     \* data the program has not passed on yet
  again,    \* the flush of a write that had too little room, "" if none
  synced,   \* how much of the data is known to be flushed
  ended,    \* the final flush is complete
  stream,   \* what came out of the deflate_stream
  z,        \* the inflate_stream
  fed,      \* how much of the stream it has taken
  got,      \* what came out of it
  result,   \* [ec] of its last call
  round     \* which of the messages this is

vars == <<session, d, left, again, synced, ended, stream, z, fed, got, result, round>>

Init ==
  /\ session \in Sessions
  /\ d = deflate_reset(session.level, session.w_bits, session.lit, session.strategy, session.memory)
  /\ left = session.data /\ again = "" /\ synced = 0 /\ ended = FALSE /\ stream = <<>>
  /\ z = inflate_reset(session.w_bits) /\ fed = 0 /\ got = <<>> /\ result = [ec |-> ""]
  /\ round = 1

taken == Len(session.data) - Len(left) - Len(d.in)

\* The z_params of a call: n more octets of data and the room.
Passing(n, room) == [d EXCEPT !.in = @ \o SubSeq(left, 1, n), !.out = <<>>, !.avail_out = room]

After(r, n) ==
  /\ d' = [r.d EXCEPT !.out = <<>>, !.avail_out = 0]
  /\ left' = SubSeq(left, n + 1, Len(left))
  /\ stream' = stream \o r.d.out
  /\ UNCHANGED <<session, z, fed, got, result, round>>

\* The flush of a write that passes k octets on.
Flushed(r, flush) ==
  LET more == r.d.avail_out = 0
  IN /\ again' = IF more THEN flush ELSE ""
     /\ synced' = IF flush \in {"sync", "full", "partial"} /\ ~more THEN taken' ELSE synced
     /\ ended' = (flush = session.final /\ ~more)

\* A write that returns without room left is called again with the same flush.
Write ==
  /\ ~ended
  /\ \E n \in session.gives, room \in session.rooms, flush \in session.flushes \cup {session.final} :
       LET k == IF again # "" THEN 0 ELSE Min({n, Len(left)})
       IN /\ IF again # "" THEN flush = again ELSE k > 0 \/ flush = session.final
          /\ flush = session.final => k = Len(left)
          /\ \E r \in {doWrite(Passing(k, room), flush)} : After(r, k) /\ Flushed(r, flush)

\* params(), with enough room for what it flushes
Params ==
  /\ left # <<>> /\ again = ""
  /\ \E p \in session.params :
       /\ d.level # p[1]
       /\ \E r \in {doParams(Passing(0, 1000), p[1], p[2])} : After(r, 0)
  /\ UNCHANGED <<again, synced, ended>>

\* tune()
Tune ==
  /\ left # <<>> /\ d.inited /\ d.lazy # 3
  /\ session.params # {}
  /\ d' = doTune(d, 3, 3, 3, 8)
  /\ UNCHANGED <<session, left, again, synced, ended, stream, z, fed, got, result, round>>

\* What follows the stream: the last bits are decoded once more bits are there.
Padded == stream \o IF session.final = "finish" THEN [i \in 1 .. 2 |-> [b \in 1 .. 8 |-> 0]] ELSE <<>>

\* A call of the other end's write; it stops at an error, which need_buffers is too:
\* there is no more input, or nothing comes of it.
Read ==
  /\ ended /\ result.ec = ""
  /\ \E n \in session.feeds, room \in session.spaces :
       \E c \in {inflate_write(z, SubSeq(Padded, fed + 1, Min({fed + n, Len(Padded)})), room, "sync")} :
         /\ z' = c.s /\ fed' = fed + c.pos /\ got' = got \o c.out
         /\ result' = [ec |-> c.ec]
  /\ UNCHANGED <<session, d, left, again, synced, ended, stream, round>>

\* reset() of both streams, and the data once more
Reset ==
  /\ ended /\ got = session.data /\ round < session.rounds
  /\ d' = deflate_again(d) /\ z' = inflate_again(z)
  /\ left' = session.data /\ synced' = 0 /\ ended' = FALSE /\ stream' = <<>> /\ fed' = 0 /\ got' = <<>>
  /\ result' = [result EXCEPT !.ec = ""] /\ round' = round + 1
  /\ UNCHANGED <<session, again>>

Next == Write \/ Params \/ Tune \/ Read \/ Reset
\* Both programs go on: WF_vars(Write) and WF_vars(Read), as Write is enabled until
\* the stream has ended and Read from then on until it stops.
Fairness ==
  /\ []<>ended \/ []<><<Write>>_vars
  /\ []<>(~ended \/ result.ec # "") \/ []<><<ended>>_vars

Spec == Init /\ [][Next]_vars /\ Fairness

-----------------------------------------------------------------------------
(* Properties *)

\* Type invariant: the positions of the search are in the window, the window of
\* the inflate_stream in its bounds.
TypeOK ==
  /\ d.inited => d.strstart + d.lookahead \in 0 .. window_size(d) /\ d.block_start <= d.strstart
  /\ \A h \in DOMAIN d.head : d.head[h] \in 0 .. window_size(d) - 1
  /\ Len(d.bits) < 8 /\ Len(d.sym) < d.lit_bufsize
  /\ z.w.i \in 0 .. capacity(z.w) - 1 /\ z.w.size \in 0 .. capacity(z.w)
  /\ fed \in 0 .. Len(Padded)

\* What the inflate_stream puts out is the data, whatever the sizes of the calls
\* on both sides, and it never finds an error in it.
RoundTrip ==
  /\ IsPrefix(got, session.data)
  /\ result.ec \in {"", "need_buffers", "end_of_stream"}
  /\ result.ec = "end_of_stream" => got = session.data

\* When a flush is complete all data passed on so far can be decompressed from
\* what came out, in one call.
FlushDelivers ==
  synced = taken /\ ~ended /\ again = "" =>
    inflate_write(inflate_reset(session.w_bits), stream, Len(session.data) + 1, "sync").out
      = SubSeq(session.data, 1, taken)

\* The assertions of deflate_stream hold: the codes of a block are complete and their
\* numbers and repeats as send_all_trees and send_tree suppose, the block is as long
\* as was predicted when its kind was chosen, no symbol of it is overwritten by the
\* pending octets that share its memory, and matches and runs lie in the window.
AssertsHold == d.asserts

\* The output that waits for room fits in the buffer that was allocated for it.
PendingFits == Len(d.pending) <= 4 * d.lit_bufsize

\* The compressor's window, hash chains, codes and waiting output are as its assertions
\* and allocations suppose.
StateIsSound == TypeOK /\ AssertsHold /\ PendingFits

\* All data is delivered in the end.
Delivered == []<>(got = session.data)
=============================================================================
