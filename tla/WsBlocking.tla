----------------------------- MODULE WsBlocking -----------------------------
(***************************************************************************)
(* Two ends of a websocket connection, each a program of one thread that   *)
(* makes the blocking calls of a script and then reads until an error:     *)
(* write_frame, write, ping, pong, close, read_frame and read, and the     *)
(* teardown of the connection.  The wire carries octets; one action is     *)
(* one call of the socket.                                                 *)
(*                                                                         *)
(* zlib is taken from its contract: an octet is compressed to one number,  *)
(* which can only be decompressed at the same place behind a reset, and    *)
(* the flush ends with BlockEnd, whose other four octets are not sent.     *)
(* An end whose script is "raw" is any program that speaks to ours.        *)
(***************************************************************************)
EXTENDS WsFrame, FiniteSets, FiniteSetsExt

CONSTANTS
  Sessions    \* [calls, op, pmd, takeover, autofrag, wr_buf, rd_buf, msg_max, align, keys, ssl,
              \*  latency, breaks, text, expect]: the scripts and the options of both ends

VARIABLES
  session,
  ws,       \* the state of the two streams
  op,       \* the call each end is in
  script,   \* the calls still to be made
  wire,     \* octets on the way to each end
  shut,     \* ends that have shut down sending
  broken,
  wrote, got,  \* messages written and read
  said         \* close codes sent

vars == <<session, ws, op, script, wire, shut, broken, wrote, got, said>>

End == {"client", "server"}
Peer(e) == IF e = "client" THEN "server" ELSE "client"

-----------------------------------------------------------------------------
(* permessage-deflate *)

BlockEnd == 2^12
Coded(o, place) == 256 * ((place % 4) + 1) + o

deflate_stream == [pend |-> <<>>, place |-> 0]
inflate_stream == [place |-> 0, ended |-> FALSE]

compressed(zo, data) == [i \in 1 .. Len(data) |-> Coded(data[i], zo.place + i - 1)]

\* deflate_stream::write without a flush puts out some of what it holds: all that is beyond
\* its latency, as far as there is room.
Emits(zo, data, room, latency) ==
  LET all == Len(zo.pend) + Len(data)
  IN {n \in 0 .. all : n <= room /\ (n = room \/ n >= all - latency)}

\* One buffer of output: the octets, whether more calls are needed, the input left.
deflate(zo, data, room, fin, emit, latency) ==
  LET all == zo.pend \o compressed(zo, data)
      kept == Min({Len(all) - emit, latency})
      taken == Len(data) - (Len(all) - emit - kept)
      left == SubSeq(data, taken + 1, Len(data))
      flush == fin /\ emit < room /\ left = <<>>
      out == IF flush THEN SubSeq(all, 1, Min({Len(all), room})) ELSE SubSeq(all, 1, emit)
      ended == flush /\ room - Len(out) >= 6
  IN [out |-> IF ended THEN Append(out, BlockEnd) ELSE out, more |-> ~ended, left |-> left,
      zo |-> [pend |-> SubSeq(all, Len(out) + 1, Len(all) - Len(left)), place |-> zo.place + taken]]

\* The octets of in, and with the last of a message the four octets of the flush.
inflate(zi, in, last) ==
  LET upto[i \in 0 .. Len(in)] ==
        IF i = 0 THEN [ok |-> TRUE, out |-> <<>>, zi |-> zi]
        ELSE LET p == upto[i - 1]
                 o == in[i] % 256
             IN IF p.zi.ended \/ ~p.ok THEN [p EXCEPT !.ok = FALSE]
                ELSE IF in[i] = BlockEnd THEN [p EXCEPT !.zi.ended = TRUE]
                ELSE IF in[i] # Coded(o, p.zi.place) THEN [p EXCEPT !.ok = FALSE]
                ELSE [ok |-> TRUE, out |-> Append(p.out, o), zi |-> [p.zi EXCEPT !.place = @ + 1]]
      r == upto[Len(in)]
  IN IF last THEN [r EXCEPT !.ok = @ /\ r.zi.ended, !.zi.ended = FALSE] ELSE r

-----------------------------------------------------------------------------
stream == [failed |-> FALSE, wr_close |-> FALSE, rd_cont |-> FALSE, rd_set |-> FALSE, rd_op |-> Text, rd_size |-> 0,
           utf8 |-> utf8_checker, wr_cont |-> FALSE, zo |-> deflate_stream, zi |-> inflate_stream,
           keys |-> 0, cr |-> [code |-> none, reason |-> <<>>]]
Idle == [at |-> "idle", ec |-> "", fh |-> FrameHeader(0, FALSE, FALSE, 0, <<>>), key |-> <<>>, remain |-> 0,
         code |-> none, data |-> <<>>, fin |-> FALSE, db |-> <<>>]

Init ==
  /\ session \in Sessions
  /\ ws = [e \in End |-> stream] /\ op = [e \in End |-> Idle] /\ script = session.calls
  /\ wire = [e \in End |-> <<>>] /\ shut = {} /\ broken = FALSE
  /\ wrote = [e \in End |-> <<>>] /\ got = [e \in End |-> <<>>] /\ said = [e \in End |-> <<>>]

Raw(e) == session.calls[e] # <<>> /\ session.calls[e][1].call = "raw"

\* maskgen_: never 0
maskgen(e) == session.keys[(ws[e].keys % Len(session.keys)) + 1]
Key(e) == IF e = "client" THEN maskgen(e) ELSE <<>>
Keyed(w, e) == IF e = "client" THEN [w EXCEPT !.keys = @ + 1] ELSE w

\* The call has returned: the program makes the next one, or ends with an error.
Return(o) == [Idle EXCEPT !.db = o.db]
Error(o, ec) == [Idle EXCEPT !.at = "done", !.ec = ec, !.code = o.code]

\* boost::asio::write to the socket, and what comes of it
Put(e, octets, w, o) ==
  /\ wire' = IF broken THEN wire ELSE [wire EXCEPT ![Peer(e)] = @ \o octets]
  /\ ws' = [ws EXCEPT ![e] = [Keyed(w, e) EXCEPT !.failed = broken]]
  /\ op' = [op EXCEPT ![e] = IF broken THEN Error(o, "error") ELSE o]

Says(e, code) == said' = [said EXCEPT ![e] = Append(@, code)]
Others == UNCHANGED <<session, shut, broken, got>>

-----------------------------------------------------------------------------
(* The calls *)

\* write_frame: the header of the first frame
WriteFrame(e, c) ==
  LET fh == FrameHeader(IF ws[e].wr_cont THEN Cont ELSE session.op, FALSE, ~ws[e].wr_cont /\ session.pmd, 0, <<>>)
  IN /\ op' = [op EXCEPT ![e] = [Return(@) EXCEPT !.at = "frame", !.fh = fh, !.data = c.data, !.fin = c.fin]]
     /\ UNCHANGED <<ws, wire, said>>

\* ping and pong do not say that the stream has failed.
PingPong(e, c) ==
  /\ wire' = IF broken THEN wire ELSE [wire EXCEPT ![Peer(e)] = @ \o write_ping(c.op, c.data, Key(e), session.align)]
  /\ ws' = [ws EXCEPT ![e] = Keyed(@, e)]
  /\ op' = [op EXCEPT ![e] = IF broken THEN Error(@, "error") ELSE @]
  /\ UNCHANGED said

CloseCall(e, c) ==
  /\ ~ws[e].wr_close /\ Says(e, c.cr.code)
  /\ Put(e, write_close(c.cr, Key(e), session.align), [ws[e] EXCEPT !.wr_close = TRUE], op[e])

ReadCall(e) == op' = [op EXCEPT ![e].at = "fh1"] /\ UNCHANGED <<ws, wire, said>>

\* The next call of the program: of its script, or read.
Call(e) ==
  /\ op[e].at = "idle" /\ ~Raw(e)
  /\ IF script[e] = <<>> THEN ReadCall(e) /\ UNCHANGED script
     ELSE LET c == Head(script[e])
          IN /\ script' = [script EXCEPT ![e] = Tail(@)]
             /\ \/ c.call = "write" /\ WriteFrame(e, c)
                \/ c.call = "ping" /\ PingPong(e, c)
                \/ c.call = "close" /\ CloseCall(e, c)
                \/ c.call = "read" /\ ReadCall(e)
  /\ UNCHANGED wrote /\ Others

\* The message that ends with this call, if the call succeeds.
Written(e, data, ends) ==
  LET open == wrote[e] # <<>> /\ ~Last(wrote[e]).fin
      before == IF open THEN Front(wrote[e]) ELSE wrote[e]
      part == IF open THEN Last(wrote[e]).data ELSE <<>>
  IN wrote' = IF broken THEN wrote
              ELSE [wrote EXCEPT ![e] = Append(before, [op |-> session.op, data |-> part \o data, fin |-> ends])]

Masked(e, octets, key) == IF key = <<>> THEN octets ELSE mask_inplace(octets, prepare_key(key), 0).out

fin_bit(fin, autofrag, left) == fin /\ (autofrag => left = <<>>)

\* One write of write_frame without compression: a frame, or the first part of one.
SendFrame(e) ==
  /\ op[e].at = "frame" /\ ~session.pmd
  /\ LET o == op[e]
         whole == ~session.autofrag /\ e = "server"
         n == IF whole THEN Len(o.data) ELSE Min({Len(o.data), session.wr_buf})
         left == SubSeq(o.data, n + 1, Len(o.data))
         fin == fin_bit(o.fin, session.autofrag, left)
         len == IF session.autofrag THEN n ELSE Len(o.data)
         fh == [o.fh EXCEPT !.fin = fin, !.len = len, !.mask = e = "client", !.key = Key(e)]
         sent == SubSeq(o.data, 1, n)
         m == mask_inplace(sent, prepare_key(Key(e)), 0)
         cont == IF e = "client" /\ session.autofrag THEN ~fin ELSE ~o.fin
         next == IF left = <<>> THEN Return(o)
                 ELSE [o EXCEPT !.data = left, !.at = IF session.autofrag THEN "frame" ELSE "part",
                                !.fh.op = Cont, !.key = IF e = "client" THEN m.key ELSE <<>>]
     IN /\ Put(e, write_header(fh) \o Masked(e, sent, Key(e)), [ws[e] EXCEPT !.wr_cont = cont], next)
        /\ Written(e, sent, o.fin /\ left = <<>>)
  /\ UNCHANGED <<script, said>> /\ Others

\* The rest of a masked frame, with the key turned on
SendPart(e) ==
  /\ op[e].at = "part"
  /\ LET o == op[e]
         n == Min({Len(o.data), session.wr_buf})
         m == mask_inplace(SubSeq(o.data, 1, n), o.key, 0)
         left == SubSeq(o.data, n + 1, Len(o.data))
     IN /\ Put(e, m.out, [ws[e] EXCEPT !.keys = @ - 1],
               IF left = <<>> THEN Return(o) ELSE [o EXCEPT !.data = left, !.key = m.key])
        /\ Written(e, SubSeq(o.data, 1, n), o.fin /\ left = <<>>)
  /\ UNCHANGED <<script, said>> /\ Others

\* Who starts each message with an empty window
forgets(e) == e \in session.takeover

\* One buffer of write_frame with compression
SendDeflated(e) ==
  /\ op[e].at = "frame" /\ session.pmd
  /\ LET o == op[e]
         w == ws[e]
     IN \E emit \in Emits(w.zo, o.data, session.wr_buf, session.latency) :
          LET d == deflate(w.zo, o.data, session.wr_buf, o.fin, emit, session.latency)
              fh == [o.fh EXCEPT !.fin = ~d.more, !.len = Len(d.out), !.mask = e = "client", !.key = Key(e)]
              zo == IF ~d.more /\ forgets(e) THEN deflate_stream ELSE d.zo
              next == IF d.more THEN [o EXCEPT !.data = d.left, !.fh.op = Cont, !.fh.rsv1 = FALSE] ELSE Return(o)
          IN IF d.out = <<>>
             THEN /\ op' = [op EXCEPT ![e] = [Return(o) EXCEPT !.at = IF o.fin \/ d.left # <<>> THEN "assert" ELSE "idle"]]
                  /\ ws' = [ws EXCEPT ![e].zo = d.zo]
                  /\ UNCHANGED wire /\ Written(e, o.data, FALSE)
             ELSE /\ Put(e, write_header(fh) \o Masked(e, d.out, Key(e)), [w EXCEPT !.zo = zo, !.wr_cont = ~o.fin], next)
                  /\ Written(e, SubSeq(o.data, 1, Len(o.data) - Len(d.left)), ~d.more)
  /\ UNCHANGED <<script, said>> /\ Others

-----------------------------------------------------------------------------
(* read_frame *)

\* boost::asio::read of n octets: there, or never to come
Ready(e, n) == Len(wire[e]) >= n
Never(e, n) == ~Ready(e, n) /\ (broken \/ Peer(e) \in shut)
Take(e, n) == wire' = [wire EXCEPT ![e] = SubSeq(@, n + 1, Len(@))]
Next2(e, w, o) == ws' = [ws EXCEPT ![e] = w] /\ op' = [op EXCEPT ![e] = o]
Failing(o, code) == [o EXCEPT !.at = "fail", !.code = code]
ReadOthers == UNCHANGED <<session, script, shut, broken, wrote>>

\* How many octets the step waits for
Wants(o) ==
  CASE o.at = "fh1" -> 2 [] o.at = "fh2" -> rest_of_header(o.fh) [] o.at = "control" -> o.fh.len
    [] o.at = "payload" -> 1 [] o.at = "inflate" -> Min({o.remain, 1}) [] OTHER -> 0

ReadError(e) ==
  /\ op[e].at \in {"fh1", "fh2", "control", "payload", "inflate"} /\ Never(e, Wants(op[e]))
  /\ Next2(e, [ws[e] EXCEPT !.failed = TRUE], Error(op[e], "error"))
  /\ UNCHANGED <<wire, got, said>> /\ ReadOthers

ReadFixedHeader(e) ==
  /\ op[e].at = "fh1" /\ Ready(e, 2) /\ Take(e, 2)
  /\ LET fh == fixed_header(wire[e])
         code == read_fh1(fh, ws[e].rd_cont, session.pmd, e)
     IN Next2(e, IF code = none /\ fh.op \in {Text, Binary} THEN [ws[e] EXCEPT !.rd_set = session.pmd /\ fh.rsv1] ELSE ws[e],
              IF code # none THEN Failing(op[e], code) ELSE [op[e] EXCEPT !.at = "fh2", !.fh = fh])
  /\ UNCHANGED <<got, said>> /\ ReadOthers

\* The whole frame has been read: the message too, if the frame is final.
FrameDone(e, w, o) ==
  IF o.fh.fin
  THEN /\ got' = [got EXCEPT ![e] = Append(@, [op |-> w.rd_op, data |-> o.db])]
       /\ Next2(e, w, Idle)
  ELSE UNCHANGED got /\ Next2(e, w, [o EXCEPT !.at = "fh1"])

\* read_fh2, and where to go on.  The limit is one of messages not compressed.
ReadVariableHeader(e) ==
  /\ op[e].at = "fh2" /\ Ready(e, rest_of_header(op[e].fh)) /\ Take(e, rest_of_header(op[e].fh))
  /\ LET n == rest_of_header(op[e].fh)
         r == read_fh2(op[e].fh, SubSeq(wire[e], 1, n), ws[e].rd_size)
         fh == r.fh
         w == IF is_control(fh.op) \/ r.code # none THEN ws[e]
              ELSE [ws[e] EXCEPT !.rd_cont = ~fh.fin, !.rd_op = IF fh.op = Cont THEN @ ELSE fh.op,
                                 !.rd_size = IF fh.op = Cont THEN @ ELSE 0]
         o == [op[e] EXCEPT !.fh = fh, !.remain = fh.len, !.key = prepare_key(fh.key)]
         plain == ~(session.pmd /\ w.rd_set)
         over == session.msg_max # 0 /\ fh.len > session.msg_max - w.rd_size
         sized == [w EXCEPT !.rd_size = @ + fh.len]
     IN IF r.code # none THEN Next2(e, w, Failing(o, r.code)) /\ UNCHANGED got
        ELSE IF is_control(fh.op) THEN Next2(e, w, [o EXCEPT !.at = "control"]) /\ UNCHANGED got
        ELSE IF fh.len = 0 /\ ~fh.fin THEN Next2(e, w, [o EXCEPT !.at = "fh1"]) /\ UNCHANGED got
        ELSE IF ~plain THEN Next2(e, w, [o EXCEPT !.at = "inflate"]) /\ UNCHANGED got
        ELSE IF over THEN Next2(e, w, Failing(o, too_big)) /\ UNCHANGED got
        ELSE IF fh.len = 0 THEN FrameDone(e, sized, o)
        ELSE Next2(e, sized, [o EXCEPT !.at = "payload"]) /\ UNCHANGED got
  /\ UNCHANGED said /\ ReadOthers

\* Bug: the peer's close is answered though a close has been sent.
answers_Always(w) == TRUE

answers(w) == ~w.wr_close

ReadControl(e) ==
  /\ op[e].at = "control" /\ Ready(e, op[e].fh.len)
  /\ LET o == op[e]
         octets == SubSeq(wire[e], 1, o.fh.len)
         payload == IF o.fh.mask THEN mask_inplace(octets, o.key, session.align).out ELSE octets
         cr == read_close(payload)
         heard == [ws[e] EXCEPT !.cr = [code |-> cr.code, reason |-> cr.reason]]
         answer == IF cr.code = none THEN normal ELSE cr.code
         reply(bytes, w, next) ==
           /\ wire' = IF broken THEN [wire EXCEPT ![e] = SubSeq(@, o.fh.len + 1, Len(@))]
                      ELSE [wire EXCEPT ![e] = SubSeq(@, o.fh.len + 1, Len(@)), ![Peer(e)] = @ \o bytes]
           /\ Next2(e, [Keyed(w, e) EXCEPT !.failed = broken], IF broken THEN Error(o, "error") ELSE next)
         goes_on(w, next) == Take(e, o.fh.len) /\ Next2(e, w, next) /\ UNCHANGED said
     IN \/ /\ o.fh.op = Ping /\ UNCHANGED said
           /\ reply(write_ping(Pong, payload, Key(e), session.align), ws[e], [o EXCEPT !.at = "fh1"])
        \/ o.fh.op = Pong /\ goes_on(ws[e], [o EXCEPT !.at = "fh1"])
        \/ o.fh.op = Close /\ cr.error # none /\ goes_on(ws[e], Failing(o, cr.error))
        \/ /\ o.fh.op = Close /\ cr.error = none /\ answers(ws[e]) /\ Says(e, answer)
           /\ reply(write_close([code |-> answer, reason |-> <<>>], Key(e), session.align),
                    [heard EXCEPT !.wr_close = TRUE], [o EXCEPT !.at = "teardown"])
        \/ o.fh.op = Close /\ cr.error = none /\ ~answers(ws[e]) /\ goes_on(heard, [o EXCEPT !.at = "teardown"])
  /\ UNCHANGED got /\ ReadOthers

\* The checker over new octets of the message, and at its end
checked(w, octets, last) ==
  LET c == utf8_write(w.utf8, octets)
  IN IF w.rd_op # Text THEN [ok |-> TRUE, w |-> w]
     ELSE [ok |-> c.ok /\ (last => utf8_finish(c)),
           w |-> [w EXCEPT !.utf8 = IF last \/ ~c.ok THEN utf8_checker ELSE [need |-> c.need, have |-> c.have]]]

ReadPayload(e) ==
  /\ op[e].at = "payload"
  /\ \E n \in 1 .. Min({op[e].remain, Len(wire[e])}) :
       LET o == op[e]
           octets == SubSeq(wire[e], 1, n)
           m == mask_inplace(octets, o.key, session.align + Len(o.db))
           plain == IF o.fh.mask THEN m.out ELSE octets
           c == checked(ws[e], plain, n = o.remain /\ o.fh.fin)
           next == [o EXCEPT !.remain = @ - n, !.db = @ \o plain, !.key = IF o.fh.mask THEN m.key ELSE @]
       IN /\ Take(e, n)
          /\ IF ~c.ok THEN Next2(e, c.w, Failing(o, bad_payload)) /\ UNCHANGED got
             ELSE IF n < o.remain THEN Next2(e, c.w, next) /\ UNCHANGED got
             ELSE FrameDone(e, c.w, next)
  /\ UNCHANGED said /\ ReadOthers

ReadInflate(e) ==
  /\ op[e].at = "inflate"
  /\ \E n \in 0 .. Min({op[e].remain, Len(wire[e]), session.rd_buf}) :
       LET o == op[e]
           octets == SubSeq(wire[e], 1, n)
           m == mask_inplace(octets, o.key, 0)
           last == n = o.remain /\ o.fh.fin
           r == inflate(ws[e].zi, IF o.fh.mask THEN m.out ELSE octets, last)
           w == [ws[e] EXCEPT !.zi = IF last /\ forgets(Peer(e)) THEN inflate_stream ELSE r.zi]
           c == checked(w, r.out, last)
           next == [o EXCEPT !.remain = @ - n, !.db = @ \o r.out, !.key = IF o.fh.mask THEN m.key ELSE @]
       IN /\ n > 0 \/ o.remain = 0
          /\ Take(e, n)
          /\ IF ~r.ok THEN Next2(e, [ws[e] EXCEPT !.failed = TRUE], Error(o, "invalid")) /\ UNCHANGED got
             ELSE IF ~c.ok THEN Next2(e, c.w, Failing(next, bad_payload)) /\ UNCHANGED got
             ELSE IF n < o.remain THEN Next2(e, c.w, next) /\ UNCHANGED got
             ELSE FrameDone(e, c.w, next)
  /\ UNCHANGED said /\ ReadOthers

\* do_close with a code: a close frame is sent if none has been.
Fail(e) ==
  /\ op[e].at = "fail"
  /\ IF ws[e].wr_close THEN UNCHANGED <<wire, said>> /\ Next2(e, ws[e], [op[e] EXCEPT !.at = "teardown"])
     ELSE /\ Says(e, op[e].code)
          /\ Put(e, write_close([code |-> op[e].code, reason |-> <<>>], Key(e), session.align),
                 [ws[e] EXCEPT !.wr_close = TRUE], [op[e] EXCEPT !.at = "teardown"])
  /\ UNCHANGED got /\ ReadOthers

\* teardown: what is sent to the peer ends.
Shutdown(e) ==
  /\ op[e].at = "teardown" /\ shut' = shut \cup {e} /\ op' = [op EXCEPT ![e].at = "drain"]
  /\ UNCHANGED <<session, ws, script, wire, broken, wrote, got, said>>

Torn(e) == Next2(e, [ws[e] EXCEPT !.failed = TRUE], Error(op[e], IF op[e].code = none THEN "closed" ELSE "failed"))

\* The TCP socket reads and drops what still comes, until the peer has ended too.
TeardownTcp(e) ==
  /\ op[e].at = "drain" /\ ~session.ssl
  /\ \/ wire[e] # <<>> /\ Take(e, Len(wire[e])) /\ UNCHANGED <<ws, op>>
     \/ Never(e, 1) /\ Torn(e) /\ UNCHANGED wire
  /\ UNCHANGED <<got, said>> /\ ReadOthers

\* The shutdown of a TLS stream returns when the peer has shut down.
TeardownSsl(e) ==
  /\ op[e].at = "drain" /\ session.ssl
  /\ \/ Peer(e) \in shut /\ Torn(e)
     \/ broken /\ Next2(e, [ws[e] EXCEPT !.failed = TRUE], Error(op[e], "error"))
  /\ UNCHANGED <<wire, got, said>> /\ ReadOthers

-----------------------------------------------------------------------------
(* The peer that is not ours sends its octets and ends when we do; and the connection breaks. *)

RawSend(e) ==
  /\ Raw(e) /\ script[e] # <<>> /\ ~broken
  /\ wire' = [wire EXCEPT ![Peer(e)] = @ \o Head(script[e]).data]
  /\ script' = [script EXCEPT ![e] = Tail(@)]
  /\ UNCHANGED <<session, ws, op, shut, broken, wrote, got, said>>

RawEnd(e) ==
  /\ Raw(e) /\ script[e] = <<>> /\ op[e].at = "idle"
  /\ Peer(e) \in shut \/ Wants(op[Peer(e)]) > Len(wire[Peer(e)])
  /\ shut' = shut \cup {e} /\ op' = [op EXCEPT ![e] = Error(@, "closed")] /\ wire' = [wire EXCEPT ![e] = <<>>]
  /\ UNCHANGED <<session, ws, script, broken, wrote, got, said>>

Break ==
  /\ session.breaks /\ ~broken /\ broken' = TRUE
  /\ UNCHANGED <<session, ws, op, script, wire, shut, wrote, got, said>>

ReadStep(e) ==
  \/ ReadError(e) \/ ReadFixedHeader(e) \/ ReadVariableHeader(e) \/ ReadControl(e)
  \/ ReadPayload(e) \/ ReadInflate(e) \/ Fail(e) \/ Shutdown(e) \/ TeardownTcp(e) \/ TeardownSsl(e)
WriteStep(e) == Call(e) \/ SendFrame(e) \/ SendPart(e) \/ SendDeflated(e)
RawStep(e) == RawSend(e) \/ RawEnd(e)

Step(e) == ReadStep(e) \/ WriteStep(e) \/ RawStep(e)
Next == (\E e \in End : Step(e)) \/ Break

Over(e) == op[e].at = "done"

\* A blocking call waits for the socket alone: each end goes on when it can.
Waits(e) ==
  \/ Over(e)
  \/ Wants(op[e]) > Len(wire[e]) /\ ~Never(e, Wants(op[e]))
  \/ op[e].at = "drain" /\ wire[e] = <<>> /\ ~broken /\ Peer(e) \notin shut
  \/ Raw(e) /\ script[e] # <<>> /\ broken
  \/ Raw(e) /\ script[e] = <<>> /\ Peer(e) \notin shut /\ Wants(op[Peer(e)]) <= Len(wire[Peer(e)])
Fairness == \A e \in End : []<>Waits(e) \/ []<><<Step(e)>>_vars

Spec == Init /\ [][Next]_vars /\ Fairness

-----------------------------------------------------------------------------
(* Properties *)

\* Type invariant; no assertion of the code fails.
TypeOK ==
  /\ \A e \in End :
       /\ op[e].at \in {"idle", "frame", "part", "fh1", "fh2", "control", "payload", "inflate", "fail", "teardown", "drain", "done"}
       /\ op[e].remain >= 0 /\ ws[e].utf8.need \in 0 .. 3 /\ ws[e].rd_size \in 0 .. SizeMax
       /\ Len(ws[e].zo.pend) <= session.latency
  /\ shut \subseteq End

Whole(messages) == SelectSeq(messages, LAMBDA m : m.fin)
Content(messages) == [i \in DOMAIN messages |-> [op |-> messages[i].op, data |-> messages[i].data]]

\* What one end of ours reads is what the other wrote: whole messages, in their order,
\* whatever the sizes of buffers and reads, frames in between, masks and windows;
\* and an end that is told the connection was closed has read all of them.
MessagesIntact ==
  \A e \in End : ~Raw(Peer(e)) /\ ~Raw(e) =>
    /\ IsPrefix(got[e], Content(Whole(wrote[Peer(e)])))
    /\ op[e].ec = "closed" => got[e] = Content(Whole(wrote[Peer(e)]))

\* Ends of ours never blame each other: an error is one of the connection or of the text sent.
NoBlame ==
  \A e \in End : ~Raw(Peer(e)) /\ ~Raw(e) =>
    op[e].ec \in {"", "closed", "error"} /\ op[e].code \in {none, bad_payload}
    /\ (op[e].code = bad_payload => ~IsText(session.text))

\* Between ends of ours all messages arrive as they were written, and neither end finds
\* fault with the other.
MessagesArrive == TypeOK /\ MessagesIntact /\ NoBlame

\* Frames of another program are judged as the RFC does: the messages before the first
\* mistake are read, and the close code is the one for it.
RawVerdict ==
  \A e \in End : Raw(Peer(e)) /\ session.expect # <<>> =>
    /\ IsPrefix(got[e], session.expect[1].got)
    /\ Over(e) /\ ~broken => got[e] = session.expect[1].got /\ op[e].code = session.expect[1].code

\* Text, cut into frames and reads anywhere, is read if it is UTF-8 and refused with
\* bad_payload if not.
TextVerdict ==
  \A e \in End : Raw(Peer(e)) /\ session.text # <<>> =>
    /\ got[e] # <<>> => got[e] = <<[op |-> Text, data |-> session.text]>> /\ IsText(session.text)
    /\ op[e].code # none => op[e].code = bad_payload /\ ~IsText(session.text)

\* Another program is answered as the RFC says, for its frames and for its text.
PeerJudged == RawVerdict /\ TextVerdict

\* One close frame is sent by each end, and each that is told the connection was closed
\* has the code the other sent.
CloseAgrees ==
  \A e \in End :
    /\ Len(said[e]) <= 1
    /\ op[e].ec = "closed" /\ ~Raw(e) /\ ~Raw(Peer(e)) => said[Peer(e)] = <<ws[e].cr.code>> /\ Len(said[e]) = 1

\* Every call returns: both programs come to their end.
SessionEnds == \A e \in End : <>Over(e)
=============================================================================
