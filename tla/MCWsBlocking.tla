---------------------------- MODULE MCWsBlocking ----------------------------
(* Scripts for two ends of ours, and octets of other programs.             *)
EXTENDS WsBlocking

W(fin, data) == [call |-> "write", fin |-> fin, data |-> data]
P(o, data) == [call |-> "ping", op |-> o, data |-> data]
C(code, reason) == [call |-> "close", cr |-> [code |-> code, reason |-> reason]]
R == [call |-> "read"]
Octets(data) == [call |-> "raw", data |-> data]

Defaults ==
  [calls |-> [e \in End |-> <<>>], op |-> Text, pmd |-> FALSE, takeover |-> {}, autofrag |-> FALSE, wr_buf |-> 4, rd_buf |-> 3,
   msg_max |-> 0, align |-> 3, keys |-> <<<<1, 2, 4, 8>>, <<128, 0, 7, 255>>>>, ssl |-> FALSE,
   latency |-> 2, breaks |-> FALSE, text |-> <<>>, expect |-> <<>>]

Calls(client, server) == [e \in End |-> IF e = "client" THEN client ELSE server]
Set(s, calls) == [s EXCEPT !.calls = calls]

\* Octets of 7 bits: n of them
Ascii(n) == [i \in 1 .. n |-> 64 + (i % 60)]

Plain == {[Defaults EXCEPT !.autofrag = a, !.ssl = t] : a \in BOOLEAN, t \in BOOLEAN}
Deflated == {[Defaults EXCEPT !.pmd = TRUE, !.wr_buf = 8, !.takeover = t] : t \in SUBSET End}

\* Ends of ours: messages of no, one and several octets and frames, written by either end,
\* with pings in between, closed by one end or by both at once.
Ours ==
  {Set(s, Calls(<<W(TRUE, Ascii(5)), P(Ping, <<65, 66>>), W(FALSE, Ascii(2)), W(TRUE, <<>>), C(1000, <<72, 105>>)>>, <<R>>)) : s \in Plain}
  \cup {Set(s, Calls(<<R>>, <<W(FALSE, Ascii(6)), P(Pong, <<67>>), W(TRUE, Ascii(3)), C(none, <<>>)>>)) : s \in Plain}
  \cup {Set(s, Calls(<<W(TRUE, Ascii(9)), C(1001, <<>>)>>, <<C(3000, <<33>>)>>)) : s \in Plain}
  \cup {[Set(s, Calls(<<W(TRUE, Ascii(5)), W(TRUE, <<66>>), C(1000, <<>>)>>, <<P(Ping, <<>>)>>)) EXCEPT !.breaks = TRUE] : s \in Plain}
  \cup {Set(s, Calls(<<W(TRUE, Ascii(3)), W(FALSE, Ascii(2)), W(TRUE, Ascii(1)), C(1000, <<>>)>>, <<W(TRUE, <<>>)>>)) : s \in Deflated}
  \cup {Set(s, Calls(<<>>, <<W(FALSE, Ascii(4)), W(FALSE, <<66>>), W(TRUE, <<>>), W(TRUE, Ascii(2)), C(1000, <<>>)>>)) : s \in Deflated}
  \cup {[Set(Defaults, Calls(<<>>, <<W(TRUE, Ascii(n)), C(1000, <<>>)>>)) EXCEPT !.wr_buf = 300, !.op = Binary] : n \in {125, 126}}

\* A server of another program: frames without a mask, and what they should lead to.
H(b0, b1) == <<b0, b1>>
Judged(octets, msgs, code) ==
  [Set(Defaults, Calls(<<>>, <<Octets(octets)>>)) EXCEPT !.expect = <<[got |-> msgs, code |-> code]>>]
M(o, data) == [op |-> o, data |-> data]

Others2 ==
  {Judged(o[1], o[2], o[3]) : o \in
    {<<H(129, 1) \o <<65>> \o H(2, 1) \o <<7>> \o H(128, 1) \o <<9>>, <<M(Text, <<65>>), M(Binary, <<7, 9>>)>>, none>>,
     <<H(2, 1) \o <<7>> \o H(137, 0) \o H(128, 0), <<M(Binary, <<7>>)>>, none>>,
     <<H(2, 1) \o <<7>> \o H(130, 1) \o <<8>>, <<>>, protocol_error>>,       \* a message in a message
     <<H(128, 1) \o <<7>>, <<>>, protocol_error>>,                          \* nothing to continue
     <<H(130, 0) \o H(128, 0), <<M(Binary, <<>>)>>, protocol_error>>,
     <<H(194, 0), <<>>, protocol_error>>, <<H(162, 0), <<>>, protocol_error>>, <<H(146, 0), <<>>, protocol_error>>,
     <<H(131, 0), <<>>, protocol_error>>, <<H(139, 0), <<>>, protocol_error>>,
     <<H(9, 0), <<>>, protocol_error>>, <<H(137, 126) \o <<0, 126>>, <<>>, protocol_error>>,
     <<H(201, 0), <<>>, protocol_error>>,
     <<H(130, 128) \o <<1, 2, 3, 4>>, <<>>, protocol_error>>,               \* masked by a server
     <<H(130, 126) \o <<0, 125>>, <<>>, protocol_error>>,                   \* lengths that are too long
     <<H(130, 127) \o <<0, 0, 0, 0, 0, 0, 255, 255>>, <<>>, protocol_error>>,
     <<H(2, 1) \o <<7>> \o H(128, 127) \o <<0, 0, 0, 0, 0, 255, 255, 255>>, <<>>, too_big>>,
     <<H(136, 1) \o <<3>>, <<>>, protocol_error>>, <<H(136, 2) \o <<3, 237>>, <<>>, protocol_error>>,
     <<H(136, 2) \o <<3, 231>>, <<>>, protocol_error>>, <<H(136, 2) \o <<11, 183>>, <<>>, protocol_error>>,
     <<H(136, 3) \o <<3, 232, 255>>, <<>>, protocol_error>>, <<H(136, 2) \o <<11, 184>>, <<>>, none>>}}
  \cup {[Judged(o[1], o[2], o[3]) EXCEPT !.msg_max = 3] : o \in
    {<<H(2, 2) \o <<7, 8>> \o H(128, 1) \o <<9>> \o H(130, 3) \o <<1, 2, 3>>, <<M(Binary, <<7, 8, 9>>), M(Binary, <<1, 2, 3>>)>>, none>>,
     <<H(2, 2) \o <<7, 8>> \o H(128, 2) \o <<9, 9>>, <<>>, too_big>>,
     <<H(130, 127) \o <<0, 0, 0, 0, 0, 1, 0, 0>>, <<>>, too_big>>}}

\* Text in one or two frames
Texts ==
  {<<65, 195, 169>>, <<226, 130, 172, 66>>, <<240, 144, 141, 136>>, <<65, 244, 143, 191, 191>>,
   <<224, 160, 128>>, <<237, 159, 191>>, <<65, 66, 67, 68, 69, 70, 71, 72, 73>>, <<65, 66, 67, 68, 69, 70, 226, 130, 172>>,
   <<128>>, <<193, 191>>, <<195, 40>>, <<65, 195>>, <<226, 40, 161>>, <<226, 130>>, <<224, 159, 191>>, <<237, 160, 128>>,
   <<240, 143, 191, 191>>, <<244, 144, 128, 128>>, <<245, 128, 128, 128>>, <<240, 144, 40, 136>>, <<240, 144, 141>>,
   <<65, 66, 67, 68, 69, 70, 226, 130>>, <<65, 66, 67, 237, 160, 128, 65, 66>>}

TextFrames(s, cut) ==
  IF cut = 0 THEN H(129, Len(s)) \o s
  ELSE H(1, cut) \o SubSeq(s, 1, cut) \o H(128, Len(s) - cut) \o SubSeq(s, cut + 1, Len(s))
TextSession(s, octets) == [Set(Defaults, Calls(<<>>, <<Octets(octets)>>)) EXCEPT !.text = s]

TextSessions == UNION {{TextSession(s, TextFrames(s, cut)) : cut \in 0 .. Len(s) - 1} : s \in Texts}

\* Text that ends with a frame of no octets.
EmptyEnd == {TextSession(<<65, 195>>, H(1, 2) \o <<65, 195>> \o H(128, 0))}

AllSessions == Ours \cup Others2 \cup TextSessions
=============================================================================
