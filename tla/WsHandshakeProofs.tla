-------------------------- MODULE WsHandshakeProofs --------------------------
(***************************************************************************)
(* Theorems about the opening handshake, for every set of options,         *)
(* decorators, forms of accept and number of connections.                  *)
(***************************************************************************)
EXTENDS WsHandshake, SequenceTheorems, TLAPS

\* A decorator changes no field but its own.
LEMMA Decorated ==
  ASSUME NEW F, NEW msg, msg = [x \in F |-> msg[x]], NEW d, NEW f \in F, f # d[1]
  PROVE  decorate(msg, d)[f] = msg[f]
  BY DEF decorate

\* It gives its own field its value.
LEMMA DecoratedAt ==
  ASSUME NEW F, NEW msg, msg = [x \in F |-> msg[x]], NEW d, d[1] \in F, d[1] # "none"
  PROVE  decorate(msg, d)[d[1]] = d[2]
  BY DEF decorate

\* The request as the client builds it.
LEMMA RequestShape ==
  ASSUME NEW s \in Sessions, NEW opts, NEW k \in 1 .. LongKey - 1,
         ~refused(build_request(opts, k, s.req)), build_request(opts, k, s.req).wsversion = "13"
  PROVE  WellFormed(build_request(opts, k, s.req)) /\ build_request(opts, k, s.req).key = k
  <1> DEFINE d == s.req
             F == {"version", "method", "connection", "host", "upgrade", "key", "wsversion", "ext"}
  <1>1. PICK e : build_request(opts, k, d) =
          decorate([version |-> 11, method |-> "GET", connection |-> "upgrade", host |-> TRUE,
                    upgrade |-> "websocket", key |-> k, wsversion |-> "13", ext |-> e], d)
    BY DEF build_request
  <1>2. PICK m : m = [version |-> 11, method |-> "GET", connection |-> "upgrade", host |-> TRUE,
                      upgrade |-> "websocket", key |-> k, wsversion |-> "13", ext |-> e]
    OBVIOUS
  <1>3. m = [x \in F |-> m[x]] /\ m["version"] = 11 /\ m["host"] = TRUE /\ m["key"] = k
    BY <1>2
  <1>4. PICK r : r = build_request(opts, k, d) /\ r = decorate(m, d)
    BY <1>1, <1>2
  <1>5. /\ d[1] = "version" => d[2] \in {10, 11}
        /\ d[1] = "host" => d[2] \in BOOLEAN
        /\ d[1] = "key" => d[2] \in {0, LongKey}
    BY SessionsAssumption
  <1> HIDE DEF d, F
  <1>6. r["version"] \in {10, 11} /\ r["host"] \in BOOLEAN /\ (r["key"] = k \/ r["key"] \in {0, LongKey})
    <2>1. "version" \in F /\ "host" \in F /\ "key" \in F
      BY DEF F
    <2>2. r["version"] \in {10, 11}
      <3>1. CASE d[1] = "version"
        BY <1>3, <1>4, <1>5, <2>1, <3>1, DecoratedAt
      <3>2. CASE d[1] # "version"
        <4>1. r["version"] = m["version"]
          BY <1>3, <1>4, <2>1, <3>2, Decorated
        <4> QED
          BY <1>3, <4>1
      <3> QED
        BY <3>1, <3>2
    <2>3. r["host"] \in BOOLEAN
      <3>1. CASE d[1] = "host"
        BY <1>3, <1>4, <1>5, <2>1, <3>1, DecoratedAt
      <3>2. CASE d[1] # "host"
        <4>1. r["host"] = m["host"]
          BY <1>3, <1>4, <2>1, <3>2, Decorated
        <4> QED
          BY <1>3, <4>1
      <3> QED
        BY <3>1, <3>2
    <2>4. r["key"] = k \/ r["key"] \in {0, LongKey}
      BY <1>3, <1>4, <1>5, <2>1, Decorated, DecoratedAt
    <2> QED
      BY <2>2, <2>3, <2>4
  <1>7. ~refused(r) /\ r.wsversion = "13"
    BY <1>4 DEF d
  <1>8. WellFormed(r) /\ r.key = k
    BY <1>6, <1>7 DEF refused, is_upgrade, WellFormed, LongKey
  <1> QED
    BY <1>4, <1>8 DEF d

\* The response as the server builds it: status 101 for a proper request only, and without a body.
LEMMA ResponseShape ==
  ASSUME NEW s \in Sessions, NEW opts, NEW req, build_response(opts, req, s.res).status = 101
  PROVE  ~refused(req) /\ req.wsversion = "13" /\ ~build_response(opts, req, s.res).body
  <1> DEFINE d == s.res
             F == {"version", "status", "connection", "upgrade", "accept", "body", "ext"}
  <1>1. PICK m : /\ build_response(opts, req, d) = decorate(m, d) /\ m = [x \in F |-> m[x]]
                 /\ m["status"] = 101 => ~refused(req) /\ req.wsversion = "13" /\ m["body"] = FALSE
    <2> DEFINE res(status, body, up) ==
                 [version |-> req.version, status |-> status, connection |-> IF up THEN "upgrade" ELSE "",
                  upgrade |-> IF up THEN "websocket" ELSE "", accept |-> IF up THEN req.key ELSE 0,
                  body |-> body, ext |-> IF up THEN pmd_negotiate(pmd_read(req.ext), opts) ELSE <<>>]
               m == IF refused(req) THEN res(400, TRUE, FALSE)
                    ELSE IF req.wsversion # "13" THEN res(426, FALSE, FALSE) ELSE res(101, FALSE, TRUE)
    <2>1. build_response(opts, req, d) = decorate(m, d)
      BY DEF build_response
    <2> HIDE DEF res, m
    <2>2. /\ \E v : v = req.version
          /\ \E a : a = req.key
          /\ \E e : e = pmd_negotiate(pmd_read(req.ext), opts)
          /\ \E g : g = m
      BY Zenon
    <2>3. PICK v, a, e, g : /\ v = req.version /\ a = req.key /\ g = m
                            /\ e = pmd_negotiate(pmd_read(req.ext), opts)
      BY <2>2, Zenon
    <2>4. CASE refused(req)
      <3>1. g = res(400, TRUE, FALSE)
        BY <2>3, <2>4 DEF m
      <3>2. g = [version |-> v, status |-> 400, connection |-> "", upgrade |-> "", accept |-> 0,
                 body |-> TRUE, ext |-> <<>>]
        BY <2>3, <3>1 DEF res
      <3>3. g = [x \in F |-> g[x]] /\ g["status"] = 400
        BY <3>2
      <3> QED
        BY <2>1, <2>3, <3>3
    <2>5. CASE ~refused(req) /\ req.wsversion # "13"
      <3>1. g = res(426, FALSE, FALSE)
        BY <2>3, <2>5 DEF m
      <3>2. g = [version |-> v, status |-> 426, connection |-> "", upgrade |-> "", accept |-> 0,
                 body |-> FALSE, ext |-> <<>>]
        BY <2>3, <3>1 DEF res
      <3>3. g = [x \in F |-> g[x]] /\ g["status"] = 426
        BY <3>2
      <3> QED
        BY <2>1, <2>3, <3>3
    <2>6. CASE ~refused(req) /\ req.wsversion = "13"
      <3>1. g = res(101, FALSE, TRUE)
        BY <2>3, <2>6 DEF m
      <3>2. g = [version |-> v, status |-> 101, connection |-> "upgrade", upgrade |-> "websocket",
                 accept |-> a, body |-> FALSE, ext |-> e]
        BY <2>3, <3>1 DEF res
      <3>3. g = [x \in F |-> g[x]] /\ g["body"] = FALSE
        BY <3>2
      <3> HIDE DEF F
      <3>4. build_response(opts, req, d) = decorate(g, d)
        BY <2>1, <2>3
      <3> QED
        BY <2>6, <3>3, <3>4
    <2> QED
      BY <2>4, <2>5, <2>6
  <1>2. d[1] # "status" /\ d[1] # "body"
    BY SessionsAssumption
  <1>3. "status" \in F /\ "body" \in F
    OBVIOUS
  <1> HIDE DEF F
  <1>4. decorate(m, d)["status"] = m["status"] /\ decorate(m, d)["body"] = m["body"]
    BY <1>1, <1>2, <1>3, Decorated
  <1> QED
    BY <1>1, <1>4

-----------------------------------------------------------------------------
(* The inductive invariant *)

\* What the connection carries.
Wire == {"q1", "q2", "s1", "s2", "f"}

StreamFields == {"opts", "config", "pmd", "buffer", "used"}
IsStream(ws) ==
  /\ ws = [f \in StreamFields |-> ws[f]]
  /\ ws.buffer \in Seq(Wire)
  /\ ws.used \in BOOLEAN

\* The variables have their types.
Typed ==
  /\ session \in Sessions /\ round \in 1 .. session.rounds
  /\ IsStream(cli) /\ IsStream(srv)
  /\ to_srv \in Seq(Wire) /\ to_cli \in Seq(Wire) /\ broken \in BOOLEAN
  /\ cop \in [at : {"idle", "read", "done"}, ec : {"", "error", "handshake_failed"}, async : BOOLEAN]
  /\ sop \in [at : {"idle", "read", "respond", "sent", "done"}, ec : {"", "error", "handshake_failed"},
              async : BOOLEAN]
  /\ sent \in Nat

Answered == sop.at \in {"sent", "done"}
Accepted == response.status = 101

\* The messages are those of this connection: the server answers the request of the client, accepts
\* only a proper one and reports what it answered.
Messages ==
  /\ request \in {NoReq, build_request(session.copts, round, session.req)}
  /\ cop.at = "idle" => sop.at = "idle" /\ to_srv = <<>>
  /\ sop.at # "done" => sop.ec = ""
  /\ ~Answered => ~Accepted
  /\ Accepted => WellFormed(request) /\ request.key = round
  /\ Ended(sop) /\ sop.ec = "" => Accepted
  /\ sop.ec = "handshake_failed" => ~Accepted
  /\ Opened(cop) => Accepted

Early == IF session.early THEN <<"f">> ELSE <<>>
Sent == [i \in 1 .. sent |-> "f"]

\* What is under way to the server: the request, and then what the client sent behind it.
ToServer ==
  /\ sop.at = "idle" => to_srv = <<>> \/ to_srv = <<"q1", "q2">> \o Early
  /\ sop.at = "read" => srv.buffer \o to_srv = <<"q1", "q2">> \o Early
  /\ sop.at \in {"respond", "sent"} \/ Opened(sop) =>
       srv.buffer \o to_srv = IF session.early \/ (Opened(cop) /\ cli.used) THEN <<"f">> ELSE <<>>

\* What is under way to the client: a response that accepts, if the connection lasted, and
\* then what the server sent behind it.
ToClient ==
  /\ ~Answered => to_cli = <<>> /\ (cop.at = "read" => cli.buffer = <<>>)
  /\ ~Accepted => sent = 0
  /\ Accepted /\ cop.at = "read" =>
       cli.buffer \o to_cli = IF sop.ec = "error" THEN <<>> ELSE <<"s1">> \o Sent
  /\ Opened(cop) => cli.buffer \o to_cli = Sent

HandshakeInv == Typed /\ Messages /\ ToServer /\ ToClient

-----------------------------------------------------------------------------
(* Sequences of octets and streams *)

\* What is left when the octets p are taken from the front of u.
LEMMA DropFront ==
  ASSUME NEW u \in Seq(Wire), NEW v \in Seq(Wire), NEW p \in Seq(Wire), NEW r \in Seq(Wire),
         u \o v = p \o r, Len(p) <= Len(u)
  PROVE  SubSeq(u, Len(p) + 1, Len(u)) \o v = r
  <1>1. PICK a \in Nat, b \in Nat, c \in Nat, d \in Nat :
          a = Len(u) /\ b = Len(v) /\ c = Len(p) /\ d = Len(r) /\ c <= a
    BY LenProperties
  <1>2. PICK w \in Seq(Wire) :
          /\ w = u \o v /\ Len(w) = a + b
          /\ \A i \in 1 .. a + b : w[i] = IF i <= a THEN u[i] ELSE v[i - a]
    <2>1. u \o v \in Seq(Wire) /\ Len(u \o v) = Len(u) + Len(v)
      BY ConcatProperties
    <2>2. \A i \in 1 .. Len(u) + Len(v) : (u \o v)[i] = IF i <= Len(u) THEN u[i] ELSE v[i - Len(u)]
      BY ConcatProperties
    <2> QED
      BY <1>1, <2>1, <2>2
  <1>3. Len(w) = c + d /\ \A i \in 1 .. c + d : w[i] = IF i <= c THEN p[i] ELSE r[i - c]
    <2>1. p \o r \in Seq(Wire) /\ Len(p \o r) = Len(p) + Len(r)
      BY ConcatProperties
    <2>2. \A i \in 1 .. Len(p) + Len(r) : (p \o r)[i] = IF i <= Len(p) THEN p[i] ELSE r[i - Len(p)]
      BY ConcatProperties
    <2> QED
      BY <1>1, <1>2, <2>1, <2>2
  <1>4. PICK x \in Seq(Wire) :
          /\ x = SubSeq(u, c + 1, a) /\ Len(x) = a - c
          /\ \A i \in 1 .. a - c : x[i] = u[c + i]
    <2>1. \A i \in c + 1 .. a : u[i] \in Wire
      <3>1. \A i \in c + 1 .. a : i \in 1 .. Len(u)
        BY <1>1
      <3> QED
        BY <3>1, ElementOfSeq
    <2>2. c + 1 \in Int /\ a \in Int
      BY <1>1
    <2>3. SubSeq(u, c + 1, a) \in Seq(Wire)
      BY <2>1, <2>2, SubSeqProperties
    <2>4. Len(SubSeq(u, c + 1, a)) = IF c + 1 <= a THEN a - (c + 1) + 1 ELSE 0
      BY <2>1, <2>2, SubSeqProperties
    <2>5. \A i \in 1 .. a - (c + 1) + 1 : SubSeq(u, c + 1, a)[i] = u[(c + 1) + i - 1]
      BY <2>1, <2>2, SubSeqProperties
    <2>6. Len(SubSeq(u, c + 1, a)) = a - c /\ a - (c + 1) + 1 = a - c
      BY <1>1, <2>4
    <2>7. \A i \in 1 .. a - c : (c + 1) + i - 1 = c + i
      BY <1>1
    <2>8. \A i \in 1 .. a - c : SubSeq(u, c + 1, a)[i] = u[c + i]
      BY <2>5, <2>6, <2>7
    <2> QED
      BY <2>3, <2>6, <2>8
  <1>5. PICK y \in Seq(Wire) :
          /\ y = x \o v /\ Len(y) = Len(x) + b
          /\ \A i \in 1 .. Len(x) + b : y[i] = IF i <= Len(x) THEN x[i] ELSE v[i - Len(x)]
    <2>1. x \o v \in Seq(Wire) /\ Len(x \o v) = Len(x) + Len(v)
      BY ConcatProperties
    <2>2. \A i \in 1 .. Len(x) + Len(v) : (x \o v)[i] = IF i <= Len(x) THEN x[i] ELSE v[i - Len(x)]
      BY ConcatProperties
    <2> QED
      BY <1>1, <2>1, <2>2
  <1>6. Len(y) = d /\ a + b = c + d
    BY <1>1, <1>2, <1>3, <1>4, <1>5
  <1>7. \A i \in 1 .. d : y[i] = r[i]
    <2>1. TAKE i \in 1 .. d
    <2>2. c + i \in 1 .. c + d /\ ~(c + i <= c) /\ (c + i) - c = i /\ c + i \in 1 .. a + b
      BY <1>1, <1>6
    <2>3. w[c + i] = r[i]
      BY <1>3, <2>2
    <2>4. CASE i <= a - c
      <3>1. c + i <= a /\ i \in 1 .. a - c /\ i <= Len(x) /\ i \in 1 .. Len(x) + b
        BY <1>1, <1>4, <2>4
      <3> QED
        BY <1>2, <1>4, <1>5, <2>2, <2>3, <3>1
    <2>5. CASE i > a - c
      <3>0. PICK e \in Nat : e = Len(x) /\ e = a - c
        <4>0. c <= a
          BY <1>1
        <4>1. a - c \in Nat
          BY <4>0
        <4>2. Len(x) = a - c
          BY <1>4
        <4> QED
          BY <4>1, <4>2
      <3>1. ~(c + i <= a) /\ ~(i <= e) /\ i - e = (c + i) - a /\ i \in 1 .. e + b
        BY <1>1, <1>6, <2>5, <3>0
      <3> QED
        BY <1>2, <1>5, <2>2, <2>3, <3>0, <3>1
    <2> QED
      BY <1>1, <2>4, <2>5
  <1>8. y = r
    BY <1>1, <1>6, <1>7, SeqEqual
  <1> QED
    BY <1>1, <1>4, <1>5, <1>8

\* Concatenation of octets is associative.
LEMMA Associative ==
  ASSUME NEW a \in Seq(Wire), NEW b \in Seq(Wire), NEW c \in Seq(Wire)
  PROVE  a \o (b \o c) = (a \o b) \o c
  BY ConcatAssociative

\* Octets that move from the connection to a buffer stay in order.
LEMMA MoveFront ==
  ASSUME NEW b \in Seq(Wire), NEW s \in Seq(Wire), NEW n \in 0 .. Len(s)
  PROVE  /\ b \o SubSeq(s, 1, n) \in Seq(Wire)
         /\ SubSeq(s, n + 1, Len(s)) \in Seq(Wire)
         /\ (b \o SubSeq(s, 1, n)) \o SubSeq(s, n + 1, Len(s)) = b \o s
  <1>1. Len(s) \in Nat
    BY LenProperties
  <1>2. \A i \in 1 .. Len(s) : s[i] \in Wire
    BY ElementOfSeq
  <1>3. SubSeq(s, 1, n) \in Seq(Wire)
    <2>1. \A i \in 1 .. n : s[i] \in Wire
      BY <1>1, <1>2
    <2>2. 1 \in Int /\ n \in Int
      BY <1>1
    <2> QED
      BY <2>1, <2>2, SubSeqProperties
  <1>4. SubSeq(s, n + 1, Len(s)) \in Seq(Wire)
    <2>1. \A i \in n + 1 .. Len(s) : s[i] \in Wire
      BY <1>1, <1>2
    <2>2. n + 1 \in Int /\ Len(s) \in Int
      BY <1>1
    <2> QED
      BY <2>1, <2>2, SubSeqProperties
  <1>5. SubSeq(s, 1, n) \o SubSeq(s, n + 1, Len(s)) = SubSeq(s, 1, Len(s))
    <2>1. 1 \in 1 .. Len(s) + 1 /\ n \in 1 - 1 .. Len(s) /\ Len(s) \in n .. Len(s)
      BY <1>1
    <2> QED
      BY <2>1, ConcatAdjacentSubSeq
  <1>6. SubSeq(s, 1, Len(s)) = s
    BY SubSeqFull
  <1>7. PICK h \in Seq(Wire), k \in Seq(Wire) : h = SubSeq(s, 1, n) /\ k = SubSeq(s, n + 1, Len(s))
    BY <1>3, <1>4
  <1>8. b \o h \in Seq(Wire)
    BY ConcatProperties
  <1>9. (b \o h) \o k = b \o (h \o k)
    BY Associative
  <1> QED
    BY <1>5, <1>6, <1>7, <1>8, <1>9

\* reset() empties the buffer.
LEMMA ResetStream ==
  ASSUME NEW ws, IsStream(ws)
  PROVE  IsStream(reset(ws)) /\ reset(ws).buffer = <<>> /\ reset(ws).used = FALSE
  BY EmptySeq DEF IsStream, reset, StreamFields

\* open() leaves the buffer alone.
LEMMA OpenStream ==
  ASSUME NEW ws, IsStream(ws), NEW role, NEW config
  PROVE  /\ IsStream(open(ws, role, config))
         /\ open(ws, role, config).buffer = ws.buffer /\ open(ws, role, config).used = FALSE
  BY DEF IsStream, open, StreamFields

\* The other changes of a stream.
LEMMA BufferStream ==
  ASSUME NEW ws, IsStream(ws), NEW b \in Seq(Wire)
  PROVE  /\ IsStream([ws EXCEPT !.buffer = b])
         /\ [ws EXCEPT !.buffer = b].buffer = b /\ [ws EXCEPT !.buffer = b].used = ws.used
  BY DEF IsStream, StreamFields

\* The offer kept in a stream.
LEMMA ConfigStream ==
  ASSUME NEW ws, IsStream(ws), NEW c
  PROVE  /\ IsStream([ws EXCEPT !.config = c])
         /\ [ws EXCEPT !.config = c].buffer = ws.buffer /\ [ws EXCEPT !.config = c].used = ws.used
  BY DEF IsStream, StreamFields

\* A stream that is used.
LEMMA UsedStream ==
  ASSUME NEW ws, IsStream(ws)
  PROVE  /\ IsStream([ws EXCEPT !.used = TRUE])
         /\ [ws EXCEPT !.used = TRUE].buffer = ws.buffer /\ [ws EXCEPT !.used = TRUE].used = TRUE
  BY DEF IsStream, StreamFields

-----------------------------------------------------------------------------
(* The steps of the client *)

\* The request that no client has sent is refused.
LEMMA NoRequest == NoRes.status = 400
  <1>1. NoReq.key = 0
    BY DEF NoReq, build_request, decorate
  <1>2. refused(NoReq)
    BY <1>1 DEF refused
  <1>3. NoRes.status = 400
    BY <1>2 DEF NoRes, build_response, decorate
  <1> QED
    BY <1>3

\* The invariant holds before the first connection.
LEMMA InvInit == Init => HandshakeInv
  <1> SUFFICES ASSUME Init PROVE HandshakeInv
    OBVIOUS
  <1>1. ~Accepted
    BY NoRequest DEF Init, Accepted
  <1>2. cop = Idle /\ sop = Idle /\ Idle.at = "idle" /\ Idle.ec = ""
    BY DEF Init, Idle
  <1>3. IsStream(cli) /\ IsStream(srv)
    BY EmptySeq DEF Init, stream, IsStream, StreamFields
  <1>4. Typed
    <2>1. session \in Sessions /\ round \in 1 .. session.rounds
      <3>1. session \in Sessions /\ round = 1
        BY DEF Init
      <3>2. session.rounds \in 1 .. 98
        BY <3>1, SessionsAssumption DEF LongKey
      <3> QED
        BY <3>1, <3>2
    <2>2. to_srv \in Seq(Wire) /\ to_cli \in Seq(Wire)
      BY EmptySeq DEF Init
    <2>3. Idle \in [at : {"idle"}, ec : {""}, async : BOOLEAN]
      BY DEF Idle
    <2> QED
      BY <1>2, <1>3, <2>1, <2>2, <2>3 DEF Typed, Init
  <1>5. Messages
    BY <1>1, <1>2 DEF Messages, Init, Answered, Ended, Opened
  <1>6. ToServer
    BY <1>2 DEF ToServer, Init, Opened, Ended
  <1>7. ToClient
    BY <1>1, <1>2 DEF ToClient, Init, Opened, Ended, Answered
  <1> QED
    BY <1>4, <1>5, <1>6, <1>7 DEF HandshakeInv

\* What the client sends with its request, octet by octet.
LEMMA RequestOctets ==
  /\ Early \in Seq(Wire) /\ <<"q1", "q2">> \in Seq(Wire) /\ <<"q1", "q2">> \o Early \in Seq(Wire)
  /\ Len(<<"q1", "q2">>) = 2 /\ Len(<<"q1", "q2">> \o Early) >= 2
  <1>1. <<"f">> \in Seq(Wire) /\ <<"q1", "q2">> \in Seq(Wire) /\ Len(<<"q1", "q2">>) = 2
    BY DEF Wire
  <1>2. PICK e \in Seq(Wire) : e = Early
    BY <1>1, EmptySeq DEF Early
  <1>3. PICK q \in Seq(Wire) : q = <<"q1", "q2">> /\ Len(q) = 2
    BY <1>1
  <1>4. q \o e \in Seq(Wire) /\ Len(q \o e) = Len(q) + Len(e)
    BY ConcatProperties
  <1>5. Len(e) \in Nat
    BY LenProperties
  <1> QED
    BY <1>1, <1>2, <1>3, <1>4, <1>5

\* Handshake and AsyncHandshake keep the invariant.
LEMMA SendRequestStep ==
  ASSUME HandshakeInv, NEW async \in BOOLEAN, send_request(async)
  PROVE  HandshakeInv'
  <1>1. cop.at = "idle" /\ sop.at = "idle" /\ ~Answered /\ ~Accepted /\ sop.ec = "" /\ to_cli = <<>> /\ sent = 0
    BY DEF send_request, HandshakeInv, Messages, ToClient, Answered
  <1>2. UNCHANGED <<session, round, srv, to_cli, broken, response, sop, sent>>
    BY DEF send_request
  <1>3. IsStream(cli') /\ cli'.buffer = <<>>
    <2>1. IsStream(cli)
      BY DEF HandshakeInv, Typed
    <2>2. PICK w : w = reset(cli) /\ IsStream(w) /\ w.buffer = <<>>
      BY <2>1, ResetStream
    <2>3. PICK c : cli' = [w EXCEPT !.config = c]
      BY <2>2 DEF send_request
    <2> QED
      BY <2>2, <2>3, ConfigStream
  <1>4. \/ broken /\ cop' = Done([cop EXCEPT !.async = async], "error") /\ to_srv' = to_srv
        \/ /\ ~broken /\ cop' = [[cop EXCEPT !.async = async] EXCEPT !.at = "read"]
           /\ to_srv' = <<"q1", "q2">> \o Early
    BY DEF send_request, Early
  <1>5. /\ cop' \in [at : {"idle", "read", "done"}, ec : {"", "error", "handshake_failed"}, async : BOOLEAN]
        /\ (cop'.at = "done" /\ cop'.ec = "error") \/ cop'.at = "read"
    BY <1>4 DEF Done, HandshakeInv, Typed
  <1>6. to_srv' = <<>> \/ to_srv' = <<"q1", "q2">> \o Early
    BY <1>1, <1>4 DEF HandshakeInv, Messages
  <1>7. to_srv' \in Seq(Wire)
    BY <1>6, EmptySeq, RequestOctets
  <1>8. Typed'
    BY <1>2, <1>3, <1>5, <1>7 DEF HandshakeInv, Typed, IsStream
  <1>9. Messages'
    BY <1>1, <1>2, <1>5 DEF Messages, send_request, Answered, Accepted, Opened, Ended
  <1>10. ToServer'
    BY <1>1, <1>2, <1>6 DEF ToServer, Early, Opened, Ended
  <1>11. ToClient'
    BY <1>1, <1>2, <1>3, <1>5 DEF ToClient, Answered, Accepted, Opened, Ended
  <1> QED
    BY <1>8, <1>9, <1>10, <1>11 DEF HandshakeInv

\* The end of a sequence is one.
LEMMA SuffixSeq ==
  ASSUME NEW s \in Seq(Wire), NEW k \in Nat
  PROVE  SubSeq(s, k + 1, Len(s)) \in Seq(Wire)
  <1>1. Len(s) \in Nat
    BY LenProperties
  <1>2. \A i \in k + 1 .. Len(s) : s[i] \in Wire
    <2>1. \A i \in k + 1 .. Len(s) : i \in 1 .. Len(s)
      BY <1>1
    <2> QED
      BY <2>1, ElementOfSeq
  <1>3. k + 1 \in Int /\ Len(s) \in Int
    BY <1>1
  <1> QED
    BY <1>2, <1>3, SubSeqProperties

\* The frames the server sent.
LEMMA SentOctets ==
  ASSUME HandshakeInv
  PROVE  /\ Sent \in Seq(Wire) /\ Len(Sent) = sent
         /\ [i \in 1 .. sent + 1 |-> "f"] = Append(Sent, "f")
  <1>1. sent \in Nat /\ "f" \in Wire
    BY DEF HandshakeInv, Typed, Wire
  <1>2. Sent \in [1 .. sent -> Wire]
    BY <1>1 DEF Sent
  <1>3. Sent \in Seq(Wire)
    BY <1>1, <1>2, SeqDef
  <1>4. Len(Sent) = sent
    BY <1>1, <1>2, <1>3, LenProperties
  <1>5. PICK t \in Seq(Wire) : t = [i \in 1 .. sent + 1 |-> "f"] /\ Len(t) = sent + 1
    <2>1. PICK n \in Nat : n = sent + 1
      BY <1>1
    <2>2. [i \in 1 .. n |-> "f"] \in [1 .. n -> Wire]
      BY <1>1
    <2>3. [i \in 1 .. n |-> "f"] \in Seq(Wire)
      BY <2>2, SeqDef
    <2>4. Len([i \in 1 .. n |-> "f"]) = n
      BY <2>2, <2>3, LenProperties
    <2> QED
      BY <2>1, <2>3, <2>4
  <1>6. PICK u \in Seq(Wire) : /\ u = Append(Sent, "f") /\ Len(u) = Len(Sent) + 1
                               /\ \A i \in 1 .. Len(Sent) : u[i] = Sent[i]
                               /\ u[Len(Sent) + 1] = "f"
    BY <1>1, <1>3, AppendProperties
  <1>7. \A i \in 1 .. sent + 1 : t[i] = u[i]
    <2>1. TAKE i \in 1 .. sent + 1
    <2>2. t[i] = "f"
      BY <1>5
    <2>3. CASE i = sent + 1
      BY <1>4, <1>6, <2>2, <2>3
    <2>4. CASE i \in 1 .. sent
      BY <1>4, <1>6, <2>2, <2>4 DEF Sent
    <2> QED
      BY <1>1, <2>3, <2>4
  <1>8. t = u
    BY <1>4, <1>5, <1>6, <1>7, SeqEqual
  <1> QED
    BY <1>3, <1>4, <1>5, <1>6, <1>8

\* What HandshakeRead does to the buffer and the connection.
LEMMA HandshakeReads ==
  ASSUME HandshakeInv, HandshakeRead
  PROVE  \E got \in Seq(Wire), rest \in Seq(Wire), size \in {1, 2} :
           /\ got \o rest = cli.buffer \o to_cli /\ to_cli' = rest
           /\ to_cli = <<>> => got = cli.buffer /\ rest = <<>>
           /\ Accepted => size = 1
           /\ LET ws == [cli EXCEPT !.buffer = SubSeq(got, size + 1, Len(got))]
                  ok == success(response, round)
              IN \/ /\ Len(got) >= size
                    /\ cop' = Done(cop, IF ok THEN "" ELSE "handshake_failed")
                    /\ cli' = IF ok THEN open(ws, "client", pmd_read(response.ext)) ELSE ws
                 \/ /\ cop' = cop \/ cop' = Done(cop, "error")
                    /\ cli' = [cli EXCEPT !.buffer = got]
  <1>1. cli.buffer \in Seq(Wire) /\ to_cli \in Seq(Wire)
    BY DEF HandshakeInv, Typed, IsStream
  <1>2. PICK n \in 0 .. Len(to_cli) :
          LET got == cli.buffer \o SubSeq(to_cli, 1, n)
              size == IF has_body(response) THEN 2 ELSE 1
              whole == Len(got) >= size /\ (has_body(response) => got[2] = "s2")
              ok == success(response, round)
              ws == [cli EXCEPT !.buffer = SubSeq(got, size + 1, Len(got))]
          IN /\ to_cli' = SubSeq(to_cli, n + 1, Len(to_cli))
             /\ IF whole
                THEN /\ cop' = Done(cop, IF ok THEN "" ELSE "handshake_failed")
                     /\ cli' = IF ok THEN open(ws, "client", pmd_read(response.ext)) ELSE ws
                ELSE /\ cop' = IF n = 0 THEN Done(cop, "error") ELSE cop
                     /\ cli' = [cli EXCEPT !.buffer = got]
    BY DEF HandshakeRead
  <1>3. PICK got \in Seq(Wire), rest \in Seq(Wire) :
          /\ got = cli.buffer \o SubSeq(to_cli, 1, n) /\ rest = SubSeq(to_cli, n + 1, Len(to_cli))
          /\ got \o rest = cli.buffer \o to_cli
    <2>1. PICK b \in Seq(Wire), s \in Seq(Wire) : b = cli.buffer /\ s = to_cli
      BY <1>1
    <2>2. /\ b \o SubSeq(s, 1, n) \in Seq(Wire) /\ SubSeq(s, n + 1, Len(s)) \in Seq(Wire)
          /\ (b \o SubSeq(s, 1, n)) \o SubSeq(s, n + 1, Len(s)) = b \o s
      BY <2>1, MoveFront
    <2> QED
      BY <2>1, <2>2
  <1>4. PICK size \in {1, 2} : size = (IF has_body(response) THEN 2 ELSE 1) /\ (Accepted => size = 1)
    <2>1. Accepted => ~has_body(response)
      BY DEF Accepted, has_body
    <2> QED
      BY <2>1
  <1>5. ASSUME to_cli = <<>> PROVE got = cli.buffer /\ rest = <<>>
    <2>1. n = 0
      BY <1>5, EmptySeq
    <2>2. rest = <<>>
      BY <1>3, <1>5, <2>1, SubSeqEmpty
    <2>3. got \o <<>> = got /\ cli.buffer \o <<>> = cli.buffer
      BY <1>1, ConcatEmptySeq
    <2> QED
      BY <1>3, <1>5, <2>2, <2>3
  <1>6. LET ws == [cli EXCEPT !.buffer = SubSeq(got, size + 1, Len(got))]
            ok == success(response, round)
        IN \/ /\ Len(got) >= size
              /\ cop' = Done(cop, IF ok THEN "" ELSE "handshake_failed")
              /\ cli' = IF ok THEN open(ws, "client", pmd_read(response.ext)) ELSE ws
           \/ /\ cop' = cop \/ cop' = Done(cop, "error")
              /\ cli' = [cli EXCEPT !.buffer = got]
    BY <1>2, <1>3, <1>4
  <1>7. to_cli' = rest
    BY <1>2, <1>3
  <1> QED
    BY <1>3, <1>4, <1>5, <1>6, <1>7

\* What is known of the client's operation after HandshakeRead.
LEMMA DoneOp ==
  ASSUME HandshakeInv, NEW ec \in {"", "error", "handshake_failed"}
  PROVE  /\ Done(cop, ec) \in [at : {"idle", "read", "done"}, ec : {"", "error", "handshake_failed"}, async : BOOLEAN]
         /\ Done(cop, ec).at = "done" /\ Done(cop, ec).ec = ec
         /\ Done(sop, ec) \in [at : {"idle", "read", "respond", "sent", "done"}, ec : {"", "error", "handshake_failed"},
                               async : BOOLEAN]
         /\ Done(sop, ec).at = "done" /\ Done(sop, ec).ec = ec
  BY DEF HandshakeInv, Typed, Done

\* HandshakeRead keeps the invariant.
LEMMA HandshakeReadStep ==
  ASSUME HandshakeInv, HandshakeRead
  PROVE  HandshakeInv'
  <1>0. cop.at = "read" /\ UNCHANGED <<session, round, srv, to_srv, broken, request, response, sop, sent>>
    BY DEF HandshakeRead
  <1>1. PICK got \in Seq(Wire), rest \in Seq(Wire), size \in {1, 2} :
           /\ got \o rest = cli.buffer \o to_cli /\ to_cli' = rest
           /\ to_cli = <<>> => got = cli.buffer /\ rest = <<>>
           /\ Accepted => size = 1
           /\ LET ws == [cli EXCEPT !.buffer = SubSeq(got, size + 1, Len(got))]
                  ok == success(response, round)
              IN \/ /\ Len(got) >= size
                    /\ cop' = Done(cop, IF ok THEN "" ELSE "handshake_failed")
                    /\ cli' = IF ok THEN open(ws, "client", pmd_read(response.ext)) ELSE ws
                 \/ /\ cop' = cop \/ cop' = Done(cop, "error")
                    /\ cli' = [cli EXCEPT !.buffer = got]
    BY HandshakeReads
  <1>2. IsStream(cli)
    BY DEF HandshakeInv, Typed
  <1>3. PICK tail \in Seq(Wire) : tail = SubSeq(got, size + 1, Len(got))
    BY SuffixSeq
  \* What the step may do: open, fail, read on or fail to read.
  <1> DEFINE Opens == /\ Accepted /\ Len(got) >= 1 /\ cop'.at = "done" /\ cop'.ec = ""
                      /\ IsStream(cli') /\ cli'.buffer = SubSeq(got, 2, Len(got)) /\ cli'.used = FALSE
             Fails == cop'.at = "done" /\ cop'.ec # "" /\ IsStream(cli')
             Waits == cop' = cop /\ IsStream(cli') /\ cli'.buffer = got
             OpType == [at : {"idle", "read", "done"}, ec : {"", "error", "handshake_failed"}, async : BOOLEAN]
  <1>4. cop' \in OpType /\ (Opens \/ Fails \/ Waits)
    <2> HIDE DEF Opens, Fails, Waits, OpType
    <2>1. PICK w : w = [cli EXCEPT !.buffer = tail] /\ IsStream(w) /\ w.buffer = tail
      BY <1>2, BufferStream
    <2>2. CASE /\ Len(got) >= size /\ success(response, round)
               /\ cop' = Done(cop, "") /\ cli' = open(w, "client", pmd_read(response.ext))
      <3>1. Accepted
        BY <2>2 DEF success, Accepted
      <3>2. size = 1
        BY <1>1, <3>1
      <3>3. IsStream(cli') /\ cli'.buffer = w.buffer /\ cli'.used = FALSE
        <4>1. PICK o : o = open(w, "client", pmd_read(response.ext)) /\ IsStream(o) /\ o.buffer = w.buffer /\ o.used = FALSE
          BY <2>1, OpenStream
        <4>2. cli' = o
          BY <2>2, <4>1
        <4> QED
          BY <4>1, <4>2
      <3>4. cop' \in OpType /\ cop'.at = "done" /\ cop'.ec = ""
        BY <2>2, DoneOp DEF OpType
      <3>5. Len(got) >= size /\ size + 1 = 2
        <4>1. Len(got) >= size
          BY <2>2
        <4>2. size + 1 = 2
          BY <3>2
        <4> QED
          BY <4>1, <4>2
      <3>6. Len(got) >= 1 /\ w.buffer = SubSeq(got, 2, Len(got))
        BY <1>3, <2>1, <3>2, <3>5
      <3> QED
        BY <3>1, <3>3, <3>4, <3>6 DEF Opens
    <2>3. CASE cop' = Done(cop, "handshake_failed") /\ cli' = w
      BY <2>1, <2>3, DoneOp DEF OpType, Fails
    <2>4. PICK v : v = [cli EXCEPT !.buffer = got] /\ IsStream(v) /\ v.buffer = got
      BY <1>2, BufferStream
    <2>5. CASE cop' = Done(cop, "error") /\ cli' = v
      BY <2>4, <2>5, DoneOp DEF OpType, Fails
    <2>6. CASE cop' = cop /\ cli' = v
      BY <2>4, <2>6 DEF HandshakeInv, Typed, OpType, Waits
    <2> QED
      BY <1>1, <1>3, <2>1, <2>2, <2>3, <2>4, <2>5, <2>6
  <1>5. IsStream(cli')
    BY <1>4
  <1>6. ~(Opened(cop)) /\ (Opened(cop)' => Opens)
    BY <1>0, <1>4 DEF Opened, Ended
  <1> HIDE DEF OpType
  <1>7. Typed'
    BY <1>0, <1>1, <1>4, <1>5 DEF HandshakeInv, Typed, IsStream, OpType
  <1>8. Messages'
    <2>1. cop'.at # "idle"
      BY <1>0, <1>4
    <2> QED
      BY <1>0, <1>6, <2>1 DEF HandshakeInv, Messages, Answered, Accepted, Opened, Ended
  <1>9. ToServer'
    BY <1>0, <1>6 DEF HandshakeInv, ToServer, Early, Opened, Ended
  <1>10. ToClient'
    <2>1. ASSUME ~Answered PROVE to_cli' = <<>> /\ (cop'.at = "read" => cli'.buffer = <<>>)
      <3>1. to_cli = <<>> /\ cli.buffer = <<>> /\ got = <<>> /\ rest = <<>>
        BY <1>0, <1>1, <2>1 DEF HandshakeInv, ToClient
      <3> QED
        BY <1>1, <1>4, <3>1
    <2>2. ASSUME Accepted, cop'.at = "read"
          PROVE  cli'.buffer \o to_cli' = IF sop.ec = "error" THEN <<>> ELSE <<"s1">> \o Sent
      <3>1. cli'.buffer = got
        BY <1>4, <2>2
      <3> QED
        BY <1>0, <1>1, <2>2, <3>1 DEF HandshakeInv, ToClient
    <2>3. ASSUME Opened(cop)' PROVE cli'.buffer \o to_cli' = Sent
      <3>1. Opens
        BY <1>6, <2>3
      <3>2. got \o rest = IF sop.ec = "error" THEN <<>> ELSE <<"s1">> \o Sent
        BY <1>0, <1>1, <3>1 DEF HandshakeInv, ToClient
      <3>3. got # <<>>
        <4>1. Len(got) >= 1
          BY <3>1
        <4>2. Len(<<>>) = 0
          OBVIOUS
        <4> HIDE DEF Opens
        <4> QED
          BY <4>1, <4>2
      <3>4. got \o rest = <<"s1">> \o Sent
        BY <3>2, <3>3, ConcatEqualIffEmpty
      <3>5. PICK p \in Seq(Wire), r \in Seq(Wire) : p = <<"s1">> /\ r = Sent /\ Len(p) = 1
        <4>1. Sent \in Seq(Wire)
          BY SentOctets
        <4>2. <<"s1">> \in Seq(Wire) /\ Len(<<"s1">>) = 1
          BY DEF Wire
        <4> QED
          BY <4>1, <4>2
      <3>6. SubSeq(got, Len(p) + 1, Len(got)) \o rest = r
        <4>1. Len(p) <= Len(got)
          BY <3>1, <3>5
        <4>2. got \o rest = p \o r
          BY <3>4, <3>5
        <4> HIDE DEF Opens
        <4> QED
          BY <4>1, <4>2, DropFront
      <3>7. Len(p) + 1 = 2 /\ cli'.buffer = SubSeq(got, 2, Len(got))
        <4>1. Len(p) + 1 = 2
          BY <3>5
        <4>2. cli'.buffer = SubSeq(got, 2, Len(got))
          BY <3>1
        <4> QED
          BY <4>1, <4>2
      <3> HIDE DEF Opens
      <3> QED
        BY <1>1, <3>5, <3>6, <3>7
    <2> QED
      BY <1>0, <2>1, <2>2, <2>3 DEF HandshakeInv, ToClient, Answered, Accepted, Sent
  <1> QED
    BY <1>7, <1>8, <1>9, <1>10 DEF HandshakeInv

-----------------------------------------------------------------------------
(* The steps of the server *)

OpTypes == [at : {"idle", "read", "respond", "sent", "done"}, ec : {"", "error", "handshake_failed"}, async : BOOLEAN]

\* The client is not open while the server has not answered.
LEMMA NotOpened ==
  ASSUME HandshakeInv, sop.at \in {"idle", "read", "respond"}
  PROVE  ~Opened(cop) /\ ~Accepted /\ ~Answered /\ sop.ec = "" /\ sent = 0 /\ to_cli = <<>>
         /\ (cop.at = "read" => cli.buffer = <<>>)
  BY DEF HandshakeInv, Messages, ToClient, Answered

\* What is left of octets behind the request.
LEMMA BehindRequest ==
  ASSUME NEW u \in Seq(Wire), NEW v \in Seq(Wire), u \o v = <<"q1", "q2">> \o Early, Len(u) >= 2
  PROVE  SubSeq(u, 3, Len(u)) \o v = Early
  <1>1. PICK p \in Seq(Wire), r \in Seq(Wire) : p = <<"q1", "q2">> /\ r = Early /\ Len(p) = 2
    BY RequestOctets
  <1>2. u \o v = p \o r /\ Len(p) <= Len(u)
    BY <1>1
  <1>3. SubSeq(u, Len(p) + 1, Len(u)) \o v = r
    BY <1>2, DropFront
  <1>4. Len(p) + 1 = 3
    BY <1>1
  <1> QED
    BY <1>1, <1>3, <1>4

\* The forms of accept keep the invariant: what the program has read stays in front of what it
\* has not.
LEMMA AcceptStep ==
  ASSUME HandshakeInv, NEW how, how.async \in BOOLEAN, how.request \in BOOLEAN, start_accept(how)
  PROVE  HandshakeInv'
  <1>0. /\ sop.at = "idle" /\ to_srv # <<>>
        /\ UNCHANGED <<session, round, cli, to_cli, broken, request, response, cop, sent>>
    BY DEF start_accept
  <1>1. /\ to_srv \in Seq(Wire) /\ to_srv = <<"q1", "q2">> \o Early /\ cop.at # "idle" /\ IsStream(srv)
        /\ Len(to_srv) \in Nat /\ Len(to_srv) >= 2
    <2>1. to_srv \in Seq(Wire) /\ to_srv = <<"q1", "q2">> \o Early /\ cop.at # "idle" /\ IsStream(srv)
      BY <1>0 DEF HandshakeInv, Typed, Messages, ToServer
    <2> QED
      BY <2>1, RequestOctets, LenProperties
  <1>q. PICK q \in {0, 2} : q = (IF how.request THEN 2 ELSE 0)
    OBVIOUS
  <1>2. PICK k \in 0 .. Len(to_srv) :
          /\ k >= q
          /\ srv' = [reset(srv) EXCEPT !.buffer = SubSeq(to_srv, q + 1, k)]
          /\ to_srv' = SubSeq(to_srv, k + 1, Len(to_srv))
          /\ sop' = [at |-> IF how.request THEN "respond" ELSE "read", ec |-> "", async |-> how.async]
    <2>1. PICK k \in 0 .. Len(to_srv) :
            /\ IF how.buffers THEN k >= q ELSE k = q
            /\ srv' = [reset(srv) EXCEPT !.buffer = SubSeq(to_srv, q + 1, k)]
            /\ to_srv' = SubSeq(to_srv, k + 1, Len(to_srv))
            /\ sop' = [at |-> IF how.request THEN "respond" ELSE "read", ec |-> "", async |-> how.async]
      BY <1>q DEF start_accept
    <2>2. k >= q
      <3>1. k >= q \/ k = q
        BY <2>1
      <3> QED
        BY <1>1, <3>1
    <2> QED
      BY <2>1, <2>2
  <1>3. PICK b \in Seq(Wire), s \in Seq(Wire) :
          /\ b = SubSeq(to_srv, q + 1, k) /\ s = SubSeq(to_srv, k + 1, Len(to_srv))
          /\ b \o s = SubSeq(to_srv, q + 1, Len(to_srv))
    <2>1. k \in Nat /\ q \in Nat
      OBVIOUS
    <2>2. SubSeq(to_srv, k + 1, Len(to_srv)) \in Seq(Wire)
      BY <1>1, <2>1, SuffixSeq
    <2>3. SubSeq(to_srv, q + 1, k) \in Seq(Wire)
      <3>1. \A i \in q + 1 .. k : i \in 1 .. Len(to_srv)
        BY <1>1, <2>1
      <3>2. \A i \in q + 1 .. k : to_srv[i] \in Wire
        BY <1>1, <3>1, ElementOfSeq
      <3>3. q + 1 \in Int /\ k \in Int
        BY <2>1
      <3> QED
        BY <3>2, <3>3, SubSeqProperties
    <2>4. q + 1 \in 1 .. Len(to_srv) + 1 /\ k \in (q + 1) - 1 .. Len(to_srv) /\ Len(to_srv) \in k .. Len(to_srv)
      <3>1. k >= q
        BY <1>2
      <3> QED
        BY <1>1, <2>1, <3>1
    <2>5. SubSeq(to_srv, q + 1, k) \o SubSeq(to_srv, k + 1, Len(to_srv)) = SubSeq(to_srv, q + 1, Len(to_srv))
      BY <1>1, <2>4, ConcatAdjacentSubSeq
    <2> QED
      BY <2>2, <2>3, <2>5
  <1>4. IsStream(srv') /\ srv'.buffer = b /\ to_srv' = s
    <2>1. PICK w : w = reset(srv) /\ IsStream(w)
      BY <1>1, ResetStream
    <2> QED
      BY <1>2, <1>3, <2>1, BufferStream
  <1>5. \/ ~how.request /\ b \o s = <<"q1", "q2">> \o Early /\ sop'.at = "read"
        \/ how.request /\ b \o s = Early /\ sop'.at = "respond"
    <2>1. CASE ~how.request
      <3>1. q + 1 = 1 /\ sop'.at = "read"
        <4>1. q = 0
          BY <1>q, <2>1
        <4>2. sop'.at = "read"
          BY <1>2, <2>1
        <4> QED
          BY <4>1, <4>2
      <3> QED
        BY <1>1, <1>3, <2>1, <3>1, SubSeqFull
    <2>2. CASE how.request
      <3>1. q + 1 = 3 /\ sop'.at = "respond"
        <4>1. q = 2
          BY <1>q, <2>2
        <4>2. sop'.at = "respond"
          BY <1>2, <2>2
        <4> QED
          BY <4>1, <4>2
      <3>2. <<>> \in Seq(Wire) /\ to_srv \o <<>> = to_srv
        BY <1>1, EmptySeq, ConcatEmptySeq
      <3>3. SubSeq(to_srv, 3, Len(to_srv)) \o <<>> = Early
        BY <1>1, <3>2, BehindRequest
      <3>4. b \o s \in Seq(Wire)
        BY ConcatProperties
      <3>5. b \o s = SubSeq(to_srv, 3, Len(to_srv))
        BY <1>3, <3>1
      <3> QED
        BY <2>2, <3>1, <3>3, <3>4, <3>5, ConcatEmptySeq
    <2> QED
      BY <2>1, <2>2
  <1>6. sop' \in OpTypes /\ sop'.ec = "" /\ sop'.at \in {"read", "respond"}
    BY <1>2 DEF OpTypes
  <1>7. /\ ~Opened(cop) /\ ~Accepted /\ ~Answered /\ sop.ec = "" /\ sent = 0 /\ to_cli = <<>>
        /\ (cop.at = "read" => cli.buffer = <<>>)
    BY <1>0, NotOpened
  <1>8. Typed'
    BY <1>0, <1>4, <1>6 DEF HandshakeInv, Typed, IsStream, OpTypes
  <1>9. Messages'
    BY <1>0, <1>1, <1>6, <1>7 DEF HandshakeInv, Messages, Answered, Accepted, Opened, Ended
  <1>10. ToServer'
    BY <1>0, <1>4, <1>5, <1>6, <1>7 DEF HandshakeInv, ToServer, Early, Opened, Ended
  <1>11. ToClient'
    BY <1>0, <1>6, <1>7 DEF HandshakeInv, ToClient, Answered, Accepted, Opened, Ended
  <1> QED
    BY <1>8, <1>9, <1>10, <1>11 DEF HandshakeInv

\* AcceptRead keeps the invariant.
LEMMA AcceptReadStep ==
  ASSUME HandshakeInv, AcceptRead
  PROVE  HandshakeInv'
  <1>0. /\ sop.at = "read"
        /\ UNCHANGED <<session, round, cli, to_cli, broken, request, response, cop, sent>>
    BY DEF AcceptRead
  <1>1. /\ srv.buffer \in Seq(Wire) /\ to_srv \in Seq(Wire) /\ IsStream(srv) /\ sop \in OpTypes
        /\ srv.buffer \o to_srv = <<"q1", "q2">> \o Early /\ cop.at # "idle"
    BY <1>0 DEF HandshakeInv, Typed, IsStream, OpTypes, ToServer, Messages
  <1>2. PICK n \in 0 .. Len(to_srv) :
          LET got == srv.buffer \o SubSeq(to_srv, 1, n)
              whole == Len(got) >= 2
          IN /\ to_srv' = SubSeq(to_srv, n + 1, Len(to_srv))
             /\ srv' = [srv EXCEPT !.buffer = IF whole THEN SubSeq(got, 3, Len(got)) ELSE got]
             /\ sop' = IF whole THEN [sop EXCEPT !.at = "respond"]
                       ELSE IF n = 0 THEN Done(sop, "error") ELSE sop
    BY DEF AcceptRead
  <1>3. PICK got \in Seq(Wire), rest \in Seq(Wire) :
          /\ got = srv.buffer \o SubSeq(to_srv, 1, n) /\ rest = SubSeq(to_srv, n + 1, Len(to_srv))
          /\ got \o rest = srv.buffer \o to_srv
    <2>1. PICK b \in Seq(Wire), s \in Seq(Wire) : b = srv.buffer /\ s = to_srv
      BY <1>1
    <2>2. /\ b \o SubSeq(s, 1, n) \in Seq(Wire) /\ SubSeq(s, n + 1, Len(s)) \in Seq(Wire)
          /\ (b \o SubSeq(s, 1, n)) \o SubSeq(s, n + 1, Len(s)) = b \o s
      BY <2>1, MoveFront
    <2> QED
      BY <2>1, <2>2
  <1>4. PICK tail \in Seq(Wire) : tail = SubSeq(got, 3, Len(got))
    <2>1. 2 + 1 = 3 /\ 2 \in Nat
      OBVIOUS
    <2>2. SubSeq(got, 2 + 1, Len(got)) \in Seq(Wire)
      BY <2>1, SuffixSeq
    <2> QED
      BY <2>1, <2>2
  \* The request is complete, or not yet, or never.
  <1> DEFINE Whole == /\ sop' = [sop EXCEPT !.at = "respond"] /\ srv' = [srv EXCEPT !.buffer = tail]
                      /\ tail \o rest = Early
             Waits == sop' = sop /\ srv' = [srv EXCEPT !.buffer = got]
             Fails == sop' = Done(sop, "error") /\ srv' = [srv EXCEPT !.buffer = got]
  <1>5. to_srv' = rest /\ (Whole \/ Waits \/ Fails)
    <2>1. CASE Len(got) >= 2
      <3>1. tail \o rest = Early
        <4>1. got \o rest = <<"q1", "q2">> \o Early
          BY <1>1, <1>3
        <4>2. SubSeq(got, 3, Len(got)) \o rest = Early
          BY <2>1, <4>1, BehindRequest
        <4> QED
          BY <1>4, <4>2
      <3> QED
        BY <1>2, <1>3, <1>4, <2>1, <3>1
    <2>2. CASE ~(Len(got) >= 2)
      BY <1>2, <1>3, <2>2
    <2> QED
      BY <2>1, <2>2
  <1>6. PICK w : /\ w = [srv EXCEPT !.buffer = tail] /\ IsStream(w) /\ w.buffer = tail
    BY <1>1, BufferStream
  <1>7. PICK v : /\ v = [srv EXCEPT !.buffer = got] /\ IsStream(v) /\ v.buffer = got
    BY <1>1, BufferStream
  <1>8. /\ ~Opened(cop) /\ ~Accepted /\ ~Answered /\ sop.ec = "" /\ sent = 0 /\ to_cli = <<>>
        /\ (cop.at = "read" => cli.buffer = <<>>)
    BY <1>0, NotOpened
  <1>9. /\ sop' \in OpTypes
        /\ \/ sop'.at = "respond" /\ sop'.ec = "" /\ srv' = w /\ tail \o rest = Early
           \/ sop'.at = "read" /\ sop'.ec = "" /\ srv' = v
           \/ sop'.at = "done" /\ sop'.ec = "error" /\ srv' = v
    <2>1. CASE Whole
      BY <1>1, <1>6, <1>8, <2>1 DEF OpTypes
    <2>2. CASE Waits
      BY <1>0, <1>1, <1>7, <1>8, <2>2
    <2>3. CASE Fails
      BY <1>7, <2>3, DoneOp DEF OpTypes
    <2> QED
      BY <1>5, <2>1, <2>2, <2>3
  <1>10. to_srv' = rest
    BY <1>5
  <1> HIDE DEF Whole, Waits, Fails
  <1>11. Typed'
    <2>1. IsStream(srv')
      BY <1>6, <1>7, <1>9
    <2> QED
      BY <1>0, <1>9, <1>10, <2>1 DEF HandshakeInv, Typed, IsStream, OpTypes
  <1>12. Messages'
    BY <1>0, <1>1, <1>8, <1>9 DEF HandshakeInv, Messages, Answered, Accepted, Opened, Ended
  <1>13. ToServer'
    <2>1. CASE sop'.at = "respond" /\ sop'.ec = "" /\ srv' = w /\ tail \o rest = Early
      BY <1>0, <1>6, <1>8, <1>10, <2>1 DEF ToServer, Early, Opened, Ended
    <2>2. CASE sop'.at = "read" /\ sop'.ec = "" /\ srv' = v
      BY <1>0, <1>1, <1>3, <1>7, <1>10, <2>2 DEF ToServer, Early, Opened, Ended
    <2>3. CASE sop'.at = "done" /\ sop'.ec = "error"
      BY <2>3 DEF ToServer, Opened, Ended
    <2> QED
      BY <1>9, <2>1, <2>2, <2>3
  <1>14. ToClient'
    BY <1>0, <1>8 DEF ToClient, Answered, Accepted, Opened, Ended
  <1> QED
    BY <1>11, <1>12, <1>13, <1>14 DEF HandshakeInv

\* Respond keeps the invariant: the server accepts a proper request only.
LEMMA RespondStep ==
  ASSUME HandshakeInv, Respond
  PROVE  HandshakeInv'
  <1>0. /\ sop.at = "respond"
        /\ UNCHANGED <<session, round, cli, srv, to_srv, broken, request, cop, sent>>
    BY DEF Respond
  <1>1. /\ response' = build_response(session.sopts, request, session.res)
        /\ \/ broken /\ sop' = Done(sop, "error") /\ to_cli' = to_cli
           \/ /\ ~broken /\ sop' = [sop EXCEPT !.at = "sent"]
              /\ to_cli' = <<"s1">> \o IF response'.body /\ ~sop.async THEN <<"s2">> ELSE <<>>
    BY DEF Respond
  <1>2. /\ ~Opened(cop) /\ ~Accepted /\ ~Answered /\ sop.ec = "" /\ sent = 0 /\ to_cli = <<>>
        /\ (cop.at = "read" => cli.buffer = <<>>)
    BY <1>0, NotOpened
  <1>3. session \in Sessions /\ round \in 1 .. LongKey - 1
    <2>1. session \in Sessions /\ round \in 1 .. session.rounds
      BY DEF HandshakeInv, Typed
    <2>2. session.rounds \in 1 .. 98
      BY <2>1, SessionsAssumption DEF LongKey
    <2> QED
      BY <2>1, <2>2 DEF LongKey
  <1>4. ASSUME Accepted' PROVE WellFormed(request) /\ request.key = round /\ ~response'.body
    <2>1. ~refused(request) /\ request.wsversion = "13" /\ ~response'.body
      <3>1. PICK r : r = response' /\ r = build_response(session.sopts, request, session.res) /\ r.status = 101
        BY <1>1, <1>4 DEF Accepted
      <3>2. ~refused(request) /\ request.wsversion = "13" /\ ~build_response(session.sopts, request, session.res).body
        BY <1>3, <3>1, ResponseShape
      <3> QED
        BY <3>1, <3>2
    <2>2. request # NoReq
      <3>1. NoReq.key = 0
        BY DEF NoReq, build_request, decorate
      <3> QED
        BY <2>1, <3>1 DEF refused
    <2>3. request = build_request(session.copts, round, session.req)
      BY <2>2 DEF HandshakeInv, Messages
    <2> QED
      BY <1>3, <2>1, <2>3, RequestShape
  <1>5. /\ sop' \in OpTypes
        /\ \/ broken /\ sop'.at = "done" /\ sop'.ec = "error" /\ to_cli' = <<>>
           \/ ~broken /\ sop'.at = "sent" /\ sop'.ec = "" /\ (Accepted' => to_cli' = <<"s1">> \o <<>>)
    <2>1. CASE broken /\ sop' = Done(sop, "error") /\ to_cli' = to_cli
      BY <1>2, <2>1, DoneOp DEF OpTypes
    <2>2. CASE /\ ~broken /\ sop' = [sop EXCEPT !.at = "sent"]
               /\ to_cli' = <<"s1">> \o IF response'.body /\ ~sop.async THEN <<"s2">> ELSE <<>>
      <3>1. sop' \in OpTypes /\ sop'.at = "sent" /\ sop'.ec = ""
        BY <1>2, <2>2 DEF HandshakeInv, Typed, OpTypes
      <3>2. Accepted' => to_cli' = <<"s1">> \o <<>>
        BY <1>4, <2>2
      <3> QED
        BY <2>2, <3>1, <3>2
    <2> QED
      BY <1>1, <2>1, <2>2
  <1>6. to_cli' \in Seq(Wire)
    <2>1. <<>> \in Seq(Wire) /\ <<"s1">> \in Seq(Wire) /\ <<"s2">> \in Seq(Wire)
      BY EmptySeq DEF Wire
    <2>2. PICK a \in Seq(Wire), b \in Seq(Wire), c \in Seq(Wire) : a = <<"s1">> /\ b = <<>> /\ c = <<"s2">>
      BY <2>1
    <2>3. a \o b \in Seq(Wire) /\ a \o c \in Seq(Wire)
      BY ConcatProperties
    <2> QED
      BY <1>1, <1>2, <2>1, <2>2, <2>3
  <1>7. Typed'
    BY <1>0, <1>5, <1>6 DEF HandshakeInv, Typed, IsStream, OpTypes
  <1>8. Messages'
    BY <1>0, <1>2, <1>4, <1>5 DEF HandshakeInv, Messages, Answered, Opened, Ended
  <1>9. ToServer'
    BY <1>0, <1>2, <1>5 DEF HandshakeInv, ToServer, Early, Opened, Ended
  <1>10. ToClient'
    <2>1. Sent = <<>> /\ Sent' = Sent
      <3>1. Sent \in Seq(Wire) /\ Len(Sent) = 0
        BY <1>2, SentOctets
      <3> QED
        BY <1>0, <3>1, EmptySeq DEF Sent
    <2>2. ASSUME Accepted', cop.at = "read"
          PROVE  cli.buffer \o to_cli' = IF sop'.ec = "error" THEN <<>> ELSE <<"s1">> \o Sent
      <3>1. cli.buffer = <<>> /\ <<>> \o to_cli' = to_cli'
        BY <1>2, <1>6, <2>2, ConcatEmptySeq
      <3> QED
        BY <1>5, <2>1, <2>2, <3>1
    <2> QED
      BY <1>0, <1>2, <1>5, <2>1, <2>2 DEF ToClient, Answered, Opened, Ended
  <1> QED
    BY <1>7, <1>8, <1>9, <1>10 DEF HandshakeInv

\* Responded keeps the invariant.
LEMMA RespondedStep ==
  ASSUME HandshakeInv, Responded
  PROVE  HandshakeInv'
  <1>0. /\ sop.at = "sent" /\ sop.ec = ""
        /\ UNCHANGED <<session, round, cli, to_srv, to_cli, broken, request, response, cop, sent>>
    BY DEF Responded, HandshakeInv, Messages
  <1>1. /\ sop' \in OpTypes /\ sop'.at = "done"
        /\ sop'.ec = IF Accepted THEN "" ELSE "handshake_failed"
    BY DoneOp DEF Responded, Accepted, OpTypes
  <1>2. IsStream(srv') /\ srv'.buffer = srv.buffer
    <2>1. IsStream(srv)
      BY DEF HandshakeInv, Typed
    <2>2. PICK o : o = open(srv, "server", settings(sop)) /\ IsStream(o) /\ o.buffer = srv.buffer
      BY <2>1, OpenStream
    <2>3. srv' = srv \/ srv' = o
      BY <2>2 DEF Responded
    <2> QED
      BY <2>1, <2>2, <2>3
  <1>3. Typed'
    BY <1>0, <1>1, <1>2 DEF HandshakeInv, Typed, IsStream, OpTypes
  <1>4. Messages'
    BY <1>0, <1>1 DEF HandshakeInv, Messages, Answered, Accepted, Opened, Ended
  <1>5. ToServer'
    BY <1>0, <1>1, <1>2 DEF HandshakeInv, ToServer, Early, Opened, Ended
  <1>6. ToClient'
    BY <1>0, <1>1 DEF HandshakeInv, ToClient, Answered, Accepted, Opened, Ended, Sent
  <1> QED
    BY <1>3, <1>4, <1>5, <1>6 DEF HandshakeInv

-----------------------------------------------------------------------------
(* Frames, failure and new connections *)

\* The octets of a frame and of a response's header.
LEMMA OneOctet == <<"f">> \in Seq(Wire) /\ <<"s1">> \in Seq(Wire)
  BY DEF Wire

\* A frame of the client goes behind the request.
LEMMA ClientSends ==
  ASSUME HandshakeInv, Opened(cop), ~session.early, to_srv = <<>>, ~cli.used, to_srv' = <<"f">>,
         cli' = [cli EXCEPT !.used = TRUE],
         UNCHANGED <<srv, to_cli, sent, session, round, broken, request, response, cop, sop>>
  PROVE  HandshakeInv'
  <1>1. IsStream(cli') /\ cli'.buffer = cli.buffer /\ cli'.used = TRUE
    <2>1. IsStream(cli)
      BY DEF HandshakeInv, Typed
    <2> QED
      BY <2>1, UsedStream
  <1>2. Accepted /\ Answered /\ cop.at = "done" /\ sop.at \in {"sent", "done"}
    BY DEF HandshakeInv, Messages, Opened, Ended, Answered
  <1>3. Typed'
    <2>1. <<"f">> \in Seq(Wire)
      BY OneOctet
    <2> QED
      BY <1>1, <2>1 DEF HandshakeInv, Typed, IsStream
  <1>4. Messages'
    BY <1>2 DEF HandshakeInv, Messages, Answered, Accepted, Opened, Ended
  <1>5. ToServer'
    <2>1. ASSUME sop.at = "sent" \/ Opened(sop) PROVE srv.buffer \o to_srv' = <<"f">>
      <3>1. srv.buffer \in Seq(Wire) /\ <<>> \in Seq(Wire) /\ <<"f">> \in Seq(Wire)
        <4>1. srv.buffer \in Seq(Wire)
          BY DEF HandshakeInv, Typed, IsStream
        <4> QED
          BY <4>1, EmptySeq, OneOctet
      <3>2. srv.buffer \o <<>> = <<>>
        BY <2>1 DEF HandshakeInv, ToServer
      <3>3. srv.buffer = <<>>
        BY <3>1, <3>2, ConcatEmptySeq
      <3>4. <<>> \o <<"f">> = <<"f">>
        BY <3>1, ConcatEmptySeq
      <3> QED
        BY <3>3, <3>4
    <2> QED
      BY <1>1, <1>2, <2>1 DEF ToServer, Opened, Ended
  <1>6. ToClient'
    BY <1>1, <1>2 DEF HandshakeInv, ToClient, Answered, Accepted, Opened, Ended, Sent
  <1> QED
    BY <1>3, <1>4, <1>5, <1>6 DEF HandshakeInv

\* A frame of the server goes behind the response.
LEMMA ServerSends ==
  ASSUME HandshakeInv, Opened(sop), to_cli' = Append(to_cli, "f"), sent' = sent + 1,
         srv' = [srv EXCEPT !.used = TRUE],
         UNCHANGED <<cli, to_srv, session, round, broken, request, response, cop, sop>>
  PROVE  HandshakeInv'
  <1>1. IsStream(srv') /\ srv'.buffer = srv.buffer
    <2>1. IsStream(srv)
      BY DEF HandshakeInv, Typed
    <2> QED
      BY <2>1, UsedStream
  <1>2. Accepted /\ Answered /\ sop.ec = "" /\ cli.buffer \in Seq(Wire) /\ to_cli \in Seq(Wire) /\ "f" \in Wire
    BY DEF HandshakeInv, Messages, Typed, IsStream, Opened, Ended, Answered, Wire
  <1>3. Typed'
    <2>1. to_cli' \in Seq(Wire)
      BY <1>2, AppendProperties
    <2>2. sent' \in Nat
      <3>1. sent \in Nat
        BY DEF HandshakeInv, Typed
      <3> QED
        BY <3>1
    <2> QED
      BY <1>1, <2>1, <2>2 DEF HandshakeInv, Typed, IsStream
  <1>4. Messages'
    BY DEF HandshakeInv, Messages, Answered, Accepted, Opened, Ended
  <1>5. ToServer'
    BY <1>1 DEF HandshakeInv, ToServer, Early, Opened, Ended
  <1>6. ToClient'
    <2>1. PICK f \in Seq(Wire) : f = <<"f">>
      BY OneOctet
    <2>2. PICK s \in Seq(Wire) : s = Sent /\ Sent' = s \o f
      <3>1. Sent \in Seq(Wire) /\ Sent' = Append(Sent, "f")
        BY SentOctets DEF Sent
      <3> QED
        BY <1>2, <2>1, <3>1, AppendIsConcat
    <2>3. PICK b \in Seq(Wire), t \in Seq(Wire) : b = cli.buffer /\ t = to_cli /\ to_cli' = t \o f
      BY <1>2, <2>1, AppendIsConcat
    <2>4. b \o (t \o f) = (b \o t) \o f
      BY Associative
    <2>5. ASSUME cop.at = "read" PROVE cli.buffer \o to_cli' = <<"s1">> \o Sent'
      <3>1. b \o t = <<"s1">> \o s
        BY <1>2, <2>2, <2>3, <2>5 DEF HandshakeInv, ToClient
      <3>2. PICK h \in Seq(Wire) : h = <<"s1">>
        BY OneOctet
      <3>3. h \o (s \o f) = (h \o s) \o f
        BY Associative
      <3> QED
        BY <2>2, <2>3, <2>4, <3>1, <3>2, <3>3
    <2>6. ASSUME Opened(cop) PROVE cli.buffer \o to_cli' = Sent'
      <3>1. b \o t = s
        BY <2>2, <2>3, <2>6 DEF HandshakeInv, ToClient
      <3> QED
        BY <2>2, <2>3, <2>4, <3>1
    <2> QED
      BY <1>2, <2>5, <2>6 DEF ToClient, Answered, Accepted, Opened, Ended
  <1> QED
    BY <1>3, <1>4, <1>5, <1>6 DEF HandshakeInv

\* A new connection starts without octets and messages of the last one.
LEMMA ReconnectStep ==
  ASSUME HandshakeInv, Reconnect
  PROVE  HandshakeInv'
  <1>1. /\ cop' = Idle /\ sop' = Idle /\ to_srv' = <<>> /\ to_cli' = <<>> /\ broken' = FALSE /\ sent' = 0
        /\ request' = NoReq /\ response' = NoRes /\ UNCHANGED <<session, cli, srv>>
    BY DEF Reconnect
  <1>2. Idle.at = "idle" /\ Idle.ec = "" /\ Idle \in [at : {"idle"}, ec : {""}, async : BOOLEAN]
    BY DEF Idle
  <1>3. ~Accepted'
    BY <1>1, NoRequest DEF Accepted
  <1>4. Typed'
    <2>1. round' \in 1 .. session.rounds
      <3>1. session \in Sessions /\ round \in 1 .. session.rounds
        BY DEF HandshakeInv, Typed
      <3>2. session.rounds \in 1 .. 98
        BY <3>1, SessionsAssumption DEF LongKey
      <3>3. round < session.rounds /\ round' = round + 1
        BY DEF Reconnect
      <3> QED
        BY <3>1, <3>2, <3>3
    <2>2. <<>> \in Seq(Wire)
      BY EmptySeq
    <2> QED
      BY <1>1, <1>2, <2>1, <2>2 DEF HandshakeInv, Typed, IsStream
  <1>5. Messages'
    BY <1>1, <1>2, <1>3 DEF Messages, Answered, Opened, Ended
  <1>6. ToServer'
    BY <1>1, <1>2 DEF ToServer, Opened, Ended
  <1>7. ToClient'
    BY <1>1, <1>2, <1>3 DEF ToClient, Answered, Opened, Ended
  <1> QED
    BY <1>4, <1>5, <1>6, <1>7 DEF HandshakeInv

\* A connection that breaks, and a step of something else.
LEMMA UnchangedStep ==
  ASSUME HandshakeInv, broken' \in BOOLEAN,
         UNCHANGED <<session, round, cli, srv, to_srv, to_cli, request, response, cop, sop, sent>>
  PROVE  HandshakeInv'
  <1>1. Typed'
    BY DEF HandshakeInv, Typed, IsStream
  <1>2. Messages'
    BY DEF HandshakeInv, Messages, Answered, Accepted, Opened, Ended
  <1>3. ToServer'
    BY DEF HandshakeInv, ToServer, Early, Opened, Ended
  <1>4. ToClient'
    BY DEF HandshakeInv, ToClient, Sent, Answered, Accepted, Opened, Ended
  <1> QED
    BY <1>1, <1>2, <1>3, <1>4 DEF HandshakeInv

\* The invariant is inductive.
LEMMA InvStep == HandshakeInv /\ [Next]_vars => HandshakeInv'
  <1> SUFFICES ASSUME HandshakeInv, [Next]_vars PROVE HandshakeInv'
    OBVIOUS
  <1>1. CASE Handshake \/ AsyncHandshake
    BY <1>1, SendRequestStep DEF Handshake, AsyncHandshake
  <1>2. CASE HandshakeRead
    BY <1>2, HandshakeReadStep
  <1>3. CASE Accept \/ AcceptRequest \/ AsyncAccept \/ AsyncAcceptRequest
    <2>1. PICK how : how.async \in BOOLEAN /\ how.request \in BOOLEAN /\ start_accept(how)
      BY <1>3 DEF Accept, AcceptRequest, AsyncAccept, AsyncAcceptRequest
    <2> QED
      BY <2>1, AcceptStep
  <1>4. CASE AcceptRead
    BY <1>4, AcceptReadStep
  <1>5. CASE Respond
    BY <1>5, RespondStep
  <1>6. CASE Responded
    BY <1>6, RespondedStep
  <1>7. CASE Break
    BY <1>7, UnchangedStep DEF Break
  <1>8. CASE Send
    BY <1>8, ClientSends, ServerSends DEF Send
  <1>9. CASE Reconnect
    BY <1>9, ReconnectStep
  <1>10. CASE UNCHANGED vars
    <2>1. broken' \in BOOLEAN
      BY <1>10 DEF vars, HandshakeInv, Typed
    <2> QED
      BY <1>10, <2>1, UnchangedStep DEF vars
  <1> QED
    BY <1>1, <1>2, <1>3, <1>4, <1>5, <1>6, <1>7, <1>8, <1>9, <1>10 DEF Next, Operation

\* An end opens only for a proper request of this connection, and the client only if the server
\* has accepted this very request: for every set of options, every decorator of one field, every
\* form of accept and up to 98 connections of the same two streams.
THEOREM EndsOpenDeservedly == Spec => []OpensDeservedly
  <1>1. HandshakeInv => OpensDeservedly
    BY DEF HandshakeInv, Messages, OpensDeservedly, Answered, Opened, Typed
  <1> QED
    BY <1>1, InvInit, InvStep, PTL DEF Spec

\* A frame sent right behind the request or the response is neither lost nor preceded by octets
\* of the handshake or of a former connection, however the octets are split over the reads of
\* the two ends and those of the program that calls accept.
THEOREM FramesSurviveHandshake == Spec => []NothingLost
  <1>1. HandshakeInv => NothingLost
    BY DEF HandshakeInv, ToServer, ToClient, NothingLost, Sent
  <1> QED
    BY <1>1, InvInit, InvStep, PTL DEF Spec
=============================================================================
