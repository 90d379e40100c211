---------------------------- MODULE WsHandshake ----------------------------
(***************************************************************************)
(* The opening handshake of two websocket streams over one connection:     *)
(* handshake and async_handshake at the client, the forms of accept and    *)
(* async_accept at the server, and the negotiation of permessage-deflate.  *)
(* Both streams may be used again for a new connection.                    *)
(*                                                                         *)
(* The connection carries the two halves of the request's header ("q1",    *)
(* "q2"), the response's header and body ("s1", "s2") and frames ("f").    *)
(* A decorator is a field of the message and the value it gives it.        *)
(***************************************************************************)
EXTENDS Integers, Sequences, SequencesExt, FiniteSets, FiniteSetsExt

CONSTANTS
  Sessions    \* [copts, sopts, req, res, early, accepts, rounds]: the options of the client and
              \* of the server, their decorators, whether the client sends a frame at once, the
              \* forms of accept [async, request, buffers], and the bound of connections

VARIABLES
  session, round,
  cli, srv,     \* the streams: config, pmd and buffer, and used: the state of messages
  to_srv, to_cli, broken,   \* the connection
  request, response,        \* the messages sent on it
  cop, sop,     \* the operations: at, ec; accept's form and request
  sent          \* frames the server sent

\* What is assumed of the sessions: a decorator sets one field, which for the request's version
\* and key is one a parser gives and one no client makes, and never the response's status or body.
LongKey == 99
ASSUME SessionsAssumption ==
  \A s \in Sessions :
    /\ s.early \in BOOLEAN /\ s.rounds \in 1 .. LongKey - 1
    /\ s.req[1] \in {"none", "version", "method", "connection", "host", "upgrade", "key", "wsversion", "ext"}
    /\ s.req[1] = "version" => s.req[2] \in {10, 11}
    /\ s.req[1] = "host" => s.req[2] \in BOOLEAN
    /\ s.req[1] = "key" => s.req[2] \in {0, LongKey}
    /\ s.res[1] \in {"none", "version", "connection", "upgrade", "accept", "ext"}

vars == <<session, round, cli, srv, to_srv, to_cli, broken, request, response, cop, sop, sent>>

-----------------------------------------------------------------------------
(* The fields of permessage-deflate.  An extension is a name and its       *)
(* parameters, a parameter a name and its value, the sequence of its       *)
(* digits; 10 stands for any other character.                              *)

to_string(n) == IF n < 10 THEN <<n>> ELSE <<n \div 10, n % 10>>

parse_bits(s) ==
  IF Len(s) \notin 1 .. 2 \/ s[1] \notin 1 .. 9 \/ s[Len(s)] = 10 THEN -1
  ELSE IF Len(s) = 1 THEN s[1] ELSE 10 * s[1] + s[2]

pmd_offer == [accept |-> FALSE, server_max_window_bits |-> 0, client_max_window_bits |-> 0,
              server_no_context_takeover |-> FALSE, client_no_context_takeover |-> FALSE]
window_params == {"server_max_window_bits", "client_max_window_bits"}
takeover_params == {"server_no_context_takeover", "client_no_context_takeover"}

\* One parameter: the offer with it, and whether to go on.
pmd_param(offer, name, value) ==
  LET bits == IF value = <<>> THEN -1 ELSE parse_bits(value)
      decline == [ok |-> FALSE, offer |-> offer]
  IN IF name \in window_params
     THEN IF offer[name] # 0 \/ (value = <<>> /\ name = "server_max_window_bits") THEN decline
          ELSE [ok |-> value = <<>> \/ bits \in 8 .. 15, offer |-> [offer EXCEPT ![name] = bits]]
     ELSE IF name \in takeover_params
     THEN IF offer[name] \/ value # <<>> THEN decline ELSE [ok |-> TRUE, offer |-> [offer EXCEPT ![name] = TRUE]]
     ELSE decline

\* The first permessage-deflate of the list counts, and is declined if any of it is wrong.
pmd_read(list) ==
  LET pmd == SelectSeq(list, LAMBDA e : e.name = "permessage-deflate")
      params == pmd[1].params
      upto[i \in 0 .. Len(params)] ==
        IF i = 0 THEN [ok |-> TRUE, offer |-> pmd_offer]
        ELSE IF ~upto[i - 1].ok THEN upto[i - 1] ELSE pmd_param(upto[i - 1].offer, params[i][1], params[i][2])
  IN IF pmd = <<>> THEN pmd_offer
     ELSE [upto[Len(params)].offer EXCEPT !.accept = upto[Len(params)].ok]

Param(name, bits) == IF bits = 0 THEN <<>> ELSE <<<<name, IF bits = -1 THEN <<>> ELSE to_string(bits)>>>>
Flag(name, on) == IF on THEN <<<<name, <<>>>>>> ELSE <<>>

pmd_write(offer) ==
  <<[name |-> "permessage-deflate",
     params |-> Param("server_max_window_bits", offer.server_max_window_bits)
                \o Param("client_max_window_bits", offer.client_max_window_bits)
                \o Flag("server_no_context_takeover", offer.server_no_context_takeover)
                \o Flag("client_no_context_takeover", offer.client_no_context_takeover)]>>

\* Bug: the server's window may be one of 8 bits, which deflate_stream makes 9.
pmd_negotiate_Eight(offer, o) ==
  LET sbits == IF offer.server_max_window_bits # 0
               THEN Min({offer.server_max_window_bits, o.server_max_window_bits}) ELSE o.server_max_window_bits
      cbits == IF offer.client_max_window_bits > 0
               THEN Min({offer.client_max_window_bits, o.client_max_window_bits}) ELSE o.client_max_window_bits
      shown == offer.client_max_window_bits > 0 \/ (offer.client_max_window_bits = -1 /\ cbits < 15)
      accept == /\ offer.accept /\ o.server_enable
                /\ offer.client_max_window_bits # 0 \/ o.client_max_window_bits = 15
  IN IF ~accept THEN <<>>
     ELSE <<[name |-> "permessage-deflate",
             params |-> Flag("server_no_context_takeover", offer.server_no_context_takeover \/ o.server_no_context_takeover)
                        \o Flag("client_no_context_takeover", offer.client_no_context_takeover \/ o.client_no_context_takeover)
                        \o Param("server_max_window_bits", IF sbits < 15 THEN sbits ELSE 0)
                        \o Param("client_max_window_bits", IF shown THEN cbits ELSE 0)]>>

\* The extensions of the response: none if the offer is declined.
pmd_negotiate(offer, o) ==
  LET sbits == IF offer.server_max_window_bits # 0
               THEN Min({offer.server_max_window_bits, o.server_max_window_bits}) ELSE o.server_max_window_bits
      cbits == IF offer.client_max_window_bits > 0
               THEN Min({offer.client_max_window_bits, o.client_max_window_bits}) ELSE o.client_max_window_bits
      shown == offer.client_max_window_bits > 0 \/ (offer.client_max_window_bits = -1 /\ cbits < 15)
      accept == /\ offer.accept /\ o.server_enable
                /\ offer.client_max_window_bits # 0 \/ o.client_max_window_bits = 15
  IN IF ~accept THEN <<>>
     ELSE <<[name |-> "permessage-deflate",
             params |-> Flag("server_no_context_takeover", offer.server_no_context_takeover \/ o.server_no_context_takeover)
                        \o Flag("client_no_context_takeover", offer.client_no_context_takeover \/ o.client_no_context_takeover)
                        \o Param("server_max_window_bits", IF sbits < 15 THEN Max({sbits, 9}) ELSE 0)
                        \o Param("client_max_window_bits", IF shown THEN cbits ELSE 0)]>>

pmd_normalize(c) ==
  IF ~c.accept THEN c
  ELSE [c EXCEPT !.server_max_window_bits = IF @ = 0 THEN 15 ELSE @,
                 !.client_max_window_bits = IF @ \in {0, -1} THEN 15 ELSE @]

\* set_option: the options that do not throw
set_option(o) == o.server_max_window_bits \in 9 .. 15 /\ o.client_max_window_bits \in 9 .. 15

-----------------------------------------------------------------------------
(* The streams and the messages *)

NoPmd == [on |-> FALSE, zi |-> 0, zo |-> 0]
stream(opts) == [opts |-> opts, config |-> pmd_offer, pmd |-> NoPmd, buffer |-> <<>>, used |-> FALSE]

\* Bug: what the last connection left in the buffer stays there.
reset_Keeps(ws) == [ws EXCEPT !.used = FALSE]

reset(ws) == [ws EXCEPT !.used = FALSE, !.buffer = <<>>]

\* deflate_stream::reset makes a window of 9 bits of one of 8.
open(ws, role, config) ==
  LET c == pmd_normalize(config)
      own == IF role = "client" THEN c.client_max_window_bits ELSE c.server_max_window_bits
      other == IF role = "client" THEN c.server_max_window_bits ELSE c.client_max_window_bits
      enabled == IF role = "client" THEN ws.opts.client_enable ELSE ws.opts.server_enable
  IN IF enabled /\ config.accept
     THEN [ws EXCEPT !.config = c, !.used = FALSE, !.pmd = [on |-> TRUE, zi |-> other, zo |-> Max({own, 9})]]
     ELSE [ws EXCEPT !.config = config, !.used = FALSE]

decorate(msg, d) == IF d[1] = "none" THEN msg ELSE [msg EXCEPT ![d[1]] = d[2]]

\* make_sec_ws_key: a new key for each request; make_sec_ws_accept of it is known to have that key
build_request(opts, key, decorator) ==
  decorate([version |-> 11, method |-> "GET", connection |-> "upgrade", host |-> TRUE, upgrade |-> "websocket",
            key |-> key, wsversion |-> "13",
            ext |-> IF opts.client_enable
                    THEN pmd_write([accept |-> TRUE, server_max_window_bits |-> opts.server_max_window_bits,
                                    client_max_window_bits |-> opts.client_max_window_bits,
                                    server_no_context_takeover |-> opts.server_no_context_takeover,
                                    client_no_context_takeover |-> opts.client_no_context_takeover])
                    ELSE <<>>], decorator)

is_upgrade(msg) == msg.version # 10 /\ msg.connection = "upgrade"

\* Bug: the token of the Upgrade field is not looked at.
refused_Not(req) ==
  \/ req.version < 11 \/ req.method # "GET" \/ ~is_upgrade(req) \/ ~req.host
  \/ req.key = 0 \/ req.key = LongKey \/ req.wsversion = ""

\* The reasons for status 400; an absent key is 0.
refused(req) ==
  \/ req.version < 11 \/ req.method # "GET" \/ ~is_upgrade(req) \/ ~req.host
  \/ req.key = 0 \/ req.upgrade # "websocket" \/ req.key = LongKey \/ req.wsversion = ""

build_response(opts, req, decorator) ==
  LET res(status, body, up) ==
        [version |-> req.version, status |-> status, connection |-> IF up THEN "upgrade" ELSE "",
         upgrade |-> IF up THEN "websocket" ELSE "", accept |-> IF up THEN req.key ELSE 0, body |-> body,
         ext |-> IF up THEN pmd_negotiate(pmd_read(req.ext), opts) ELSE <<>>]
  IN decorate(IF refused(req) THEN res(400, TRUE, FALSE)
              ELSE IF req.wsversion # "13" THEN res(426, FALSE, FALSE)
              ELSE res(101, FALSE, TRUE), decorator)

\* Bug: the octets behind a response of status 101 are taken for its body.
has_body_Always(res) == TRUE

\* What read takes for the response: a body only of a status that has one.
has_body(res) == res.status \div 100 # 1 /\ res.body

\* do_response
success(res, key) ==
  /\ res.version >= 11 /\ res.status = 101 /\ is_upgrade(res)
  /\ res.upgrade = "websocket" /\ res.accept = key

-----------------------------------------------------------------------------
Idle == [at |-> "idle", ec |-> "", async |-> FALSE]
NoReq == build_request([client_enable |-> FALSE], 0, <<"none", 0>>)
NoRes == build_response([server_enable |-> FALSE], NoReq, <<"none", 0>>)

Init ==
  /\ session \in Sessions /\ set_option(session.copts) /\ set_option(session.sopts)
  /\ round = 1 /\ cli = stream(session.copts) /\ srv = stream(session.sopts)
  /\ to_srv = <<>> /\ to_cli = <<>> /\ broken = FALSE
  /\ request = NoReq /\ response = NoRes
  /\ cop = Idle /\ sop = Idle /\ sent = 0

Done(op, ec) == [op EXCEPT !.at = "done", !.ec = ec]
Ended(op) == op.at = "done"

\* The request is built, the stream reset and the offer kept; writing the request
\* takes no more steps than one, which may fail.
send_request(async) ==
  /\ cop.at = "idle"
  /\ LET req == build_request(session.copts, round, session.req)
         op == [cop EXCEPT !.async = async]
     IN /\ request' = req
        /\ cli' = [reset(cli) EXCEPT !.config = pmd_read(req.ext)]
        /\ cop' = IF broken THEN Done(op, "error") ELSE [op EXCEPT !.at = "read"]
        /\ to_srv' = IF broken THEN to_srv
                     ELSE <<"q1", "q2">> \o IF session.early THEN <<"f">> ELSE <<>>
  /\ UNCHANGED <<session, round, srv, to_cli, broken, response, sop, sent>>

Handshake == send_request(FALSE)
AsyncHandshake == send_request(TRUE)

\* http::read of the response: n octets come into the buffer; when it is complete the
\* rest of them stays there.
HandshakeRead ==
  /\ cop.at = "read"
  /\ \E n \in 0 .. Len(to_cli) :
       LET got == cli.buffer \o SubSeq(to_cli, 1, n)
           size == IF has_body(response) THEN 2 ELSE 1
           whole == Len(got) >= size /\ (has_body(response) => got[2] = "s2")
           ok == success(response, round)
           ws == [cli EXCEPT !.buffer = SubSeq(got, size + 1, Len(got))]
       IN /\ n > 0 \/ (broken /\ to_cli = <<>>)
          /\ to_cli' = SubSeq(to_cli, n + 1, Len(to_cli))
          /\ IF whole
             THEN /\ cop' = Done(cop, IF ok THEN "" ELSE "handshake_failed")
                  /\ cli' = IF ok THEN open(ws, "client", pmd_read(response.ext)) ELSE ws
             ELSE /\ cop' = IF n = 0 THEN Done(cop, "error") ELSE cop
                  /\ cli' = [cli EXCEPT !.buffer = got]
  /\ UNCHANGED <<session, round, srv, to_srv, broken, request, response, sop, sent>>

\* accept and async_accept.  The program may have read k octets; if it has read the
\* request it passes it, and it passes the octets read beyond, or those read at all.
start_accept(how) ==
  /\ sop.at = "idle" /\ to_srv # <<>> /\ how \in session.accepts
  /\ \E k \in 0 .. Len(to_srv) :
       LET q == IF how.request THEN 2 ELSE 0
       IN /\ IF how.buffers THEN k >= q ELSE k = q
          /\ srv' = [reset(srv) EXCEPT !.buffer = SubSeq(to_srv, q + 1, k)]
          /\ to_srv' = SubSeq(to_srv, k + 1, Len(to_srv))
          /\ sop' = [at |-> IF how.request THEN "respond" ELSE "read", ec |-> "", async |-> how.async]
  /\ UNCHANGED <<session, round, cli, to_cli, broken, request, response, cop, sent>>

Accept == \E b \in BOOLEAN : start_accept([async |-> FALSE, request |-> FALSE, buffers |-> b])
AcceptRequest == \E b \in BOOLEAN : start_accept([async |-> FALSE, request |-> TRUE, buffers |-> b])
AsyncAccept == \E b \in BOOLEAN : start_accept([async |-> TRUE, request |-> FALSE, buffers |-> b])
AsyncAcceptRequest == \E b \in BOOLEAN : start_accept([async |-> TRUE, request |-> TRUE, buffers |-> b])

\* read_some of the header, and consume of the octets it used
AcceptRead ==
  /\ sop.at = "read"
  /\ \E n \in 0 .. Len(to_srv) :
       LET got == srv.buffer \o SubSeq(to_srv, 1, n)
           whole == Len(got) >= 2
       IN /\ n > 0 \/ whole \/ (broken /\ to_srv = <<>>)
          /\ to_srv' = SubSeq(to_srv, n + 1, Len(to_srv))
          /\ srv' = [srv EXCEPT !.buffer = IF whole THEN SubSeq(got, 3, Len(got)) ELSE got]
          /\ sop' = IF whole THEN [sop EXCEPT !.at = "respond"]
                    ELSE IF n = 0 THEN Done(sop, "error") ELSE sop
  /\ UNCHANGED <<session, round, cli, to_cli, broken, request, response, cop, sent>>

\* The response is written, of async_accept only its header.
Respond ==
  /\ sop.at = "respond"
  /\ LET res == build_response(session.sopts, request, session.res)
     IN /\ response' = res
        /\ sop' = IF broken THEN Done(sop, "error") ELSE [sop EXCEPT !.at = "sent"]
        /\ to_cli' = IF broken THEN to_cli ELSE <<"s1">> \o IF res.body /\ ~sop.async THEN <<"s2">> ELSE <<>>
  /\ UNCHANGED <<session, round, cli, srv, to_srv, broken, request, cop, sent>>

\* accept takes the settings from the request, async_accept from the response.
settings(op) == pmd_read(IF op.async THEN response.ext ELSE request.ext)

Responded ==
  /\ sop.at = "sent"
  /\ sop' = Done(sop, IF response.status = 101 THEN "" ELSE "handshake_failed")
  /\ srv' = IF response.status # 101 THEN srv
            ELSE open(srv, "server", settings(sop))
  /\ UNCHANGED <<session, round, cli, to_srv, to_cli, broken, request, response, cop, sent>>

\* The connection ends: the server's program closes it after a failed accept, and it may fail.
Break ==
  /\ ~broken /\ broken' = TRUE
  /\ UNCHANGED <<session, round, cli, srv, to_srv, to_cli, request, response, cop, sop, sent>>

Opened(op) == Ended(op) /\ op.ec = ""

\* Frames, once a stream is open
Send ==
  /\ \/ Opened(cop) /\ ~session.early /\ to_srv = <<>> /\ ~cli.used
        /\ to_srv' = <<"f">> /\ cli' = [cli EXCEPT !.used = TRUE] /\ UNCHANGED <<srv, to_cli, sent>>
     \/ Opened(sop) /\ ~srv.used /\ to_cli' = Append(to_cli, "f") /\ sent' = sent + 1
        /\ srv' = [srv EXCEPT !.used = TRUE] /\ UNCHANGED <<cli, to_srv>>
  /\ ~broken
  /\ UNCHANGED <<session, round, broken, request, response, cop, sop>>

\* A new connection for both streams
Reconnect ==
  /\ Ended(cop) /\ sop.at \in {"idle", "done"} /\ round < session.rounds /\ round' = round + 1
  /\ cop' = Idle /\ sop' = Idle
  /\ to_srv' = <<>> /\ to_cli' = <<>> /\ broken' = FALSE /\ sent' = 0
  /\ request' = NoReq /\ response' = NoRes
  /\ UNCHANGED <<session, cli, srv>>

Operation ==
  \/ Handshake \/ AsyncHandshake \/ HandshakeRead
  \/ Accept \/ AcceptRequest \/ AsyncAccept \/ AsyncAcceptRequest \/ AcceptRead
  \/ Respond \/ Responded
Next == Operation \/ Break \/ Send \/ Reconnect

Refusal == Ended(sop) /\ sop.ec # "" /\ Break

\* No step of an operation can be taken: all have ended or wait for the other end.
Stopped ==
  /\ cop.at = "done" \/ (cop.at = "read" /\ to_cli = <<>> /\ ~broken)
  /\ \/ sop.at = "done"
     \/ sop.at = "idle" /\ to_srv = <<>>
     \/ sop.at = "read" /\ to_srv = <<>> /\ Len(srv.buffer) < 2 /\ ~broken

\* The io_service runs what is ready (weak fairness of Operation), and a server that
\* has refused closes the connection (of Refusal).
Fairness ==
  /\ []<>Stopped \/ []<><<Operation>>_vars
  /\ []<>~(Ended(sop) /\ sop.ec # "" /\ ~broken) \/ []<><<Refusal>>_vars

Spec == Init /\ [][Next]_vars /\ Fairness

-----------------------------------------------------------------------------
(* Properties *)

\* Type invariant.
TypeOK ==
  /\ \A ws \in {cli, srv} : IF ws.pmd.on THEN ws.pmd.zi \in 8 .. 15 /\ ws.pmd.zo \in 9 .. 15 ELSE ws.pmd = NoPmd
  /\ cop.at \in {"idle", "read", "done"} /\ sop.at \in {"idle", "read", "respond", "sent", "done"}
  /\ ToSet(cli.buffer) \subseteq {"s1", "s2", "f"} /\ ToSet(srv.buffer) \subseteq {"q1", "q2", "f"}

\* What one end compresses the other can decompress: both use the extension or
\* none does, neither compresses with a larger window than the other keeps, and
\* whoever forgets the messages before is told to by the other.
Agree ==
  /\ cli.pmd.on = srv.pmd.on
  /\ cli.pmd.on =>
       /\ cli.pmd.zo <= srv.pmd.zi /\ srv.pmd.zo <= cli.pmd.zi
       /\ srv.config.client_no_context_takeover => cli.config.client_no_context_takeover
       /\ cli.config.server_no_context_takeover => srv.config.server_no_context_takeover

\* After handshake and async_accept the two ends agree, whatever their options: of streams
\* whose client offers the extension only if it may use it, and where no blocking accept
\* has made use of an offer that was declined (open leaves pmd as it is then).
PeersAgree == Opened(cop) /\ Opened(sop) /\ sop.async => Agree

\* The requirements of a request, one by one.
WellFormed(req) ==
  /\ req.version = 11 /\ req.method = "GET" /\ req.host /\ req.key \in 1 .. 98
  /\ req.connection = "upgrade" /\ req.upgrade = "websocket" /\ req.wsversion = "13"

\* An end opens only for a proper request of this connection, and the client only
\* if the server has accepted this very request.
OpensDeservedly ==
  /\ Opened(sop) => WellFormed(request)
  /\ Opened(cop) => request.key = round /\ sop.at \in {"sent", "done"} /\ sop.ec # "handshake_failed"

\* An offer as the RFC allows it.
ValidOffer(params) ==
  /\ \A i, j \in DOMAIN params : params[i][1] = params[j][1] => i = j
  /\ \A i \in DOMAIN params :
       \/ params[i][1] \in takeover_params /\ params[i][2] = <<>>
       \/ params[i][1] = "client_max_window_bits" /\ params[i][2] = <<>>
       \/ params[i][1] \in window_params /\ params[i][2] \in {to_string(n) : n \in 8 .. 15}

\* The value of a parameter in a list of parameters.
Values(params, name) == {params[i][2] : i \in {j \in DOMAIN params : params[j][1] = name}}

\* The server's answer keeps to the offer: it accepts only a valid one, its own window
\* is no larger than offered (8 becomes 9), and it names a window for the client
\* only if the client said it could.
OfferRespected ==
  response.ext # <<>> /\ response.ext = pmd_negotiate(pmd_read(request.ext), session.sopts) =>
    LET offer == SelectSeq(request.ext, LAMBDA e : e.name = "permessage-deflate")[1].params
        answer == response.ext[1].params
        bits(params, name) == {parse_bits(v) : v \in Values(params, name)}
        swb == "server_max_window_bits"
        cwb == "client_max_window_bits"
    IN /\ ValidOffer(offer)
       /\ \A n \in bits(offer, swb) :
            n < 15 => \E a \in bits(answer, swb) : a <= Max({n, 9})
       /\ Values(answer, cwb) # {} => Values(offer, cwb) # {}
       /\ \A n \in bits(offer, cwb) \ {-1} : \E a \in bits(answer, cwb) : a <= n

\* The extension is negotiated: the answer keeps to the offer and both ends compress as
\* the other expects.
Negotiated == TypeOK /\ PeersAgree /\ OfferRespected

\* A frame sent right behind the request or the response is neither lost nor
\* preceded by octets of the handshake or of a former connection.
NothingLost ==
  /\ Opened(sop) => srv.buffer \o to_srv
       = IF session.early \/ (Opened(cop) /\ cli.used) THEN <<"f">> ELSE <<>>
  /\ Opened(cop) => cli.buffer \o to_cli = [i \in 1 .. sent |-> "f"]

\* Every handshake and every accept ends.
HandshakeEnds ==
  /\ cop.at = "read" ~> Ended(cop)
  /\ sop.at \in {"read", "respond", "sent"} ~> Ended(sop)
=============================================================================
