----------------------------- MODULE HttpWrite -----------------------------
(***************************************************************************)
(* http::write and http::async_write: a message is prepared, serialized    *)
(* and written to a stream piece by piece as its body's writer provides    *)
(* it, with chunk encoding if the message asks for it.  The other end is   *)
(* the parser of HttpParser, and the body it finds is stored by the reader *)
(* of string_body or dynamic_body.                                         *)
(*                                                                         *)
(* A message to be written is a record:                                    *)
(*   request, version, post, status   the start line                       *)
(*   fields    values of fields, "special" for a name that begins with ':' *)
(*   pieces    the buffers the writer provides, one for each call; Nothing *)
(*             for a call that provides none and returns true              *)
(*   sized     the writer has content_length()                             *)
(*   option    the connection option of prepare(), "raw" without prepare() *)
(*   fails     the call of the writer that sets the error code: 0 is       *)
(*             init(), -1 none                                             *)
(*   whole     FALSE if only the header is written                         *)
(***************************************************************************)
EXTENDS HttpMessage

CONSTANTS
  Messages,    \* the messages a program writes
  ReadSizes    \* how much a reader is asked to make room for at once

VARIABLES
  msg,      \* the message
  mode,     \* "sync", "async" or "ostream" (operator<<)
  op,       \* [state, piece, ec]: the state of the write
  pending,  \* what the stream has still to write
  sent,     \* what the stream has written
  handled,  \* how often the completion handler was called, or the call returned
  peer,     \* the parser of the other end and what it has made of the message
  body      \* the reader of the other end: [kind, octets, len, output]

vars == <<msg, mode, op, pending, sent, handled, peer, body>>

Nothing == <<Octet("no call", "", 0)>>
Blank == Octet("data", "", 0)

-----------------------------------------------------------------------------
(* message.ipp *)

exists(m, v) == v \in ToSet(m.fields)
has_length(m) == \E f \in ToSet(m.fields) : f \in {"content-length"}
Insert(m, v) == [m EXCEPT !.fields = Append(@, v)]

body_of(m) == FlattenSeq(SelectSeq(m.pieces, LAMBDA s : s # Nothing))

header_is_keep_alive(m) ==
  IF m.version = "11" THEN ~exists(m, "connection-close") ELSE exists(m, "connection-keep-alive")

is_upgrade(m) == m.version = "11" /\ exists(m, "connection-upgrade")

\* What prepare() refuses before it changes the message.
refused_unchanged(m) ==
  \/ m.fails = 0 /\ m.sized
  \/ \E v \in {"connection-close", "connection-keep-alive", "connection-upgrade"} : exists(m, v)
  \/ has_length(m)
  \/ exists(m, "chunked")

\* An upgrade of HTTP/1.0 is refused too, when it is found in the fields prepare() inserted.
prepare_throws(m) == refused_unchanged(m) \/ (m.option = "upgrade" /\ m.version = "10")

\* Bug: a message of unknown length is not chunked.
set_framing_Plain(m) ==
  IF m.option = "upgrade" \/ ~m.sized THEN m
  ELSE IF (m.request /\ (body_of(m) # <<>> \/ m.post))
          \/ (~m.request /\ m.status \div 100 # 1 /\ m.status \notin {204, 304})
  THEN Insert(m, "content-length") ELSE m

\* How the body's end is marked.
set_framing(m) ==
  IF m.option = "upgrade" THEN m
  ELSE IF m.sized
  THEN IF (m.request /\ (body_of(m) # <<>> \/ m.post))
          \/ (~m.request /\ m.status \div 100 # 1 /\ m.status \notin {204, 304})
       THEN Insert(m, "content-length") ELSE m
  ELSE IF m.version = "11" THEN Insert(m, "chunked") ELSE m

\* What becomes of the connection.
set_connection(m) ==
  CASE m.option = "upgrade" -> Insert(m, "connection-upgrade")
    [] m.option = "keep_alive" /\ m.version = "10" /\ has_length(m) -> Insert(m, "connection-keep-alive")
    [] m.option = "close" /\ m.version = "11" -> Insert(m, "connection-close")
    [] OTHER -> m

prepare(m) == set_connection(set_framing(m))

left_by_throw(m) == IF refused_unchanged(m) THEN m ELSE prepare(m)

-----------------------------------------------------------------------------
(* Serialization *)

write_start_line(m) == <<Octet("start", m.version, m.status)>> \o Eol

write_fields(m) ==
  LET fields == SelectSeq(m.fields, LAMBDA v : v # "special")
      line(v) == <<Octet("field", v, IF v = "content-length" THEN Len(body_of(m)) ELSE 0)>> \o Eol
  IN FlattenSeq([i \in DOMAIN fields |-> line(fields[i])])

\* write_preparation
header_octets(m) == write_start_line(m) \o write_fields(m) \o Eol
chunked(m) == exists(m, "chunked")
close(m) == exists(m, "connection-close") \/ (m.version = "10" /\ ~has_length(m))

to_hex(n) ==
  LET digits[k \in 0 .. n] == IF k = 0 THEN <<>> ELSE digits[k \div 16] \o <<Digit(k % 16)>>
  IN IF n = 0 THEN <<Digit(0)>> ELSE digits[n]

\* chunk_encode_delim: a size and its end of line
chunk_encode_delim(n) == to_hex(n) \o Eol
chunk_encode_final == <<Digit(0)>> \o Eol \o Eol
chunk_encode(fin, s) == chunk_encode_delim(Len(s)) \o s \o Eol \o IF fin THEN chunk_encode_final ELSE <<>>

\* What the write functions pass on for a buffer of the writer, the first of them
\* with the header.
writef(m, s) == IF chunked(m) THEN chunk_encode(FALSE, s) ELSE s
writef0(m, s) == header_octets(m) \o writef(m, s)

\* operator<< ignores the error that asks for a close.
shown(ec) == IF mode = "ostream" /\ ec = "eof" THEN "" ELSE ec

-----------------------------------------------------------------------------
(* Bodies *)

reader(kind) == [kind |-> kind, octets |-> <<>>, len |-> 0, output |-> 0]

\* Bug: the string is assigned instead of resized.
string_prepare_Assigns(b, n) == [b EXCEPT !.octets = [i \in 1 .. b.len + n |-> Blank], !.output = n]

\* string_body::reader::prepare: the string is resized
string_prepare(b, n) == [b EXCEPT !.octets = SubSeq(@, 1, Min({b.len, Len(@)}))
                                             \o [i \in 1 .. n |-> Blank], !.output = n]

\* The octets read go to the room that was made.
Filled(b, s) == [b EXCEPT !.octets = [i \in DOMAIN @ |->
                   IF i \in b.len + 1 .. b.len + Len(s) THEN s[i - b.len] ELSE @[i]]]

string_commit(b, n) ==
  LET s == IF Len(b.octets) > b.len + n THEN SubSeq(b.octets, 1, b.len + n) ELSE b.octets
  IN [b EXCEPT !.octets = s, !.len = Len(s), !.output = 0]
string_finish(b) == [b EXCEPT !.octets = SubSeq(@, 1, b.len)]

\* basic_dynamic_body::reader: octets is the input sequence of the buffer
dynamic_prepare(b, n) == [b EXCEPT !.output = n]
dynamic_commit(b, s) == [b EXCEPT !.octets = @ \o s, !.len = @ + Len(s), !.output = 0]

-----------------------------------------------------------------------------
(* write *)

Init ==
  /\ msg \in Messages
  /\ mode \in {"sync", "async", "ostream"}
  /\ op = [state |-> "new", piece |-> 1, ec |-> ""]
  /\ pending = <<>> /\ sent = <<>> /\ handled = 0
  /\ peer = [p |-> basic_parser(msg.request, FALSE, ""), used |-> 0, seen |-> 0, ec |-> "", calls |-> <<>>]
  /\ \E k \in {"string", "dynamic"} : body = reader(k)

Finished(ec) ==
  /\ op' = [op EXCEPT !.state = "99", !.ec = ec]
  /\ handled' = handled + 1
  /\ UNCHANGED <<pending, sent>>

\* The program prepares the message.
Prepare ==
  /\ op.state = "new"
  /\ IF msg.option # "raw" /\ prepare_throws(msg)
     THEN op' = [op EXCEPT !.state = "threw"] /\ msg' = left_by_throw(msg)
     ELSE op' = [op EXCEPT !.state = "0"] /\ msg' = IF msg.option = "raw" THEN msg ELSE prepare(msg)
  /\ UNCHANGED <<mode, pending, sent, handled, peer, body>>

\* write and async_write of a header: one write, with no error for a close
WriteHeader ==
  /\ op.state = "0" /\ ~msg.whole
  /\ pending' = header_octets(msg)
  /\ op' = [op EXCEPT !.state = "header"]
  /\ UNCHANGED <<msg, mode, sent, handled, peer, body>>

\* case 0, and the same in write(): the writer is initialized
InitWriter ==
  /\ op.state = "0" /\ msg.whole
  /\ IF msg.fails = 0
     THEN Finished("writer")
     ELSE op' = [op EXCEPT !.state = "1"] /\ UNCHANGED <<pending, sent, handled>>
  /\ UNCHANGED <<msg, mode, peer, body>>

last_piece == op.piece = Len(msg.pieces)
piece == msg.pieces[op.piece]
after_piece == IF ~last_piece THEN "2" ELSE IF chunked(msg) THEN "4" ELSE "5"

\* The writer provides a buffer, or returns true without one.
WriterWrites(octets) ==
  /\ pending' = IF piece = Nothing THEN <<>> ELSE octets
  /\ op' = [op EXCEPT !.state = after_piece, !.piece = @ + 1]

\* write_op case 1, with writef0_lambda.  What starts a write returns, and with
\* no write started nobody calls the operation again.
AsyncFirst ==
  /\ mode = "async" /\ op.state = "1"
  /\ \/ msg.fails = op.piece /\ Finished("writer")
     \/ /\ msg.fails # op.piece /\ piece # Nothing
        /\ WriterWrites(writef0(msg, piece))
        /\ UNCHANGED <<sent, handled>>
     \/ /\ msg.fails # op.piece /\ piece = Nothing
        /\ op' = [op EXCEPT !.state = "abandoned"]
        /\ UNCHANGED <<pending, sent, handled>>
  /\ UNCHANGED <<msg, mode, peer, body>>

\* Bug: an error of the writer returns without calling the handler.
AsyncMore_Swallows ==
  /\ mode = "async" /\ op.state = "2" /\ pending = <<>>
  /\ IF msg.fails = op.piece THEN op' = [op EXCEPT !.state = "99"] /\ UNCHANGED pending
     ELSE WriterWrites(writef(msg, piece))
  /\ UNCHANGED <<msg, mode, sent, handled, peer, body>>

\* cases 2 and 3, with writef_lambda
AsyncMore ==
  /\ mode = "async" /\ op.state = "2" /\ pending = <<>>
  /\ \/ msg.fails = op.piece /\ Finished("writer")
     \/ /\ msg.fails # op.piece /\ piece # Nothing
        /\ WriterWrites(writef(msg, piece))
        /\ UNCHANGED <<sent, handled>>
     \/ /\ msg.fails # op.piece /\ piece = Nothing
        /\ op' = [op EXCEPT !.state = "abandoned"]
        /\ UNCHANGED <<pending, sent, handled>>
  /\ UNCHANGED <<msg, mode, peer, body>>

\* cases 4 and 5
AsyncFinal ==
  /\ mode = "async" /\ op.state \in {"4", "5"} /\ pending = <<>>
  /\ IF op.state = "4"
     THEN op' = [op EXCEPT !.state = "5"] /\ pending' = chunk_encode_final /\ UNCHANGED <<sent, handled>>
     ELSE Finished(IF close(msg) THEN "eof" ELSE "")
  /\ UNCHANGED <<msg, mode, peer, body>>

\* write() of a message, its first call of the writer
SyncFirst ==
  /\ mode # "async" /\ op.state = "1"
  /\ \/ msg.fails = op.piece /\ Finished("writer")
     \/ msg.fails # op.piece /\ WriterWrites(writef0(msg, piece)) /\ UNCHANGED <<sent, handled>>
  /\ UNCHANGED <<msg, mode, peer, body>>

\* the loop over the rest of the body
SyncMore ==
  /\ mode # "async" /\ op.state = "2" /\ pending = <<>>
  /\ \/ msg.fails = op.piece /\ Finished("writer")
     \/ msg.fails # op.piece /\ WriterWrites(writef(msg, piece)) /\ UNCHANGED <<sent, handled>>
  /\ UNCHANGED <<msg, mode, peer, body>>

\* the final chunk and the error that asks for a close
SyncFinal ==
  /\ mode # "async" /\ op.state \in {"4", "5"} /\ pending = <<>>
  /\ IF op.state = "4"
     THEN op' = [op EXCEPT !.state = "5"] /\ pending' = chunk_encode_final /\ UNCHANGED <<sent, handled>>
     ELSE Finished(shown(IF close(msg) THEN "eof" ELSE ""))
  /\ UNCHANGED <<msg, mode, peer, body>>

\* The write of a header is complete.
HeaderWritten ==
  /\ op.state = "header" /\ pending = <<>>
  /\ Finished("")
  /\ UNCHANGED <<msg, mode, peer, body>>

\* The stream writes all that is pending.
StreamWrites ==
  /\ pending # <<>>
  /\ sent' = sent \o pending
  /\ pending' = <<>>
  /\ UNCHANGED <<msg, mode, op, handled, peer, body>>

\* The stream writes some of it and fails.
StreamFails ==
  /\ pending # <<>>
  /\ \E k \in 0 .. Len(pending) - 1 : sent' = sent \o SubSeq(pending, 1, k)
  /\ pending' = <<>>
  /\ op' = [op EXCEPT !.state = "99", !.ec = "stream"]
  /\ handled' = handled + 1
  /\ UNCHANGED <<msg, mode, peer, body>>

-----------------------------------------------------------------------------
(* The other end *)

\* What a call of the parser leaves of the other end.  seen: how much the parser
\* has been given, less if it may go on with it.
Parsed(w) ==
  [p |-> w.p, used |-> peer.used + w.used, ec |-> w.ec, calls |-> peer.calls \o w.calls,
   seen |-> IF w.used = 0 THEN Len(sent) ELSE peer.used + w.used]

peer_has_more == peer.ec = "" /\ peer.p.state # "complete" /\ peer.seen < Len(sent)

\* The stream ends after the message if the writer was told to close it.
peer_at_end == op.state = "99" /\ op.ec = "eof" /\ peer.p.state = "body_to_eof"

\* The parser is given what was sent and not yet used.
PeerReads ==
  /\ peer_has_more
  /\ peer' = Parsed(write(peer.p, SubSeq(sent, peer.used + 1, Len(sent)), FALSE))
  /\ UNCHANGED <<msg, mode, op, pending, sent, handled, body>>

PeerReadsEnd ==
  /\ ~peer_has_more /\ peer_at_end
  /\ peer' = Parsed(write_eof(peer.p))
  /\ UNCHANGED <<msg, mode, op, pending, sent, handled, body>>

data_received == SelectSeq(peer.calls, LAMBDA c : c.c = "on_data")
complete == op.state = "99" /\ op.ec \in {"", "eof"} /\ ~peer_has_more /\ ~peer_at_end

\* The body is read into the message of the other end.
ReaderPrepare ==
  /\ complete /\ body.output = 0 /\ body.len < Len(data_received)
  /\ \E n \in ReadSizes :
       body' = IF body.kind = "string" THEN string_prepare(body, n) ELSE dynamic_prepare(body, n)
  /\ UNCHANGED <<msg, mode, op, pending, sent, handled, peer>>

ReaderCommit ==
  /\ complete /\ body.output > 0
  /\ \E k \in 0 .. Min({body.output, Len(data_received) - body.len}) :
       LET s == [i \in 1 .. k |-> data_received[body.len + i].o]
       IN body' = IF body.kind = "string" THEN string_commit(Filled(body, s), k) ELSE dynamic_commit(body, s)
  /\ UNCHANGED <<msg, mode, op, pending, sent, handled, peer>>

Next ==
  \/ Prepare \/ WriteHeader \/ InitWriter \/ AsyncFirst \/ AsyncMore \/ AsyncFinal
  \/ SyncFirst \/ SyncMore \/ SyncFinal \/ HeaderWritten \/ StreamWrites \/ StreamFails
  \/ PeerReads \/ PeerReadsEnd \/ ReaderPrepare \/ ReaderCommit

\* The stream takes what is written or fails.
Fairness ==
  WF_vars(Prepare \/ WriteHeader \/ InitWriter \/ AsyncFirst \/ AsyncMore \/ AsyncFinal
          \/ SyncFirst \/ SyncMore \/ SyncFinal \/ HeaderWritten \/ StreamWrites \/ StreamFails)

Spec == Init /\ [][Next]_vars /\ Fairness

-----------------------------------------------------------------------------
(* Properties *)

\* The message as the other end is to understand it.
Described ==
  [request |-> msg.request, start |-> Octet("start", msg.version, msg.status),
   fields |-> LET f == SelectSeq(msg.fields, LAMBDA v : v # "special")
              IN [i \in DOMAIN f |-> Octet("field", f[i], IF f[i] = "content-length"
                                                          THEN Len(body_of(msg)) ELSE 0)],
   folded |-> 0,
   framing |-> IF has_length(msg) THEN "length" ELSE IF chunked(msg) THEN "chunked"
               ELSE IF msg.request THEN "none" ELSE "eof",
   data |-> body_of(msg),
   chunks |-> LET p == SelectSeq(msg.pieces, LAMBDA s : s # Nothing)
              IN [i \in DOMAIN p |-> [data |-> p[i], ext |-> FALSE]],
   zeros |-> FALSE, last |-> <<Digit(0)>>, trailer |-> <<>>, skip |-> FALSE, veto |-> "", broken |-> 0]

\* Type invariant of the write.
TypeOK ==
  /\ op.state \in {"new", "threw", "0", "1", "2", "4", "5", "99", "header", "abandoned"}
  /\ op.ec \in {"", "eof", "writer", "stream"}
  /\ op.piece \in 1 .. Len(msg.pieces) + 1 /\ handled \in 0 .. 1
  /\ body.len \in 0 .. Len(body_of(msg))

\* At no time has the other end seen anything but a part of the message, whatever
\* fails; a message written without error is received whole and nothing is left over.
PeerFollows ==
  /\ peer.ec = "" /\ IsPrefix(peer.calls, Meaning(Described))
  /\ complete /\ msg.whole /\ (mode # "ostream" \/ ~close(msg)) =>
       peer.calls = Meaning(Described) /\ peer.used = Len(sent)

\* If only the end of the stream ends the body, the writer is told to close it,
\* and it is not told so when the other end expects another message.
EndIsMarked ==
  complete /\ msg.whole /\ mode # "ostream" =>
    /\ "NeedEOF" \in peer.p.f => op.ec = "eof"
    /\ op.ec = "eof" => ~is_keep_alive(peer.p) /\ ~header_is_keep_alive(msg)

\* The other end sees the message that is written, and its end, whatever fails.
PeerSeesMessage == TypeOK /\ PeerFollows /\ EndIsMarked

\* The body read into the other end's message, with any room made for it and any
\* short reads, is the body written.
BodyIntact ==
  complete /\ msg.whole /\ body.len = Len(data_received) /\ body.output = 0 =>
    LET b == IF body.kind = "string" THEN string_finish(body) ELSE body
    IN b.octets = [i \in DOMAIN data_received |-> data_received[i].o]

\* Every write ends and its handler is called, except where prepare() throws and
\* where a writer that returns true without a buffer leaves async_write nothing to
\* wait for.
WriteEnds ==
  op.state = "new" ~> \/ handled = 1
                      \/ op.state = "threw"
                      \/ op.state = "abandoned" /\ mode = "async" /\ Nothing \in ToSet(msg.pieces)
=============================================================================
