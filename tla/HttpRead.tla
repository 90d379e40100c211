------------------------------ MODULE HttpRead ------------------------------
(***************************************************************************)
(* http::read and http::async_read: messages are read from a stream into a *)
(* parser through a dynamic buffer.  read_some hands the parser what the   *)
(* buffer holds and reads more when the parser needs more; a direct parser *)
(* has the body read into buffers of its own.                              *)
(*                                                                         *)
(* A run reads the messages of one connection, one after the other, with a *)
(* new parser for each and one dynamic buffer for all.  The stream returns *)
(* any number of octets from each read, and may end at any octet.          *)
(***************************************************************************)
EXTENDS HttpMessage

CONSTANTS
  Connections,     \* what peers may send: a sequence of sequences of messages
  BufferMax,       \* max_size() of the dynamic buffer
  BodyMax,         \* max_size() of the message body, for bodies that have one
  Segmented        \* the dynamic buffer's data() has several buffers

VARIABLES
  conn,     \* [id, direct, async]: which connection it is, and how it is read
  current,  \* which message is being read
  parser,   \* the parser of that message
  db,       \* the input sequence of the dynamic buffer
  sent,     \* how many octets the stream has returned
  calls,    \* the callbacks the parser has made
  op,       \* [at, used, ec]: the state of the read
  asserted  \* no BOOST_ASSERT has failed

vars == <<conn, current, parser, db, sent, calls, op, asserted>>

\* The octets of each connection, and where each of its messages ends.
Ends == [c \in DOMAIN Connections |-> [i \in 0 .. Len(Connections[c]) |->
           SumFunctionOnSet([j \in DOMAIN Connections[c] |-> Len(Wire(Connections[c][j]))], 1 .. i)]]
Wires == [c \in DOMAIN Connections |->
           FlattenSeq([j \in DOMAIN Connections[c] |-> Wire(Connections[c][j])])]

message == Connections[conn.id][current]
wire == Wires[conn.id]

new_parser(m, direct) ==
  LET p == basic_parser(m.request, direct, m.veto) IN IF m.skip THEN skip_body(p) ELSE p

At(a, used, ec) == op' = [at |-> a, used |-> used, ec |-> ec]

Init ==
  /\ conn \in [id : DOMAIN Connections, direct : BOOLEAN, async : BOOLEAN]
  /\ current = 1
  /\ parser = new_parser(message, conn.direct)
  /\ db = <<>> /\ sent = 0 /\ calls = <<>>
  /\ op = [at |-> "read_some", used |-> 0, ec |-> ""]
  /\ asserted = TRUE

\* What a member function of the parser leaves behind.
Apply(r) ==
  /\ parser' = r.p
  /\ calls' = calls \o r.calls
  /\ asserted' = (asserted /\ r.asserted)

\* Whether the next octets go through the dynamic buffer; the body of a direct
\* parser does not.
through_buffer == ~conn.direct \/ parser.state \in {"header", "chunk_header"}

\* read_some, for either kind of parser.
read_some ==
  /\ op.at = "read_some"
  /\ IF through_buffer
     THEN At(IF db = <<>> THEN "prepare" ELSE "write", 0, "")
     ELSE At(IF db = <<>> THEN "prepare_body" ELSE "copy_body", 0, "")
  /\ asserted' = (asserted /\ parser.state # "complete")
  /\ UNCHANGED <<conn, current, parser, db, sent, calls>>

\* read_some_buffer: the parser is given the whole buffer.
BufferWrite ==
  /\ op.at = "write"
  /\ \E several \in {FALSE} \cup {Segmented /\ Len(db) > 1} :
       LET r == write(parser, db, several)
       IN /\ Apply(r)
          /\ IF r.ec # "" THEN At("finish", 0, r.ec)
             ELSE IF r.used > 0 THEN At("finish", r.used, "") ELSE At("prepare", 0, "")
  /\ UNCHANGED <<conn, current, db, sent>>

\* Room is made for more octets; read_size_helper asks for at least one.
BufferPrepare ==
  /\ op.at = "prepare"
  /\ IF Len(db) < BufferMax THEN At("read_buffer", 0, "") ELSE At("finish", 0, "buffer_overflow")
  /\ UNCHANGED <<conn, current, parser, db, sent, calls, asserted>>

\* The stream returns some octets.
BufferRead ==
  /\ op.at = "read_buffer"
  /\ \E n \in 1 .. Min({BufferMax - Len(db), Len(wire) - sent}) :
       db' = db \o SubSeq(wire, sent + 1, sent + n) /\ sent' = sent + n
  /\ At("write", 0, "")
  /\ UNCHANGED <<conn, current, parser, calls, asserted>>

\* Bug: the end of the stream is taken for a read of no octets.
EndOfStream_Retries ==
  /\ op.at \in {"read_buffer", "read_body"}
  /\ At("read_some", 0, "")
  /\ UNCHANGED <<conn, current, parser, db, sent, calls, asserted>>

\* Nothing of the message has been received.
end_of_stream == op.at = "read_buffer" /\ "GotSome" \notin parser.f

\* The stream ends.
EndOfStream ==
  /\ op.at \in {"read_buffer", "read_body"}
  /\ IF end_of_stream
     THEN At("finish", 0, "end_of_stream") /\ UNCHANGED <<parser, calls, asserted>>
     ELSE LET r == write_eof(parser)
          IN /\ Apply([r EXCEPT !.asserted = r.ec = "" => r.p.state = "complete"])
             /\ At("finish", 0, r.ec)
  /\ UNCHANGED <<conn, current, db, sent>>

\* The stream fails.
StreamError ==
  /\ op.at \in {"read_buffer", "read_body"}
  /\ At("finish", 0, "stream_error")
  /\ UNCHANGED <<conn, current, parser, db, sent, calls, asserted>>

\* How many octets of body the reader has been given.
stored == Cardinality({i \in DOMAIN calls : calls[i].c = "on_data"})

\* read_some_body: leftover octets of the buffer are copied into the body.
CopyBody ==
  /\ op.at = "copy_body"
  /\ LET c == copy_body(parser, db)
         n == wanted(parser, IF parser.state = "body_to_eof" THEN Len(db) ELSE parser.len)
     IN IF stored + n > BodyMax
        THEN At("threw", 0, "length_error") /\ Apply(maybe_do_body(parser)) /\ UNCHANGED db
        ELSE /\ Apply(c.r)
             /\ db' = SubSeq(db, c.consumed + 1, Len(db))
             /\ At("finish", c.r.used, "")
  /\ UNCHANGED <<conn, current, sent>>

\* Room is made in the body; only read() catches the exception.
PrepareBody ==
  /\ op.at = "prepare_body"
  /\ Apply(maybe_do_body(parser))
  /\ IF stored + wanted(parser, ReadLimit) <= BodyMax THEN At("read_body", 0, "")
     ELSE IF conn.async THEN At("threw", 0, "length_error") ELSE At("finish", 0, "buffer_overflow")
  /\ UNCHANGED <<conn, current, db, sent>>

\* The stream returns some octets of the body.
BodyRead ==
  /\ op.at = "read_body"
  /\ \E n \in 1 .. Min({on_prepare(wanted(parser, ReadLimit)), Len(wire) - sent}) :
       /\ Apply(commit_body(Return(parser, 0), SubSeq(wire, sent + 1, sent + n)))
       /\ sent' = sent + n
  /\ At("finish", 0, "")
  /\ UNCHANGED <<conn, current, db>>

\* read_some has returned: read() goes on until the message is complete.
finished == op.ec # "" \/ parser.state = "complete"

parse_op ==
  /\ op.at = "finish"
  /\ db' = IF op.ec = "" THEN SubSeq(db, op.used + 1, Len(db)) ELSE db
  /\ At(IF finished THEN "done" ELSE "read_some", 0, op.ec)
  /\ UNCHANGED <<conn, current, parser, sent, calls, asserted>>

\* The application reads the next message of a connection that is kept alive.
read ==
  /\ op.at = "done" /\ op.ec = "" /\ is_keep_alive(parser)
  /\ current < Len(Connections[conn.id])
  /\ current' = current + 1
  /\ parser' = new_parser(Connections[conn.id][current + 1], conn.direct)
  /\ calls' = <<>>
  /\ At("read_some", 0, "")
  /\ UNCHANGED <<conn, db, sent, asserted>>

Next ==
  \/ read_some \/ BufferWrite \/ BufferPrepare \/ BufferRead \/ EndOfStream \/ StreamError
  \/ CopyBody \/ PrepareBody \/ BodyRead \/ parse_op \/ read

Stopped == {"done", "threw"}

\* The operation runs and the stream returns octets or its end; the application
\* need not read again.  This is WF_vars(Next /\ op.at \notin Stopped), an action
\* that is enabled whenever op.at \notin Stopped.
Fairness == []<>(op.at \in Stopped) \/ []<><<op.at \notin Stopped>>_vars

Spec == Init /\ [][Next]_vars /\ Fairness

-----------------------------------------------------------------------------
(* Properties *)

\* Type invariant of the read.
TypeOK ==
  /\ parser.state \in ParseStates /\ parser.f \subseteq Flags
  /\ parser.skip \in 0 .. BufferMax /\ parser.x \in 0 .. BufferMax
  /\ Len(db) <= BufferMax /\ sent \in 0 .. Len(wire)
  /\ op.at \in {"read_some", "write", "prepare", "read_buffer", "copy_body", "prepare_body",
                "read_body", "finish", "done", "threw"}

completed == calls # <<>> /\ Last(calls).c = "on_complete"

\* However the octets are cut into reads, and whether the body is parsed or read
\* directly, the callbacks are those of the message, in their order and each
\* once.  Only a body that ends with the stream may end early.
CallsFollowMessage ==
  WellFormed(message) =>
    IF completed /\ message.framing = "eof" /\ ~NoBody(message)
    THEN IsPrefix(Front(calls), Meaning(message))
    ELSE /\ IsPrefix(calls, Meaning(message))
         /\ op.at = "done" /\ op.ec = "" => calls = Meaning(message)

\* A malformed message is never reported complete.
MalformedIsRejected == ~WellFormed(message) => ~completed

\* A read that fails says why: the stream failed or ended before or inside the message,
\* the buffer or the body is full, a callback failed, or the message is bad.
ErrorsAreDeserved ==
  op.at = "done" /\ op.ec # "" =>
    LET start == Ends[conn.id][current - 1]
        end == Ends[conn.id][current]
    IN CASE op.ec = "end_of_stream" -> sent = start
         [] op.ec = "partial_message" -> sent > start /\ (WellFormed(message) => sent < end)
         [] op.ec = "buffer_overflow" -> Len(db) = BufferMax \/ stored + ReadLimit > BodyMax
         [] op.ec = "veto" -> message.veto # "" /\ Last(calls).c = message.veto
         [] op.ec = "stream_error" -> TRUE
         [] OTHER -> ~WellFormed(message)

\* The buffer holds the octets read last, and a message read to its end leaves
\* exactly what follows it to the next read.
RestIsLeft ==
  /\ db = SubSeq(wire, sent - Len(db) + 1, sent)
  /\ op.at = "done" /\ op.ec = "" /\ ~(message.framing = "eof" /\ ~NoBody(message)) =>
       sent - Len(db) = Ends[conn.id][current]

\* A callback that sets the error code ends the read with that error.
VetoIsReported ==
  op.at \in {"finish", "done"} /\ calls # <<>> /\ Last(calls).c = message.veto
    /\ ~(conn.direct /\ message.veto \in {"on_body", "on_data"}) => op.ec = "veto"

\* The assertions of the parser and of the read operations hold.
AssertionsHold == asserted

\* A read succeeds and fails when it should: bad messages are refused, errors have a
\* reason, failing callbacks are reported and no assertion fails on the way.
VerdictIsRight == MalformedIsRejected /\ ErrorsAreDeserved /\ VetoIsReported /\ AssertionsHold

\* Every octet received is in its place: the offsets of the parser lie in the buffer,
\* and the buffer has what was received and not consumed.
OctetsAccounted == TypeOK /\ RestIsLeft

\* Every read ends, if the stream goes on returning octets or its end.
ReadEnds == op.at = "read_some" ~> op.at \in Stopped
=============================================================================
