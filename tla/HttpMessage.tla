---------------------------- MODULE HttpMessage ----------------------------
(***************************************************************************)
(* What a peer sends: descriptions of HTTP/1 messages, their octets, and   *)
(* the callbacks documented for them.  Nothing of Documented is taken from *)
(* the parser; the two calls it is documented to make and does not are     *)
(* named, and taken out of Documented to get what it is checked against.   *)
(*                                                                         *)
(* A description is a record: request, start (the start line), fields,     *)
(* folded (the field that is followed by a blank line fold, or 0), framing *)
(* (none, length, chunked or eof), data, chunks (of data and ext), zeros   *)
(* (whether chunk sizes have a leading zero), last (the digits of the last *)
(* chunk and its extension), trailer, skip (whether the reader was told    *)
(* that there is no body), veto (the callback that fails) and broken (the  *)
(* LF, counted from the first, that is lost; 0 for none).                  *)
(***************************************************************************)
EXTENDS HttpParser

Eol == <<CR, LF>>
Digit(n) == Octet("hex", "", n)
Extension == Octet("ext", "", 0)

\* Lines of fields, ended by an empty line.
Lines(fields, folded) ==
  FlattenSeq([i \in DOMAIN fields |->
    <<fields[i]>> \o Eol \o IF i = folded THEN <<Octet("fold", "", 0)>> \o Eol ELSE <<>>]) \o Eol

Chunk(c, zeros) ==
  (IF zeros THEN <<Digit(0)>> ELSE <<>>) \o <<Digit(Len(c.data))>>
    \o (IF c.ext THEN <<Extension>> ELSE <<>>) \o Eol \o c.data \o Eol

NoBody(m) == m.skip \/ (~m.request /\ (m.start.n \div 100 = 1 \/ m.start.n \in {204, 304}))

Whole(m) ==
  <<m.start>> \o Eol \o Lines(m.fields, m.folded)
    \o IF NoBody(m) THEN <<>>
       ELSE IF m.framing = "chunked"
       THEN FlattenSeq([i \in DOMAIN m.chunks |-> Chunk(m.chunks[i], m.zeros)])
              \o m.last \o Eol \o Lines(m.trailer, 0)
       ELSE m.data

\* The octets of a message.
Wire(m) ==
  LET w == Whole(m)
      lfs == {i \in DOMAIN w : w[i] = LF}
      lost(i) == i \in lfs /\ Cardinality({j \in lfs : j <= i}) = m.broken
  IN [i \in DOMAIN w |-> IF lost(i) THEN Octet("junk", "", 0) ELSE w[i]]

\* A field is accepted if it is well-formed and does not contradict one before it.
Accepted(fields) ==
  \A i \in DOMAIN fields :
    LET before == {fields[j].v : j \in 1 .. i - 1}
    IN /\ fields[i].k = "field"
       /\ fields[i].v \notin {"connection-bad", "not-text", "content-length-bad"}
       /\ fields[i].v \in {"content-length", "chunked", "other-encoding"} =>
            before \cap {"content-length", "chunked"} = {}

WellFormed(m) ==
  /\ m.broken = 0
  /\ m.start.k = "start" /\ m.start.v \in {"10", "11"}
  /\ Accepted(m.fields \o IF m.framing = "chunked" /\ ~NoBody(m) THEN m.trailer ELSE <<>>)
  /\ \E zeros \in 1 .. Len(m.last) :
       /\ ToSet(SubSeq(m.last, 1, zeros)) = {Digit(0)}
       /\ SubSeq(m.last, zeros + 1, Len(m.last)) \in {<<>>, <<Extension>>}
  /\ m.folded # 0 => m.fields[m.folded].v # "content-length"

\* The semantics of the message indicate a body, maybe of zero length.
HasBody(m) == ~NoBody(m) /\ (m.framing # "none" \/ ~m.request)

\* A chunk as on_chunk is told of it: its length, and whether it has extensions.
ChunkHeader(n, ext) == Octet("hex", IF ext THEN "ext" ELSE "", n)

\* The callbacks documented for a message, if all of it is received: on_body for every body,
\* on_chunk for every chunk and for the final chunk.
Documented(m) ==
  LET call(c, o) == [c |-> c, o |-> o]
      each(c, s) == [i \in DOMAIN s |-> call(c, s[i])]
      chunk(c) == <<call("on_chunk", ChunkHeader(Len(c.data), c.ext))>> \o each("on_data", c.data)
      chunked == FlattenSeq([i \in DOMAIN m.chunks |-> chunk(m.chunks[i])])
                   \o <<call("on_chunk", ChunkHeader(0, Extension \in ToSet(m.last)))>>
                   \o each("on_field", m.trailer)
  IN <<call(IF m.request THEN "on_request" ELSE "on_response", m.start)>>
       \o each("on_field", m.fields) \o <<call("on_header", EndOfInput)>>
       \o (IF HasBody(m) THEN <<call("on_body", EndOfInput)>> ELSE <<>>)
       \o (IF ~HasBody(m) THEN <<>> ELSE IF m.framing = "chunked" THEN chunked ELSE each("on_data", m.data))
       \o <<call("on_complete", EndOfInput)>>

\* The parser calls on_body when the first octets of the body are there, and so not for a
\* body of zero length.
EmptyBody(m, c) == c.c = "on_body" /\ m.framing # "chunked" /\ m.data = <<>>

\* The parser calls on_chunk for chunks with extensions only.
PlainChunk(c) == c.c = "on_chunk" /\ c.o.v # "ext"

\* The callbacks of the parser for a message, if all of it is received.
Meaning(m) == SelectSeq(Documented(m), LAMBDA c : ~EmptyBody(m, c) /\ ~PlainChunk(c))
=============================================================================
