----------------------------- MODULE HttpParser -----------------------------
(***************************************************************************)
(* http::basic_parser: the incremental parser of HTTP/1 messages.  A       *)
(* parser is a record of its members, and every member function maps a     *)
(* parser and the octets presented to it to the parser that results, the   *)
(* number of octets used, the error and the callbacks made.                *)
(*                                                                         *)
(* An octet is a record: CR, LF, a hex digit, a body octet, or one octet   *)
(* that stands for a non-empty run without CR or LF (a start line, a field *)
(* with its value, a blank that folds a field, a chunk extension).         *)
(***************************************************************************)
EXTENDS Integers, Sequences, FiniteSetsExt, SequencesExt

CONSTANTS
  SizeValues,  \* 2^64 scaled down: chunk sizes are computed modulo this number
  ReadLimit,   \* 65536 scaled down: the most a read asks the body reader for
  ReaderMax    \* the most a body reader returns from one prepare()

ASSUME ParserAssumption ==
  /\ SizeValues \in Nat \ {0}
  /\ ReadLimit \in Nat \ {0}
  /\ ReaderMax \in Nat \ {0}

Octet(k, v, n) == [k |-> k, v |-> v, n |-> n]
CR == Octet("cr", "", 0)
LF == Octet("lf", "", 0)
EndOfInput == Octet("end", "", 0)

Flags == {"SkipBody", "OnBody", "GotSome", "HasBody", "HTTP11", "NeedEOF", "ExpectCRLF",
          "FinalChunk", "ConnectionClose", "ConnectionUpgrade", "ConnectionKeepAlive",
          "ContentLength", "Chunked", "Upgrade"}
ParseStates == {"header", "body", "body_to_eof", "chunk_header", "chunk_body", "complete"}

\* A new parser.  request, direct: its template arguments.  veto: the callback
\* of the derived class that sets the error code, if there is one.  len_ and x_
\* are uninitialized, and written before they are read.
basic_parser(request, direct, veto) ==
  [request |-> request, direct |-> direct, veto |-> veto, len |-> 0, buf |-> <<>>,
   skip |-> 0, x |-> 0, f |-> {}, state |-> "header"]

\* What a member function leaves behind: asserted is FALSE once a BOOST_ASSERT fails.
Result(p, used, ec, calls, asserted) ==
  [p |-> p, used |-> used, ec |-> ec, calls |-> calls, asserted |-> asserted]
Return(p, used) == Result(p, used, "", <<>>, TRUE)
Fail(r, ec) == [r EXCEPT !.ec = ec, !.used = 0]

\* Callbacks of the derived class, which may set the error code if it is passed
\* one: a direct reader is not.
Fails(p, c) == p.veto = c /\ ~(p.direct /\ c \in {"on_body", "on_data"})
CallEach(r, c, s) ==
  [r EXCEPT !.calls = @ \o [i \in DOMAIN s |-> [c |-> c, o |-> s[i]]],
            !.ec = IF Fails(r.p, c) THEN "veto" ELSE ""]
Call(r, c, o) == CallEach(r, c, <<o>>)
\* Goes on with step unless an error has been set; the functions return 0 then.
Then(r, step(_)) == IF r.ec = "" THEN step(r) ELSE [r EXCEPT !.used = 0]
Set(r, p) == [r EXCEPT !.p = p]
Use(r, n) == [r EXCEPT !.used = n]

at(s, i) == IF i <= Len(s) THEN s[i] ELSE EndOfInput

\* The offset after the first CRLF found from an offset on, 0 if the input ends
\* before it, -1 if a CR is not followed by LF.
find_eol(s, from) ==
  LET crs == {i \in from + 1 .. Len(s) : s[i] = CR}
      i == Min(crs)
  IN IF crs = {} \/ i = Len(s) THEN 0
     ELSE IF s[i + 1] # LF THEN -1 ELSE i + 1

\* The same for CRLFCRLF.
find_eom(s, from) ==
  LET more(i) == at(s, i + 1) = LF /\ at(s, i + 2) \notin {CR, EndOfInput}
      stops == {i \in from + 1 .. Len(s) : s[i] = CR /\ ~more(i)}
      i == Min(stops)
  IN IF stops = {} \/ at(s, i + 1) = EndOfInput THEN 0
     ELSE IF s[i + 1] # LF THEN -1
     ELSE IF EndOfInput \in {at(s, i + 2), at(s, i + 3)} THEN 0
     ELSE IF s[i + 3] # LF THEN -1 ELSE i + 3

skip_body(p) == [p EXCEPT !.f = @ \cup {"SkipBody"}]

is_keep_alive(p) ==
  /\ IF "HTTP11" \in p.f THEN "ConnectionClose" \notin p.f ELSE "ConnectionKeepAlive" \in p.f
  /\ "NeedEOF" \notin p.f

-----------------------------------------------------------------------------
(* Header *)

\* A field that frames the message has been seen.
framed(p) == p.f \cap {"ContentLength", "Chunked"} # {}

\* The fields that say how the message is framed.  A folded Content-Length ends
\* in a blank, which parse_dec does not accept.
do_field(p, o, folded) ==
  LET flag(g) == Return([p EXCEPT !.f = @ \cup {g}], 0)
      bad(ec) == Fail(Return(p, 0), ec)
  IN CASE o.v = "connection-close" -> flag("ConnectionClose")
       [] o.v = "connection-keep-alive" -> flag("ConnectionKeepAlive")
       [] o.v = "connection-upgrade" -> flag("ConnectionUpgrade")
       [] o.v \in {"connection-bad", "not-text"} -> bad("bad_value")
       [] o.v \in {"content-length", "content-length-bad"} ->
            IF framed(p) \/ o.v = "content-length-bad" \/ folded
            THEN bad("bad_content_length")
            ELSE Return([p EXCEPT !.f = @ \cup {"ContentLength"}, !.len = o.n], 0)
       [] o.v \in {"chunked", "other-encoding"} ->
            IF framed(p) THEN bad("bad_transfer_encoding")
            ELSE IF o.v = "chunked"
            THEN Return([p EXCEPT !.f = @ \cup {"Chunked"}, !.len = 0], 0)
            ELSE Return(p, 0)
       [] o.v = "upgrade" -> flag("Upgrade")
       [] OTHER -> Return(p, 0)

\* The lines between two offsets, the last of them empty.
parse_fields(r, s, from, term) ==
  LET lines == SelectSeq(SubSeq(s, from + 1, term - 2), LAMBDA o : o \notin {CR, LF})
      folded(j) == at(lines, j + 1).k = "fold"
      field(q, j) ==
        IF lines[j].k = "fold" /\ j > 1 THEN q
        ELSE IF lines[j].k # "field" THEN Fail(q, "bad_field")
        ELSE LET d == do_field(q.p, lines[j], folded(j))
             IN IF d.ec # "" THEN Fail(q, d.ec) ELSE Call(Set(q, d.p), "on_field", lines[j])
      upto[j \in 0 .. Len(lines)] ==
        IF j = 0 THEN r ELSE LET q == upto[j - 1] IN IF q.ec # "" THEN q ELSE field(q, j)
  IN upto[Len(lines)]

parse_startline(r, s) ==
  IF s[1].k # "start" THEN Fail(r, "bad_method")
  ELSE IF s[1].v = "bad" \/ <<s[2], s[3]>> # <<CR, LF>> THEN Fail(r, "bad_version")
  ELSE Call(r, IF r.p.request THEN "on_request" ELSE "on_response", s[1])

\* How the rest of the message is framed.
do_header(p, status) ==
  LET nobody == ~p.request /\ (status \div 100 = 1 \/ status \in {204, 304})
  IN IF "SkipBody" \in p.f \/ nobody THEN [p EXCEPT !.state = "complete"]
     ELSE IF "ContentLength" \in p.f
     THEN IF p.len > 0 THEN [p EXCEPT !.f = @ \cup {"HasBody"}, !.state = "body"]
          ELSE [p EXCEPT !.state = "complete"]
     ELSE IF "Chunked" \in p.f
     THEN [p EXCEPT !.f = @ \cup {"HasBody"}, !.state = "chunk_header"]
     ELSE IF p.request THEN [p EXCEPT !.len = 0, !.state = "complete"]
     ELSE [p EXCEPT !.f = @ \cup {"HasBody", "NeedEOF"}, !.state = "body_to_eof"]

\* The lines of a header that ends at an offset.
parse_header_lines(p, s, term) ==
  LET version(r) == Set(r, [r.p EXCEPT !.f = @ \cup IF s[1].v = "11" THEN {"HTTP11"} ELSE {}])
      started == parse_startline(Return([p EXCEPT !.skip = 0], 0), s)
      fields == Then(started, LAMBDA r : parse_fields(version(r), s, 3, term))
      header == Then(fields, LAMBDA r : Call(Set(r, do_header(r.p, s[1].n)), "on_header", EndOfInput))
      complete == Then(header, LAMBDA r : IF r.p.state = "complete"
                                          THEN Call(r, "on_complete", EndOfInput) ELSE r)
  IN Then(complete, LAMBDA r : Use(r, term))

parse_header(p, s) ==
  LET term == find_eom(s, p.skip)
  IN IF Len(s) < 4 THEN Return(p, 0)
     ELSE IF term = -1 THEN Fail(Return(p, 0), "bad_line_ending")
     ELSE IF term = 0 THEN Return([p EXCEPT !.skip = Len(s) - 3], 0)
     ELSE parse_header_lines(p, s, term)

-----------------------------------------------------------------------------
(* Body *)

\* maybe_do_body_direct and maybe_do_body_indirect; the former cannot fail.
maybe_do_body(p) ==
  IF "OnBody" \in p.f THEN Return(p, 0)
  ELSE Call(Return([p EXCEPT !.f = @ \cup {"OnBody"}], 0), "on_body", EndOfInput)

do_complete(r) ==
  Then(Call(r, "on_complete", EndOfInput), LAMBDA q : Set(q, [q.p EXCEPT !.state = "complete"]))

\* Body octets reach the derived class; each is recorded as a call.
on_data(r, s) == CallEach(r, "on_data", s)

\* Bug: the octets after the body are taken for body.
parse_body_All(r, s) ==
  Then(on_data(r, s), LAMBDA q : Use(do_complete(Set(q, [q.p EXCEPT !.len = 0])), Len(s)))

parse_body(r, s) ==
  LET n == Min({r.p.len, Len(s)})
      taken == Then(on_data(r, SubSeq(s, 1, n)), LAMBDA q : Set(q, [q.p EXCEPT !.len = @ - n]))
      finished == IF taken.p.len = 0 THEN Then(taken, do_complete) ELSE taken
  IN Then(finished, LAMBDA q : Use(q, n))

parse_body_to_eof(r, s) == Then(on_data(r, s), LAMBDA q : Use(q, Len(s)))

\* Bug: the octets after the chunk are taken for its data.
parse_chunk_body_All(r, s) ==
  Then(on_data(r, s), LAMBDA q : Use(Set(q, [q.p EXCEPT !.len = 0, !.state = "chunk_header"]), Len(s)))

parse_chunk_body(r, s) ==
  LET n == Min({r.p.len, Len(s)})
      rest(q) == Set(q, [q.p EXCEPT !.len = @ - n,
                                    !.state = IF q.p.len = n THEN "chunk_header" ELSE @])
  IN Then(on_data(r, SubSeq(s, 1, n)), LAMBDA q : Use(rest(q), n))

\* The value of the hex digits after an offset, -1 if there are none or if a digit
\* does not make the value greater.
parse_hex(s, from) ==
  LET others == {i \in from + 1 .. Len(s) : s[i].k # "hex"}
      digits == SubSeq(s, from + 1, (IF others = {} THEN Len(s) ELSE Min(others) - 1))
      value[j \in 1 .. Len(digits)] ==
        IF j = 1 THEN digits[1].n
        ELSE LET v == value[j - 1]
                 w == (16 * v + digits[j].n) % SizeValues
             IN IF v = -1 \/ w <= v THEN -1 ELSE w
  IN [v |-> IF digits = <<>> THEN -1 ELSE value[Len(digits)],
      at |-> from + Len(digits)]

\* The final chunk and the trailer: from is where the chunk size starts, n the
\* number of octets from there on.
parse_trailer(r, s, from, n) ==
  LET p == r.p
      hex == parse_hex(s, from)
      term == find_eom(s, p.skip)
      extended == at(s, hex.at + 1).k = "ext"
      crlf == IF extended THEN p.x ELSE hex.at
      chunk == IF extended THEN Call(r, "on_chunk", Octet("hex", "ext", 0)) ELSE r
      fields == IF chunk.ec # "" THEN chunk
                ELSE IF <<at(s, crlf + 1), at(s, crlf + 2)>> # <<CR, LF>> THEN Fail(chunk, "bad_chunk")
                ELSE parse_fields(chunk, s, crlf + 2, term)
      complete == Then(fields, do_complete)
  IN IF term = -1 THEN Fail(r, "bad_line_ending")
     ELSE IF term = 0 THEN Set(r, [p EXCEPT !.skip = IF n > 3 THEN Len(s) - 3 ELSE @])
     ELSE Then(complete, LAMBDA q : Use(q, term))

\* Bug: the offset of the search is kept when a chunk begins.
start_chunk_KeepSkip(p, v) ==
  [p EXCEPT !.len = v, !.f = @ \cup {"ExpectCRLF"}, !.state = "chunk_body"]

start_chunk(p, v) ==
  [p EXCEPT !.len = v, !.skip = 0, !.f = @ \cup {"ExpectCRLF"}, !.state = "chunk_body"]

\* A chunk's size line, after the CRLF that ends the chunk before it.
parse_chunk_header(r, s) ==
  LET p == r.p
      expect == "ExpectCRLF" \in p.f
      from == IF expect THEN 2 ELSE 0
      n == Len(s) - from
      hex == parse_hex(s, from)
      term == find_eol(s, from + p.skip)
      extended == at(s, hex.at + 1).k = "ext"
      chunk == start_chunk(p, hex.v)
      final == Set(r, [p EXCEPT !.x = term - 2, !.skip = term - 2, !.f = @ \cup {"FinalChunk"}])
  IN IF expect /\ Len(s) < 2 THEN r
     ELSE IF expect /\ <<s[1], s[2]>> # <<CR, LF>> THEN Fail(r, "bad_chunk")
     ELSE IF "FinalChunk" \in p.f
     THEN parse_trailer([r EXCEPT !.asserted = @ /\ hex.v = 0], s, from, n)
     ELSE IF n < 2 THEN r
     ELSE IF term = -1 THEN Fail(r, "bad_line_ending")
     ELSE IF term = 0 THEN Set(r, [p EXCEPT !.skip = n - 1])
     ELSE IF hex.v = -1 THEN Fail(r, "bad_chunk")
     ELSE IF hex.v = 0 THEN parse_trailer(final, s, from, n)
     ELSE IF extended
     THEN Then(Call(r, "on_chunk", Octet("hex", "ext", hex.v)), LAMBDA q : Use(Set(q, chunk), term))
     ELSE IF hex.at # term - 2 THEN Fail(r, "bad_chunk")
     ELSE Use(Set(r, chunk), term)

\* What is parsed when the input is several buffers: the whole of the parser's
\* own buffer, which is as long as the longest input so far.
maybe_flatten(p, s) == s \o SubSeq(p.buf, Len(s) + 1, Len(p.buf))

\* write().  several: the buffer sequence has more than one buffer.
write(p0, s0, several) ==
  LET s == IF several THEN maybe_flatten(p0, s0) ELSE s0
      p == [p0 EXCEPT !.buf = IF several THEN s ELSE @]
      some == [p EXCEPT !.f = @ \cup IF s # <<>> THEN {"GotSome"} ELSE {}]
      body(step(_, _)) == Then(maybe_do_body(p), LAMBDA r : step(r, s))
  IN CASE p.state = "header" -> parse_header(some, s)
       [] p.state = "chunk_header" -> body(parse_chunk_header)
       [] p.direct \/ p.state = "complete" -> Result(p, 0, "", <<>>, FALSE)
       [] p.state = "body" -> body(parse_body)
       [] p.state = "body_to_eof" -> body(parse_body_to_eof)
       [] p.state = "chunk_body" -> parse_chunk_body(Return(p, 0), s)

write_eof(p) ==
  IF p.state = "header" THEN Fail(Return(p, 0), "partial_message")
  ELSE IF framed(p)
  THEN IF p.state # "complete" THEN Fail(Return(p, 0), "partial_message") ELSE Return(p, 0)
  ELSE do_complete(Return(p, 0))

-----------------------------------------------------------------------------
(* Direct reading: the body goes into buffers of the body's reader *)

\* How many octets the reader is asked for: limit is the size of the input for
\* copy_body and ReadLimit for prepare_body.
wanted(p, limit) == IF p.state = "body_to_eof" THEN limit ELSE Min({p.len, limit})
on_prepare(n) == Min({n, ReaderMax})

\* The error code of do_complete is thrown out.
commit_body(r, s) ==
  LET n == Len(s)
      q == on_data(r, s)
      left == q.p.len - n
  IN IF q.p.state = "body_to_eof" THEN q
     ELSE IF left > 0 THEN Set(q, [q.p EXCEPT !.len = left])
     ELSE IF q.p.state = "body"
     THEN [do_complete(Set(q, [q.p EXCEPT !.len = 0])) EXCEPT !.ec = ""]
     ELSE Set(q, [q.p EXCEPT !.len = 0, !.state = "chunk_header"])

\* Copies what the dynamic buffer holds.  consumed: what copy_body itself removes
\* from the buffer, used: what it tells its caller to remove.
copy_body(p, s) ==
  LET r == maybe_do_body(p)
      n == Min({on_prepare(wanted(p, IF p.state = "body_to_eof" THEN Len(s) ELSE p.len)), Len(s)})
  IN [r |-> Use(commit_body([r EXCEPT !.asserted = p.state = "body_to_eof" \/ p.len > 0],
                            SubSeq(s, 1, n)), n),
      consumed |-> IF p.state = "body_to_eof" THEN n ELSE 0]
=============================================================================
