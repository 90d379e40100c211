----------------------------- MODULE MCHttpRead -----------------------------
(* The connections HttpRead is checked with. *)
EXTENDS HttpRead

Start(v, status) == Octet("start", v, status)
Field(v) == Octet("field", v, 0)
Length(n) == Octet("field", "content-length", n)
D(n) == Octet("data", "", n)
C(data, ext) == [data |-> data, ext |-> ext]

Request ==
  [request |-> TRUE, start |-> Start("11", 0), fields |-> <<>>, folded |-> 0, framing |-> "none",
   data |-> <<>>, chunks |-> <<>>, zeros |-> FALSE, last |-> <<Digit(0)>>, trailer |-> <<>>,
   skip |-> FALSE, veto |-> "", broken |-> 0]
Response == [Request EXCEPT !.request = FALSE, !.start = Start("11", 200)]

WithLength(m, data) ==
  [m EXCEPT !.fields = Append(@, Length(Len(data))), !.framing = "length", !.data = data]
WithChunks(m, chunks) ==
  [m EXCEPT !.fields = Append(@, Field("chunked")), !.framing = "chunked", !.chunks = chunks]
WithFields(m, fields) == [m EXCEPT !.fields = @ \o fields]

Post == WithLength(Request, <<CR, LF>>)
ChunkedPost == WithChunks(Request, <<C(<<CR, D(1)>>, TRUE), C(<<LF>>, FALSE)>>)
Trailed == [WithChunks(Response, <<C(<<D(1)>>, FALSE)>>) EXCEPT
              !.trailer = <<Field("connection-close")>>, !.zeros = TRUE,
              !.last = <<Digit(0), Extension>>]
ToEof == [Response EXCEPT !.framing = "eof", !.data = <<D(1), CR, LF>>]
Empty == WithChunks(Request, <<>>)

\* Messages that follow each other, of every framing.
Good ==
  << <<Post, Request>>,
     <<ChunkedPost, Post>>,
     <<Trailed, Response>>,
     <<[WithLength(Response, <<>>) EXCEPT !.start = Start("10", 200),
                                         !.fields = @ \o <<Field("connection-keep-alive")>>], ToEof>>,
     <<[WithLength(Response, <<D(1)>>) EXCEPT !.start = Start("11", 304)], Trailed>>,
     <<[WithChunks(Response, <<C(<<D(1)>>, TRUE)>>) EXCEPT !.skip = TRUE],
       WithLength(Response, <<D(1), D(2), D(3), D(4), D(5)>>)>>,
     <<WithFields(Empty, <<Field("upgrade"), Field("connection-upgrade")>>), Request>>,
     <<[Request EXCEPT !.fields = <<Field("other"), Field("other-encoding")>>, !.folded = 1], Post>> >>

\* Messages with one thing wrong.
Bad ==
  << <<WithLength(Post, <<D(1)>>)>>,
     <<WithChunks(Post, <<>>)>>,
     <<WithFields(Empty, <<Length(2)>>)>>,
     <<[ChunkedPost EXCEPT !.trailer = <<Field("chunked")>>]>>,
     <<[Post EXCEPT !.folded = 1]>>,
     <<WithFields(Request, <<Field("content-length-bad")>>)>>,
     <<WithFields(Request, <<Field("not-text")>>)>>,
     <<WithFields(Request, <<Field("connection-bad")>>)>>,
     <<WithFields(Request, <<Octet("junk", "", 0)>>)>>,
     <<[Response EXCEPT !.start = Start("bad", 200)]>>,
     <<[Response EXCEPT !.start = Octet("junk", "", 0)]>>,
     <<[ChunkedPost EXCEPT !.last = <<Octet("junk", "", 0)>>]>>,
     <<[ChunkedPost EXCEPT !.last = <<Digit(1), Digit(0), Digit(0)>>]>> >>
  \o [i \in 1 .. 7 |-> <<[Trailed EXCEPT !.broken = i]>>]

\* Callbacks that fail.
Vetoed ==
  << <<[Post EXCEPT !.veto = "on_request"]>>,
     <<[Trailed EXCEPT !.veto = "on_response"]>>,
     <<[Post EXCEPT !.veto = "on_field"]>>,
     <<[Post EXCEPT !.veto = "on_header"]>>,
     <<[Post EXCEPT !.veto = "on_body"]>>,
     <<[ToEof EXCEPT !.veto = "on_data"]>>,
     <<[ChunkedPost EXCEPT !.veto = "on_chunk"]>>,
     <<[ChunkedPost EXCEPT !.veto = "on_complete"]>>,
     <<[Request EXCEPT !.veto = "on_complete"]>> >>

AllConnections == Good \o Bad \o Vetoed

\* A body that ends with the stream.
EofConnections == << <<ToEof>> >>

\* A chunked message: its chunk headers are shorter than its header.
ShortConnections == << <<ChunkedPost>> >>
=============================================================================
