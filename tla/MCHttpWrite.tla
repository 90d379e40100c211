---------------------------- MODULE MCHttpWrite ----------------------------
(* The messages HttpWrite is checked with. *)
EXTENDS HttpWrite

D(n) == Octet("data", "", n)
Long == [i \in 1 .. 18 |-> D(i)]

Bodies == {<< <<>> >>, << <<D(1), CR>> >>, << <<LF>>, <<D(1), D(2)>> >>, << Long >>}

\* Messages prepare() is called for.
PreparedMessages ==
  {m \in [request : BOOLEAN, version : {"10", "11"}, post : BOOLEAN, status : {101, 200, 204},
          fields : {<<"special">>, <<"chunked">>, <<"connection-close">>}, pieces : Bodies, sized : BOOLEAN,
          option : {"", "upgrade", "keep_alive", "close"}, fails : {-1}, whole : {TRUE}] :
     \* a request has no status; only a request is a POST
     /\ m.request => m.status = 200
     /\ m.post => m.request
     \* the end of the body is known to the peer
     /\ (m.option = "upgrade" \/ m.status # 200 \/ (m.request /\ m.version = "10" /\ ~m.sized)) => m.pieces = << <<>> >>
     /\ m.option = "upgrade" => m.request \/ m.status = 101
     \* a writer that does not know its size provides no empty buffer
     /\ ~m.sized => (m.pieces # << <<>> >> \/ m.version = "10") /\ m.status = 200 /\ m.option # "upgrade"}

One == [request |-> FALSE, version |-> "11", post |-> FALSE, status |-> 200, fields |-> <<>>,
        pieces |-> << <<D(1)>>, <<D(2)>> >>, sized |-> FALSE, option |-> "", fails |-> -1, whole |-> TRUE]

\* Writers that fail, headers alone and fields set by hand.
Others ==
  {[One EXCEPT !.fails = f] : f \in 0 .. 2}
  \cup {[One EXCEPT !.whole = FALSE, !.option = "raw", !.pieces = << <<>> >>, !.fields = <<"special", "chunked">>],
        [One EXCEPT !.option = "raw", !.fields = <<"chunked", "connection-close">>],
        [One EXCEPT !.option = "raw", !.fields = <<"content-length">>, !.version = "10"],
        [One EXCEPT !.sized = TRUE, !.fails = 0]}

\* A writer whose last call returns true without a buffer.
Silent == [One EXCEPT !.pieces = << <<D(1)>>, Nothing >>]

AllMessages == PreparedMessages \cup Others \cup {Silent}
=============================================================================
