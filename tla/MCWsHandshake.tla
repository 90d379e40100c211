--------------------------- MODULE MCWsHandshake ---------------------------
(* All combinations of options at both ends, and decorators that change    *)
(* one field.                                                              *)
EXTENDS WsHandshake

O(server_enable, client_enable, sbits, cbits, snct, cnct) ==
  [server_enable |-> server_enable, client_enable |-> client_enable, server_max_window_bits |-> sbits,
   client_max_window_bits |-> cbits, server_no_context_takeover |-> snct, client_no_context_takeover |-> cnct]

S(copts, sopts, req, res, early, accepts, rounds) ==
  [copts |-> copts, sopts |-> sopts, req |-> req, res |-> res, early |-> early, accepts |-> accepts, rounds |-> rounds]
NoDecorator == <<"none", 0>>
On == O(TRUE, TRUE, 12, 15, FALSE, FALSE)

Windows == {O(TRUE, TRUE, s, c, FALSE, FALSE) : s \in {9, 12, 15}, c \in {10, 15}}
Takeovers == {O(TRUE, TRUE, 12, 15, n, n2) : n \in BOOLEAN, n2 \in BOOLEAN}

Pmd(params) == <<[name |-> "permessage-deflate", params |-> params]>>
swb(v) == <<"server_max_window_bits", v>>
cwb(v) == <<"client_max_window_bits", v>>
snct == <<"server_no_context_takeover", <<>>>>
cnct == <<"client_no_context_takeover", <<>>>>

\* Lists of extensions a program may set.
Lists ==
  {<<[name |-> "other", params |-> <<cwb(<<9>>)>>]>>,
   <<[name |-> "other", params |-> <<>>]>> \o Pmd(<<cwb(<<>>)>>),
   Pmd(<<cwb(<<1, 6>>)>>) \o Pmd(<<>>)}
  \cup {Pmd(p) : p \in {<<>>, <<swb(<<8>>)>>, <<swb(<<>>)>>, <<swb(<<0, 9>>)>>, <<swb(<<1, 5>>), cwb(<<1, 1>>)>>,
                        <<cwb(<<1, 10>>)>>, <<cwb(<<1, 2, 3>>)>>, <<cwb(<<>>), snct>>, <<snct, snct>>,
                        <<swb(<<9>>), swb(<<1, 0>>)>>, <<cwb(<<>>), cwb(<<9>>)>>, <<cnct, snct, cwb(<<1, 1>>), swb(<<1, 2>>)>>,
                        <<<<"unknown", <<>>>>>>, <<<<"client_no_context_takeover", <<1>>>>>>}}

Wrong ==
  {<<"version", 10>>, <<"method", "PUT">>, <<"connection", "">>, <<"host", FALSE>>, <<"upgrade", "">>,
   <<"key", 0>>, <<"key", LongKey>>, <<"wsversion", "">>, <<"wsversion", "8">>}
WrongAnswers == {<<"version", 10>>, <<"connection", "">>, <<"upgrade", "">>, <<"accept", 0>>, <<"accept", 7>>}

A(a, r, b) == [async |-> a, request |-> r, buffers |-> b]
Plain == {A(TRUE, FALSE, FALSE)}
AllAccepts == [async : BOOLEAN, request : BOOLEAN, buffers : BOOLEAN]

AllSessions ==
  {S(c, s, NoDecorator, NoDecorator, FALSE, Plain, 1) : c \in Windows, s \in Windows}
  \cup {S(c, s, NoDecorator, NoDecorator, FALSE, Plain, 1) : c \in Takeovers, s \in Takeovers}
  \cup {S(c, s, NoDecorator, NoDecorator, TRUE, AllAccepts, 1) : c \in {On, [On EXCEPT !.client_enable = FALSE]},
                                                            s \in {On, [On EXCEPT !.server_enable = FALSE]}}
  \cup {S(On, On, NoDecorator, NoDecorator, e, {A(TRUE, FALSE, TRUE), A(FALSE, TRUE, TRUE)}, 2) : e \in BOOLEAN}
  \cup {S(On, o, <<"ext", l>>, NoDecorator, FALSE, Plain, 1) : l \in Lists, o \in {On, [On EXCEPT !.client_max_window_bits = 10]}}
  \cup {S(On, On, d, NoDecorator, FALSE, {A(TRUE, FALSE, FALSE), A(FALSE, FALSE, FALSE)}, 1) : d \in Wrong}
  \cup {S(On, On, NoDecorator, d, FALSE, Plain, 1) : d \in WrongAnswers}

BlockingSessions == {S(c, s, NoDecorator, NoDecorator, FALSE, {A(FALSE, FALSE, FALSE)}, 1) : c \in {On}, s \in Takeovers}
=============================================================================
