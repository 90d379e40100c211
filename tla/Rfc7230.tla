------------------------------ MODULE Rfc7230 ------------------------------
(* The readers of comma and semicolon separated header values of           *)
(* http/rfc7230.hpp: param_list, ext_list, token_list and opt_token_list,  *)
(* with the iterators of http/impl/rfc7230.ipp and the scanning functions  *)
(* of http/detail/rfc7230.hpp.                                             *)
(*                                                                         *)
(* A text is a sequence of characters, one string of length one for each   *)
(* class the code tells apart.  A position is an index 1..Len(s)+1, the    *)
(* last of which is the code's end pointer; 0 is its null pointer.         *)
EXTENDS Integers, Sequences

DQ == "\""
BS == "\\"

(* http/detail/rfc7230.hpp: the classes.  "a", "A" and "b" stand for the   *)
(* letters, " " for SP and HTAB, "@" for a visible character that is no    *)
(* tchar, "^" for a control character.                                     *)
is_tchar(c) == c \in {"a", "A", "b"}
is_ows(c) == c = " "
is_qdchar(c) == c \notin {DQ, BS, "^"}
is_qpchar(c) == c # "^"

(* the first position from i on whose character is not in a class          *)
skip(s, i, class(_)) ==
    CHOOSE j \in i .. Len(s) + 1 :
        /\ \A k \in i .. j - 1 : class(s[k])
        /\ j <= Len(s) => ~class(s[j])

skip_ows(s, i) == skip(s, i, is_ows)

skip_token(s, i) == skip(s, i, is_tchar)

trim(s) ==
    LET first == skip_ows(s, 1)
        keep == {k \in 1 .. Len(s) : ~is_ows(s[k])}
    IN  IF keep = {} THEN <<>>
        ELSE SubSeq(s, first, CHOOSE k \in keep : \A m \in keep : m <= k)

-----------------------------------------------------------------------------
(* param_iter and param_list                                               *)

(* behind the DQUOTE that ends a quoted-string, or 0                       *)
quoted_end(s, from) ==
    LET e[i \in 1 .. Len(s) + 1] ==
        IF i > Len(s) THEN 0
        ELSE IF s[i] = DQ THEN i + 1
        ELSE IF is_qdchar(s[i]) THEN e[i + 1]
        ELSE IF s[i] = BS /\ i < Len(s) /\ is_qpchar(s[i + 1]) THEN e[i + 2]
        ELSE 0
    IN  e[from]

empty(pi) == pi.first = pi.it

parameter(to, first, name, value) == [it |-> to, first |-> first, name |-> name, value |-> value]

(* nothing, at the semicolon where the error was met                       *)
refused(first) == parameter(first, first, <<>>, <<>>)

(* a value from p2 to end                                                  *)
param_value(s, first, name, p2, end) ==
    IF end \in {0, p2} THEN refused(first)
    ELSE parameter(end, first, name, SubSeq(s, p2, end - 1))

(* behind the equal sign                                                   *)
param_equals(s, first, name, p2) ==
    IF p2 = Len(s) + 1 THEN parameter(p2, first, name, <<>>)
    ELSE param_value(s, first, name, p2, IF s[p2] = DQ THEN quoted_end(s, p2 + 1) ELSE skip_token(s, p2))

(* behind the name                                                         *)
param_named(s, first, name, eq) ==
    IF eq = Len(s) + 1 \/ s[eq] = ";" THEN parameter(eq, first, name, <<>>)
    ELSE IF s[eq] # "=" THEN refused(first)
    ELSE param_equals(s, first, name, skip_ows(s, eq + 1))

(* a name from p0 to p1                                                    *)
param_name(s, first, p0, p1) ==
    IF p0 = p1 THEN refused(first)
    ELSE param_named(s, first, SubSeq(s, p0, p1 - 1), skip_ows(s, p1))

param_first(s, first) ==
    IF first = Len(s) + 1 \/ s[first] # ";" THEN refused(first)
    ELSE LET p0 == skip_ows(s, first + 1) IN param_name(s, first, p0, skip_token(s, p0))

(* param_iter::increment from position at                                  *)
param_increment(s, at) == param_first(s, skip_ows(s, at))

unquote_Raw(sr) == SubSeq(sr, 2, Len(sr) - 1)

unquote(sr) ==
    LET u[i \in 2 .. Len(sr)] ==
        IF i = Len(sr) THEN <<>>
        ELSE IF sr[i] = BS THEN <<sr[i + 1]>> \o u[i + 2]
        ELSE <<sr[i]>> \o u[i + 1]
    IN  u[2]

(* what a param_list makes of the parameter                                *)
listed(s, pi) ==
    IF empty(pi) THEN [pi EXCEPT !.it = Len(s) + 1, !.first = Len(s) + 1]
    ELSE IF pi.value # <<>> /\ Head(pi.value) = DQ
    THEN [pi EXCEPT !.value = unquote(@)]
    ELSE pi

param_list_increment(s, at) == listed(s, param_increment(s, at))

(* the parameters of a list, from begin() to end()                         *)
params(s) ==
    LET from[at \in 1 .. Len(s) + 1] ==
            LET shown(pi) == IF pi.first = Len(s) + 1 THEN <<>>
                             ELSE <<[name |-> pi.name, value |-> pi.value]>> \o from[pi.it]
            IN  shown(param_list_increment(s, at))
    IN  from[1]

-----------------------------------------------------------------------------
(* ext_list, token_list and opt_token_list                                 *)

(* the loop over commas in front of a token: where the token starts, or 0; *)
(* ok is FALSE when a character other than these is met, or a token that   *)
(* no comma separates from the one before                                  *)
next_token(s, at, need_comma) ==
    LET scan[x \in (1 .. Len(s) + 1) \X BOOLEAN] ==
        LET i == skip_ows(s, x[1])
        IN  IF i > Len(s) THEN [at |-> 0, ok |-> TRUE]
            ELSE IF is_tchar(s[i])
            THEN IF x[2] THEN [at |-> 0, ok |-> FALSE] ELSE [at |-> i, ok |-> TRUE]
            ELSE IF s[i] # "," THEN [at |-> 0, ok |-> FALSE]
            ELSE scan[<<i + 1, FALSE>>]
    IN  scan[<<at, need_comma>>]

(* behind the last parameter of an extension                               *)
params_end(s, from) ==
    LET e[i \in 1 .. Len(s) + 1] ==
            LET behind(pi) == IF empty(pi) THEN pi.it ELSE e[pi.it] IN behind(param_increment(s, i))
    IN  e[from]

extension(s, from, p0, p1, to) ==
    [it |-> to, first |-> from, v |-> [name |-> SubSeq(s, p0, p1 - 1), second |-> SubSeq(s, p1, to - 1)]]

exhausted(s) == [it |-> Len(s) + 1, first |-> Len(s) + 1, v |-> <<>>]

ext_at(s, from, p0) ==
    IF p0 = 0 THEN exhausted(s)
    ELSE LET p1 == skip_token(s, p0) IN extension(s, from, p0, p1, params_end(s, p1))

ext_increment(s, x) == ext_at(s, x.it, next_token(s, x.it, x.it # x.first).at)

token_at(s, from, p0) ==
    IF p0 = 0 THEN exhausted(s)
    ELSE LET p1 == skip_token(s, p0) IN [it |-> p1, first |-> from, v |-> SubSeq(s, p0, p1 - 1)]

token_increment(s, x) == token_at(s, x.it, next_token(s, x.it, x.it # x.first).at)

(* opt_token_list_policy                                                   *)
opt_at(s, next) ==
    IF next.at = 0 THEN [it |-> 0, v |-> <<>>, ok |-> next.ok]
    ELSE LET p1 == skip_token(s, next.at) IN [it |-> p1, v |-> SubSeq(s, next.at, p1 - 1), ok |-> TRUE]

opt_policy(s, x) == opt_at(s, next_token(s, x.it, x.it # 1))

(* basic_parsed_list::const_iterator::increment                            *)
opt_increment(s, x) ==
    LET parsed(r) == [it |-> r.it, v |-> r.v, error |-> x.error \/ ~r.ok] IN parsed(opt_policy(s, x))

validate_list(s) ==
    LET go[i \in 0 .. Len(s) + 1] ==
            LET valid(x) == ~x.error /\ (x.it = 0 \/ go[x.it])
            IN  valid(opt_increment(s, [it |-> i, v |-> <<>>, error |-> FALSE]))
    IN  go[1]
=============================================================================
