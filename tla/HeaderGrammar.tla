--------------------------- MODULE HeaderGrammar ---------------------------
(* The BNF of the header lists as http/rfc7230.hpp documents it, written   *)
(* as derivations: an operator named for a nonterminal gives, for a text   *)
(* and a position, every way to derive it from there, each with the        *)
(* position behind it and what it stands for.  This is the reference the   *)
(* readers of Rfc7230 are compared with.  Where they differ from the       *)
(* documented BNF, which is in what may follow a parameter without value,  *)
(* the grammar they apply is given beside it (strict).                     *)
EXTENDS Rfc7230

Behind(s, i, class(_)) == {j \in i .. Len(s) + 1 : \A k \in i .. j - 1 : class(s[k])}

OWS(s, i) == Behind(s, i, is_ows)

Token(s, i) == Behind(s, i, is_tchar) \ {i}

Char(s, i, c) == IF i <= Len(s) /\ s[i] = c THEN {i + 1} ELSE {}

(* X Y for a set X of positions                                            *)
Then(X, Y(_)) == UNION {Y(j) : j \in X}

(* OWS c OWS                                                               *)
Padded(s, i, c) ==
    Then(Then(OWS(s, i), LAMBDA j : Char(s, j, c)), LAMBDA j : OWS(s, j))

(* DQUOTE *( qdtext / quoted-pair ) DQUOTE, with the positions of the      *)
(* backslashes that start a quoted-pair                                    *)
QuotedString(s, i) ==
    {q \in [to : i + 2 .. Len(s) + 1, esc : SUBSET {k \in i + 1 .. Len(s) - 2 : s[k] = BS}] :
        /\ s[i] = DQ /\ s[q.to - 1] = DQ
        /\ \A e \in q.esc : /\ e + 1 < q.to - 1
                            /\ e + 1 \notin q.esc /\ is_qpchar(s[e + 1])
        /\ \A k \in i + 1 .. q.to - 2 :
              k \in q.esc \/ k - 1 \in q.esc \/ is_qdchar(s[k])}

(* what a quoted-string stands for                                         *)
Unquoted(s, i, q) ==
    LET from[k \in i + 1 .. q.to - 1] ==
        IF k = q.to - 1 THEN <<>>
        ELSE (IF k \in q.esc THEN <<>> ELSE <<s[k]>>) \o from[k + 1]
    IN  from[i + 1]

Value(s, i) ==
    {[to |-> j, value |-> SubSeq(s, i, j - 1)] : j \in Token(s, i)}
      \cup (IF Char(s, i, DQ) = {} THEN {}
            ELSE {[to |-> q.to, value |-> Unquoted(s, i, q)] : q \in QuotedString(s, i)})

(* The readers take a parameter without value only in front of ";" and of  *)
(* the end of the text, where "=" may precede it: what follows any other   *)
(* belongs to it, is an error in it, and the parameter is dropped.         *)
StrictEnd(s, b) ==
    {j \in OWS(s, b) : j = Len(s) + 1 \/ s[j] = ";"} \cup (Padded(s, b, "=") \cap {Len(s) + 1})

(* OWS ";" OWS token OWS [ "=" OWS ( token / quoted-string ) ]             *)
Param(s, i, strict) ==
    UNION {UNION {
        LET name == SubSeq(s, a, b - 1)
            bare == {[to |-> j, p |-> [name |-> name, value |-> <<>>]] :
                       j \in IF strict THEN StrictEnd(s, b) ELSE OWS(s, b)}
            full == UNION {{[to |-> v.to, p |-> [name |-> name, value |-> v.value]] :
                              v \in Value(s, e)} : e \in Padded(s, b, "=")}
        IN  bare \cup full : b \in Token(s, a)} : a \in Padded(s, i, ";")}

(* *( OWS ";" OWS param )                                                  *)
ParamList(s, start, strict) ==
    LET from[i \in 1 .. Len(s) + 1] ==
        {[to |-> i, items |-> <<>>]} \cup
        UNION {{[to |-> r.to, items |-> <<p.p>> \o r.items] : r \in from[p.to]} :
                 p \in Param(s, i, strict)}
    IN  from[start]

(* token param-list                                                        *)
Ext(s, i, strict) ==
    UNION {{[to |-> r.to, item |-> [name |-> SubSeq(s, i, j - 1), params |-> r.items]] :
              r \in ParamList(s, j, strict)} : j \in Token(s, i)}

TokenItem(s, i) == {[to |-> j, item |-> SubSeq(s, i, j - 1)] : j \in Token(s, i)}

(* *( OWS "," [ OWS element ] )                                            *)
Elements(s, start, Element(_)) ==
    LET from[i \in 1 .. Len(s) + 1] ==
        {[to |-> i, items |-> <<>>]} \cup
        UNION {from[j] \cup
               UNION {UNION {{[to |-> r.to, items |-> <<x.item>> \o r.items] : r \in from[x.to]} :
                               x \in Element(k)} : k \in OWS(s, j)} :
                 j \in Then(OWS(s, i), LAMBDA k : Char(s, k, ","))}
    IN  from[start]

FirstThen(s, i, Element(_)) ==
    UNION {{[to |-> r.to, items |-> <<x.item>> \o r.items] : r \in Elements(s, x.to, Element)} :
             x \in Element(i)}

(* *( "," OWS ) element *( OWS "," [ OWS element ] )                       *)
List(s, Element(_)) ==
    LET lead[i \in 1 .. Len(s) + 1] ==
        {i} \cup UNION {lead[j] : j \in Then(Char(s, i, ","), LAMBDA k : OWS(s, k))}
    IN  UNION {FirstThen(s, i, Element) : i \in lead[1]}

ExtList(s, strict) == List(s, LAMBDA i : Ext(s, i, strict))

TokenList(s) == List(s, LAMBDA i : TokenItem(s, i))

(* the two forms the comments on opt_token_list and its policy give:       *)
(* token-list, and #token = [ ( "," / token ) *( OWS "," [ OWS token ] ) ] *)
OptTokenList(s) ==
    {[to |-> 1, items |-> <<>>]}
      \cup TokenList(s)
      \cup FirstThen(s, 1, LAMBDA i : TokenItem(s, i))
      \cup UNION {Elements(s, j, LAMBDA i : TokenItem(s, i)) : j \in Char(s, 1, ",")}

Derivations(kind, s, strict) ==
    CASE kind = "param" -> ParamList(s, 1, strict)
      [] kind = "ext" -> ExtList(s, strict)
      [] kind = "token" -> TokenList(s)
      [] kind = "opt" -> OptTokenList(s)

(* those of the whole text                                                 *)
Whole(derivations, s) == {d \in derivations : d.to = Len(s) + 1}

(* what a list shows of a text: what is derived from the longest beginning *)
(* of it, and nothing if nothing can be                                    *)
Shows(derivations) ==
    IF derivations = {} THEN {<<>>}
    ELSE {d.items : d \in {d \in derivations : \A other \in derivations : other.to <= d.to}}
=============================================================================
