--------------------------- MODULE MCHttpHeaders ---------------------------
EXTENDS HttpHeaders
CONSTANT Most       \* pieces in a text

a == <<"a">>
NamesMC == {"a", "A", "b"}
ValuesMC(n) == IF n = "A" THEN {<<" ", "b", " ">>} ELSE {a}
TraitsMC == {[move |-> FALSE, copy |-> TRUE], [move |-> TRUE, copy |-> FALSE]}

Pieces(kind) ==
    IF kind \in {"token", "opt"} THEN {a, <<",">>, <<" ">>, <<"@">>}
    ELSE {a, <<",">>, <<";">>, <<";", "a">>, <<"=">>, <<"=", "a">>, <<" ">>,
          <<DQ, ",", BS, DQ, DQ>>, <<DQ, "a">>, <<DQ, "^", DQ>>}

TextsMC(kind) ==
    {FlattenSeq(p) : p \in UNION {[1 .. n -> Pieces(kind)] :
                                    n \in 0 .. IF kind \in {"token", "opt"} THEN Most + 1 ELSE Most}}
=============================================================================
