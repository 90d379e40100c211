---------------------------- MODULE HttpHeaders ----------------------------
(* A program fills containers of header fields, or puts a value into one   *)
(* and reads the value back as a list with a range-for loop.               *)
EXTENDS HttpFields, HeaderGrammar
CONSTANTS Texts(_)      \* header values to read, for each kind of list

VARIABLE rd     \* the loop: kind of list or "none", text, iterator, elements seen

vars == <<obj, heap, traits, rd>>

NoReader == [kind |-> "none", s |-> <<>>, x |-> <<>>, got |-> <<>>]

Kinds == {"param", "ext", "token", "opt"}

Init == FieldsInit /\ rd = NoReader

(* the constructor of the kind's const_iterator, which increments          *)
begin(kind, s) ==
    CASE kind = "param" -> param_list_increment(s, 1)
      [] kind = "ext" -> ext_increment(s, [it |-> 1, first |-> 1])
      [] kind = "token" -> token_increment(s, [it |-> 1, first |-> 1])
      [] kind = "opt" -> opt_increment(s, [it |-> 1, error |-> FALSE])

(* operator++                                                              *)
increment(kind, s, x) ==
    CASE kind = "param" -> param_list_increment(s, x.it)
      [] kind = "ext" -> ext_increment(s, x)
      [] kind = "token" -> token_increment(s, x)
      [] kind = "opt" -> opt_increment(s, x)

(* operator== with end()                                                   *)
at_end(kind, s, x) ==
    IF kind = "opt" THEN x.it = 0 ELSE x.it = Len(s) + 1 /\ x.first = Len(s) + 1

(* *it, the parameters of an extension read in a loop of their own         *)
element(kind, x) ==
    CASE kind = "param" -> [name |-> x.name, value |-> x.value]
      [] kind = "ext" -> [name |-> x.v.name, params |-> params(x.v.second)]
      [] OTHER -> x.v

Reading == rd.kind # "none"

(* The loop's container is the only one, its allocator does not matter.    *)
local == CHOOSE o \in Objects : TRUE

header == CHOOSE n \in Names : TRUE

(* The value goes through insert() and operator[] before it is read.       *)
Begin(kind, text) ==
    LET m == insert(Born(local, Dead.alloc), local, header, text)
        s == value_of(m, local, header)
    IN  /\ Becomes(m)
        /\ rd' = [kind |-> kind, s |-> s, x |-> begin(kind, s), got |-> <<>>]

Read ==
    /\ ~Reading /\ \A o \in Objects : ~obj[o].live
    /\ traits = CHOOSE t \in Traits : TRUE
    /\ \E kind \in Kinds : \E text \in Texts(kind) : Begin(kind, text)

(* A list has no more elements than its text has characters: a loop that   *)
(* did not end would show the same elements again.                         *)
Shown(got, e) == IF Len(got) > Len(rd.s) THEN got ELSE Append(got, e)

Advance ==
    /\ Reading /\ ~at_end(rd.kind, rd.s, rd.x)
    /\ rd' = [rd EXCEPT !.got = Shown(@, element(rd.kind, rd.x)),
                        !.x = increment(rd.kind, rd.s, rd.x)]
    /\ UNCHANGED fieldVars

End ==
    /\ Reading /\ at_end(rd.kind, rd.s, rd.x)
    /\ Becomes([delete_all(State, local) EXCEPT !.obj[local] = Dead])
    /\ rd' = NoReader

Fields == ~Reading /\ FieldsNext /\ UNCHANGED rd

Next == Fields \/ Read \/ Advance \/ End

Spec == Init /\ [][Next]_vars

-----------------------------------------------------------------------------
TypeOK == FieldsTypeOK /\ rd.kind \in Kinds \cup {"none"}

AsSequences == INSTANCE FieldSequences WITH
    live <- [o \in Objects |-> obj[o].live],
    content <- [o \in Objects |-> iterate(State, o)],
    Key <- tolower, Stored <- trim

Contents(m) == [o \in Objects |-> iterate(m, o)]

ConstructorsAreTrue(o, p) ==
    /\ HasBlocks(State, Len(obj[p].list_)) =>
         \A alloc \in {obj[p].alloc, Dead.alloc} :
            Contents(copy_from(Born(o, alloc), o, iterate(State, p))) = AsSequences!Copied(o, p)
    /\ Contents(take(Born(o, obj[p].alloc), o, p)) = AsSequences!Moved(o, p)

AssignmentsAreTrue(o, p) ==
    HasBlocks(clear(State, o), Len(obj[p].list_)) =>
        /\ Contents(copy_assign(State, o, p)) =
              IF o = p THEN AsSequences!Cleared(o) ELSE AsSequences!Copied(o, p)
        /\ Contents(move_assign(State, o, p)) =
              IF o = p THEN Contents(State) ELSE AsSequences!Moved(o, p)

ChangesAreTrue(o, n) ==
    /\ Contents(erase(State, o, n)) = AsSequences!Erased(o, n)
    /\ HasRoom(o) => \A v \in Values(n) :
         /\ Contents(insert(State, o, n, v)) = AsSequences!Inserted(o, n, v)
         /\ Contents(replace(State, o, n, v)) = AsSequences!Replaced(o, n, v)

(* After any history every call does to the sequences what its name says:  *)
(* in particular a move leaves nothing behind, whichever of its three ways *)
(* the allocators make it take (fields.ipp:31-58), and a copy leaves the   *)
(* source alone.  Assigning a container to itself by copy is the exception *)
(* the code makes: clear() runs before the copy (fields.ipp:136).          *)
CallsAreTrue ==
    ~Reading => \A o \in Objects :
        /\ obj[o].live => Contents(clear(State, o)) = AsSequences!Cleared(o)
        /\ obj[o].live => \A n \in Names : ChangesAreTrue(o, n)
        /\ \A p \in Objects : obj[p].live =>
             IF obj[o].live THEN AssignmentsAreTrue(o, p) ELSE ConstructorsAreTrue(o, p)

(* Whatever the program does with its containers - insertions, copies and  *)
(* moves with equal and unequal allocators - they behave as sequences of   *)
(* fields.                                                                 *)
RefinesSequences == AsSequences!Spec

(* At the end of the loop                                                  *)
Done == Reading /\ at_end(rd.kind, rd.s, rd.x)

(* A parameter followed by what cannot follow one: the readers drop it     *)
(* with its name, where the comments announce the list "up to but          *)
(* excluding the first invalid character", and so does an extension's last *)
(* parameter without value in front of a comma, which is not even invalid  *)
(* (detail/rfc7230.hpp:412).                                               *)
DropsParameter(s) ==
    \E i \in 1 .. Len(s) : s[i] = ";" /\
        LET a == skip_ows(s, i + 1)
            b == skip_ows(s, skip_token(s, a))
            value == skip_ows(s, b + 1)
        IN  /\ skip_token(s, a) # a /\ b <= Len(s) /\ s[b] # ";"
            /\ s[b] = "=" => value <= Len(s) /\ Value(s, value) = {}

(* A loop shows what the grammar the readers apply derives from the        *)
(* longest beginning of the value: it stops where the first error is, and  *)
(* neither earlier nor later.                                              *)
ReadAsApplied == Shows(Derivations(rd.kind, rd.s, TRUE)) = {rd.got}

(* That is also what the documented BNF derives, quoted strings unquoted,  *)
(* for every value, well-formed or not, in which no parameter is dropped.  *)
ReadAsDocumented(derivations) ==
    ~(rd.kind \in {"param", "ext"} /\ DropsParameter(rd.s)) => Shows(derivations) = {rd.got}

(* validate_list accepts exactly what one of the two BNFs given for        *)
(* opt_token_list derives.                                                 *)
ValidateAgrees(derivations) ==
    rd.kind = "opt" => (validate_list(rd.s) <=> Whole(derivations, rd.s) # {})

(* Every step of a loop shows an element, and there are no more of them    *)
(* than characters: a loop that has shown more will not end.               *)
LoopsEnd == Reading => Len(rd.got) <= Len(rd.s)

(* A loop over a header value ends, and shows what the grammar derives:    *)
(* nothing is made up, and nothing left out but the parameters of          *)
(* DropsParameter.                                                         *)
GrammarAgrees ==
    /\ LoopsEnd
    /\ Done => /\ ReadAsApplied
               /\ \E D \in {Derivations(rd.kind, rd.s, FALSE)} :
                    ReadAsDocumented(D) /\ ValidateAgrees(D)

(* The list, the set, the lookups and the allocators of the containers     *)
(* agree after any history of insertions, copies and moves.                *)
ContainersAgree == TypeOK /\ OneOwner /\ SetMatchesList /\ LookupsAgree

=============================================================================
