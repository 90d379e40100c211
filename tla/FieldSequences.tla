--------------------------- MODULE FieldSequences --------------------------
(* What basic_fields promises: each container is a sequence of fields in   *)
(* the order of insertion.  Names compare without case, values are stored  *)
(* without the space around them.                                          *)
EXTENDS Integers, Sequences
CONSTANTS
    Objects,
    Names,
    Values(_),      \* values inserted under a name
    Key(_),         \* a name without its case
    Stored(_)       \* a value without the space around it
VARIABLES live, content

(* the fields of c with another name                                       *)
Without(c, name) == SelectSeq(c, LAMBDA f : Key(f.name) # Key(name))

With(c, name, value) == Append(c, [name |-> name, value |-> Stored(value)])

(* what each call makes of the sequences                                   *)
Cleared(o) == [content EXCEPT ![o] = <<>>]
Erased(o, name) == [content EXCEPT ![o] = Without(@, name)]
Inserted(o, name, value) == [content EXCEPT ![o] = With(@, name, value)]
Replaced(o, name, value) == [content EXCEPT ![o] = With(Without(@, name), name, value)]
Copied(o, p) == [content EXCEPT ![o] = content[p]]
Moved(o, p) == [content EXCEPT ![o] = content[p], ![p] = <<>>]

Init ==
    /\ live = [o \in Objects |-> FALSE]
    /\ content = [o \in Objects |-> <<>>]

Construct(o) == ~live[o] /\ live' = [live EXCEPT ![o] = TRUE] /\ UNCHANGED content

Destroy(o) ==
    /\ live[o] /\ live' = [live EXCEPT ![o] = FALSE]
    /\ content' = Cleared(o)

Clear(o) == live[o] /\ content' = Cleared(o) /\ UNCHANGED live

Erase(o, name) == live[o] /\ content' = Erased(o, name) /\ UNCHANGED live

Insert(o, name, value) == live[o] /\ content' = Inserted(o, name, value) /\ UNCHANGED live

Replace(o, name, value) == live[o] /\ content' = Replaced(o, name, value) /\ UNCHANGED live

(* construction or assignment from another container                       *)
Copy(o, p) ==
    o # p /\ live[p] /\ live' = [live EXCEPT ![o] = TRUE] /\ content' = Copied(o, p)

Move(o, p) ==
    o # p /\ live[p] /\ live' = [live EXCEPT ![o] = TRUE] /\ content' = Moved(o, p)

(* a container made with one field, for a value to be read                 *)
ConstructWith(o) ==
    /\ ~live[o] /\ live' = [live EXCEPT ![o] = TRUE]
    /\ \E name \in Names : Len(content'[o]) = 1 /\ content'[o][1].name = name
    /\ content'[o][1].value = Stored(content'[o][1].value)
    /\ content' = [content EXCEPT ![o] = content'[o]]

Next ==
    \E o \in Objects :
        \/ Construct(o) \/ Destroy(o) \/ Clear(o) \/ ConstructWith(o)
        \/ \E n \in Names : \/ Erase(o, n)
                            \/ \E v \in Values(n) : Insert(o, n, v) \/ Replace(o, n, v)
        \/ \E p \in Objects : Copy(o, p) \/ Move(o, p)

Spec == Init /\ [][Next]_<<live, content>>
=============================================================================
