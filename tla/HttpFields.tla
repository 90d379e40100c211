----------------------------- MODULE HttpFields -----------------------------
(* basic_fields: http/fields.hpp, http/impl/fields.ipp and                 *)
(* http/detail/fields.hpp.                                                 *)
(*                                                                         *)
(* A container threads every element it owns on two intrusive structures:  *)
(* list_, in the order of insertion, and set_, a multiset ordered by the   *)
(* name without its case.  An element is a block of the heap that an       *)
(* allocator gave out and that must be given back to an equal one.         *)
EXTENDS Rfc7230, FiniteSets, SequencesExt
CONSTANTS
    Objects,        \* containers of the program
    Allocs,         \* allocators that are not equal
    Blocks,         \* blocks of the heap: bounds the elements that exist
    MaxFields,      \* bounds the elements of a container
    Names,          \* names the program uses: letters
    Values(_),      \* values the program inserts under a name: texts
    Traits          \* the traits an allocator type may have: a set of
                    \* [move, copy], whether the allocator propagates
                    \* on an assignment of that kind

ASSUME BlocksAreNumbers == Blocks \in SUBSET (Nat \ {0}) /\ IsFiniteSet(Blocks) /\ Blocks # {}
ASSUME ProgramHasParts == Objects # {} /\ Allocs # {} /\ Names # {}
ASSUME NamesAreLetters == Names \subseteq {"a", "A", "b"}
ASSUME TraitsAreBooleans == Traits \subseteq [move : BOOLEAN, copy : BOOLEAN]

VARIABLES
    obj,    \* container -> [live, alloc, set_, list_]
    heap,   \* block -> [alloc, name, value] or Free
    traits  \* the traits of the program's allocator type

fieldVars == <<obj, heap, traits>>

Free == [alloc |-> "none", name |-> "", value |-> <<>>]

Allocated == {b \in Blocks : heap[b] # Free}

Dead == [live |-> FALSE, alloc |-> CHOOSE a \in Allocs : TRUE, set_ |-> <<>>, list_ |-> <<>>]

FieldsInit ==
    /\ obj = [o \in Objects |-> Dead]
    /\ heap = [b \in Blocks |-> Free]
    /\ traits \in Traits

(* ci_less: names that differ in case only have the same place in the      *)
(* order.  A name is one letter: the code compares letter by letter.       *)
tolower(name) == CASE name \in {"a", "A"} -> 1 [] name = "b" -> 2

ci_less(x, y) == tolower(x) < tolower(y)

-----------------------------------------------------------------------------
(* The operations of boost::intrusive on a state m = [obj, heap]           *)

set_lower_bound(m, o, name) ==
    Cardinality({k \in DOMAIN m.obj[o].set_ : ci_less(m.heap[m.obj[o].set_[k]].name, name)}) + 1

set_upper_bound(m, o, name) ==
    Cardinality({k \in DOMAIN m.obj[o].set_ : ~ci_less(name, m.heap[m.obj[o].set_[k]].name)}) + 1

(* the elements find() to upper_bound()                                    *)
set_matches(m, o, name) ==
    SubSeq(m.obj[o].set_, set_lower_bound(m, o, name), set_upper_bound(m, o, name) - 1)

-----------------------------------------------------------------------------
(* basic_fields, as functions of the state                                 *)

delete_all(m, o) ==
    [m EXCEPT !.heap = [b \in Blocks |->
        IF \E k \in DOMAIN m.obj[o].list_ : m.obj[o].list_[k] = b THEN Free ELSE @[b]]]

clear(m, o) ==
    [delete_all(m, o) EXCEPT !.obj[o].list_ = <<>>, !.obj[o].set_ = <<>>]

block(m) == CHOOSE b \in Blocks : m.heap[b] = Free /\ \A c \in Blocks : m.heap[c] = Free => b <= c

HasBlocks(m, n) == Cardinality({b \in Blocks : m.heap[b] = Free}) >= n

insert(m, o, name, value) ==
    LET b == block(m)
    IN  [m EXCEPT !.heap[b] = [alloc |-> m.obj[o].alloc, name |-> name, value |-> trim(value)],
                  !.obj[o].set_ = InsertAt(@, set_upper_bound(m, o, name), b),
                  !.obj[o].list_ = Append(@, b)]

(* one turn of the loop in erase: element b leaves set_, list_ and the heap *)
unlink(m, o, b) ==
    LET iterator_to(s) == CHOOSE k \in DOMAIN s : s[k] = b
    IN  [m EXCEPT !.heap[b] = Free,
                  !.obj[o].set_ = RemoveAt(@, iterator_to(@)),
                  !.obj[o].list_ = RemoveAt(@, iterator_to(@))]

erase_One(m, o, name) ==
    LET gone == set_matches(m, o, name)
    IN  IF gone = <<>> THEN m ELSE unlink(m, o, gone[1])

erase(m, o, name) ==
    LET gone == set_matches(m, o, name)
        after[k \in 0 .. Len(gone)] ==
            IF k = 0 THEN m ELSE unlink(after[k - 1], o, gone[k])
    IN  after[Len(gone)]

replace(m, o, name, value) == insert(erase(m, o, name), o, name, trim(value))

(* what iterating a container shows, begin() to end()                      *)
iterate(m, o) ==
    [k \in DOMAIN m.obj[o].list_ |->
        [name |-> m.heap[m.obj[o].list_[k]].name, value |-> m.heap[m.obj[o].list_[k]].value]]

(* copy_from(fs), for the fields fs that iterating the source shows        *)
copy_from(m, o, fs) ==
    LET upto[k \in 0 .. Len(fs)] ==
        IF k = 0 THEN m
        ELSE LET before == upto[k - 1] IN insert(before, o, fs[k].name, fs[k].value)
    IN  upto[Len(fs)]

(* set_ = std::move(other.set_) and the same for list_, into empty ones    *)
take(m, o, p) ==
    [m EXCEPT !.obj[o].set_ = m.obj[p].set_, !.obj[o].list_ = m.obj[p].list_,
              !.obj[p].set_ = <<>>, !.obj[p].list_ = <<>>]

copy_assign(m, o, p) ==
    LET c == clear(m, o)
        r == IF traits.copy THEN [c EXCEPT !.obj[o].alloc = c.obj[p].alloc] ELSE c
    IN  copy_from(r, o, iterate(c, p))

move_assign_Steals(m, o, p) == take(clear(m, o), o, p)

move_assign_Keeps(m, o, p) ==
    LET c == clear(m, o)
    IN  IF o = p THEN m
        ELSE IF traits.move THEN take([c EXCEPT !.obj[o].alloc = c.obj[p].alloc], o, p)
        ELSE IF c.obj[o].alloc # c.obj[p].alloc THEN copy_from(c, o, iterate(c, p))
        ELSE take(c, o, p)

move_assign(m, o, p) ==
    LET c == clear(m, o)
    IN  IF o = p THEN m
        ELSE IF traits.move THEN take([c EXCEPT !.obj[o].alloc = c.obj[p].alloc], o, p)
        ELSE IF c.obj[o].alloc # c.obj[p].alloc THEN clear(copy_from(c, o, iterate(c, p)), p)
        ELSE take(c, o, p)

(* the lookups, which use set_                                             *)
count(m, o, name) == Len(set_matches(m, o, name))

find(m, o, name) == IF count(m, o, name) = 0 THEN 0 ELSE set_matches(m, o, name)[1]

value_of(m, o, name) ==
    IF find(m, o, name) = 0 THEN <<>> ELSE m.heap[find(m, o, name)].value

-----------------------------------------------------------------------------
(* The program's calls                                                     *)

State == [obj |-> obj, heap |-> heap]

Becomes(m) == obj' = m.obj /\ heap' = m.heap /\ UNCHANGED traits

Born(o, a) == [State EXCEPT !.obj[o] = [Dead EXCEPT !.live = TRUE, !.alloc = a]]

Construct(o) == ~obj[o].live /\ \E a \in Allocs : Becomes(Born(o, a))

Destroy(o) ==
    /\ obj[o].live
    /\ Becomes([delete_all(State, o) EXCEPT !.obj[o] = Dead])

HasRoom(o) == HasBlocks(State, 1) /\ Len(obj[o].list_) < MaxFields

Insert(o, name, value) == obj[o].live /\ HasRoom(o) /\ Becomes(insert(State, o, name, value))

Replace(o, name, value) == obj[o].live /\ HasRoom(o) /\ Becomes(replace(State, o, name, value))

Erase(o, name) == obj[o].live /\ Becomes(erase(State, o, name))

Clear(o) == obj[o].live /\ Becomes(clear(State, o))

(* select_on_container_copy_construction gives the source's allocator      *)
CopyConstruct(o, p) ==
    /\ ~obj[o].live /\ obj[p].live
    /\ HasBlocks(State, Len(obj[p].list_))
    /\ Becomes(copy_from(Born(o, obj[p].alloc), o, iterate(State, p)))

(* construction from p.begin(), p.end(), with a default allocator          *)
RangeConstruct(o, p) ==
    /\ ~obj[o].live /\ obj[p].live
    /\ HasBlocks(State, Len(obj[p].list_))
    /\ Becomes(copy_from(Born(o, Dead.alloc), o, iterate(State, p)))

MoveConstruct(o, p) ==
    /\ ~obj[o].live /\ obj[p].live
    /\ Becomes(take(Born(o, obj[p].alloc), o, p))

CopyAssign(o, p) ==
    /\ obj[o].live /\ obj[p].live
    /\ HasBlocks(clear(State, o), Len(obj[p].list_))
    /\ Becomes(copy_assign(State, o, p))

MoveAssign(o, p) ==
    /\ obj[o].live /\ obj[p].live
    /\ HasBlocks(clear(State, o), Len(obj[p].list_))
    /\ Becomes(move_assign(State, o, p))

FieldsNext ==
    \E o \in Objects :
        \/ Construct(o) \/ Destroy(o) \/ Clear(o)
        \/ \E n \in Names : Erase(o, n) \/ \E v \in Values(n) : Insert(o, n, v) \/ Replace(o, n, v)
        \/ \E p \in Objects : \/ CopyConstruct(o, p) \/ RangeConstruct(o, p) \/ MoveConstruct(o, p)
                             \/ CopyAssign(o, p) \/ MoveAssign(o, p)

-----------------------------------------------------------------------------
FieldsTypeOK ==
    /\ obj \in [Objects -> [live : BOOLEAN, alloc : Allocs, set_ : Seq(Blocks), list_ : Seq(Blocks)]]
    /\ \A b \in Blocks : heap[b] = Free \/ heap[b].alloc \in Allocs

(* Every element that was allocated is on the list of exactly one          *)
(* container, once, and was given out by an allocator equal to the one     *)
(* that will take it back: no assignment or construction loses an element  *)
(* or leaves it to two destructors (delete_all, fields.ipp:21).            *)
OneOwner ==
    /\ \A b \in Allocated :
          \E o \in Objects :
             /\ obj[o].alloc = heap[b].alloc
             /\ \E k \in DOMAIN obj[o].list_ :
                   /\ obj[o].list_[k] = b
                   /\ \A p \in Objects : \A l \in DOMAIN obj[p].list_ :
                         obj[p].list_[l] = b => p = o /\ l = k
    /\ \A o \in Objects : ToSet(obj[o].list_) \subseteq Allocated

(* The two structures of a container hold the same elements, set_ ordered  *)
(* by name without case and equal names in the order of insertion: what    *)
(* find, count, operator[] and erase get from set_ is what iteration shows *)
(* (fields.ipp:248; fields.hpp says the first field defined by insertion   *)
(* order is returned).                                                     *)
SetMatchesList ==
    \A o \in Objects :
        LET s == obj[o].set_
            l == obj[o].list_
        IN  /\ Len(s) = Len(l) /\ ToSet(s) = ToSet(l)
            /\ \A j, k \in DOMAIN s : j < k =>
                  \/ ci_less(heap[s[j]].name, heap[s[k]].name)
                  \/ /\ tolower(heap[s[j]].name) = tolower(heap[s[k]].name)
                     /\ \E x, y \in DOMAIN l : x < y /\ l[x] = s[j] /\ l[y] = s[k]

(* A lookup of any spelling of a name finds all the fields with that name  *)
(* and the one inserted first in front (count, find, operator[]).          *)
LookupsAgree ==
    \A o \in Objects, n \in Names :
        LET fields == iterate(State, o)
            hits == {k \in DOMAIN fields : tolower(fields[k].name) = tolower(n)}
        IN  /\ count(State, o, n) = Cardinality(hits)
            /\ hits = {} => value_of(State, o, n) = <<>>
            /\ \A k \in hits : (\A j \in hits : k <= j) => value_of(State, o, n) = fields[k].value
=============================================================================
