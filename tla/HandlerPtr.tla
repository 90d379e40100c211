----------------------------- MODULE HandlerPtr -----------------------------
(***************************************************************************)
(* handler_ptr: the state t of a composed operation, allocated with the    *)
(* final handler's hooks, and the number n of the copies that share it.    *)
(* A pointer that was moved from is not counted.                           *)
(***************************************************************************)
EXTENDS Naturals

\* No operation
null == [n |-> 0, t |-> FALSE]

\* handler_ptr(handler, args...)
P == [n |-> 1, t |-> TRUE]

copy_ptr(p) == [p EXCEPT !.n = @ + 1]

\* ~handler_ptr: the last one frees what is left.
drop_ptr(p) == IF p.n > 1 THEN [p EXCEPT !.n = @ - 1] ELSE null

\* Bug: the state is freed by the destructor.
invoke_Late(p) == p

\* What invoke does before the handler is called.
invoke(p) == [p EXCEPT !.t = FALSE]
=============================================================================
