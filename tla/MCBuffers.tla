------------------------------ MODULE MCBuffers ------------------------------
(* Sequences for an adapter: one buffer, several, and empty ones.           *)
EXTENDS Buffers

AdapterShapes == {<<3>>, <<1, 2>>, <<2, 1, 1>>, <<0, 2, 0, 1>>, <<1, 1, 0>>, <<>>}
=============================================================================
