------------------------------- MODULE Buffers -------------------------------
(***************************************************************************)
(* The dynamic buffers of the library.  A program uses one of them, of the *)
(* kind it picks.                                                          *)
(***************************************************************************)
EXTENDS Naturals, Sequences

CONSTANTS
  Kinds,         \* a subset of {"flat", "static", "multi", "adapter"}
  Octets,        \* what the caller writes
  Uninit,        \* an octet nobody has written
  Limit,         \* max_ of the flat and N of the static buffer
  min_size,      \* the smallest block of a flat buffer
  MaxSize,       \* bound on the octets in a multi buffer
  AllocSizes,    \* the sizes of a multi buffer's blocks
  Low,           \* the smallest block a read asks a multi buffer for
  Shapes         \* the sizes of the buffers an adapter wraps

\* Calls within, at and beyond the limit.
Sizes == 0 .. Limit + 1

VARIABLES
  kind,
  f_block, f_in, f_out, f_last, f_end,
  s_block, s_in, s_out, s_last, s_threw,
  m_list, m_out, m_alloc_size, m_in_size, m_in_pos, m_out_pos, m_out_end,
  a_bs, a_begin, a_out, a_end, a_max_size, a_in_pos, a_in_size, a_out_pos, a_out_end, a_threw

Flat == INSTANCE FlatBuffer
  WITH max_ <- Limit, block <- f_block, in_ <- f_in, out_ <- f_out,
       last_ <- f_last, end_ <- f_end
Static == INSTANCE StaticBuffer
  WITH N <- Limit, block <- s_block, in_ <- s_in, out_ <- s_out,
       last_ <- s_last, threw <- s_threw
Multi == INSTANCE MultiBuffer
  WITH list_ <- m_list, out_ <- m_out,
       alloc_size_ <- m_alloc_size, in_size_ <- m_in_size,
       in_pos_ <- m_in_pos, out_pos_ <- m_out_pos, out_end_ <- m_out_end
Adapter == INSTANCE BuffersAdapter
  WITH bs_ <- a_bs, begin_ <- a_begin, out_ <- a_out, end_ <- a_end, max_size_ <- a_max_size,
       in_pos_ <- a_in_pos, in_size_ <- a_in_size, out_pos_ <- a_out_pos, out_end_ <- a_out_end, threw <- a_threw

flatVars == <<f_block, f_in, f_out, f_last, f_end>>
staticVars == <<s_block, s_in, s_out, s_last, s_threw>>
multiVars == <<m_list, m_out, m_alloc_size, m_in_size, m_in_pos, m_out_pos, m_out_end>>
adapterVars == <<a_bs, a_begin, a_out, a_end, a_max_size, a_in_pos, a_in_size, a_out_pos, a_out_end, a_threw>>
vars == <<kind, flatVars, staticVars, multiVars, adapterVars>>

ASSUME BuffersAssumption ==
  /\ Kinds \subseteq {"flat", "static", "multi", "adapter"}
  /\ Flat!FlatConstants
  /\ Static!StaticConstants
  /\ AllocSizes \subseteq Nat \ {0}

Init ==
  /\ kind \in Kinds
  /\ Flat!Init
  /\ Static!Init
  /\ Multi!Init
  /\ kind # "multi" => \A a \in AllocSizes : m_alloc_size <= a
  /\ Adapter!Init
  /\ kind # "adapter" => a_max_size = Adapter!Total   \* not used: one of its states will do

Next ==
  /\ UNCHANGED kind
  /\ \/ kind = "flat" /\ Flat!Next /\ UNCHANGED <<staticVars, multiVars, adapterVars>>
     \/ kind = "static" /\ Static!Next /\ UNCHANGED <<flatVars, multiVars, adapterVars>>
     \/ kind = "multi" /\ Multi!Next /\ UNCHANGED <<flatVars, staticVars, adapterVars>>
     \/ kind = "adapter" /\ Adapter!Next /\ UNCHANGED <<flatVars, staticVars, multiVars>>

Spec == Init /\ [][Next]_vars

-----------------------------------------------------------------------------
(* Properties *)

\* Type invariant of the members of the buffers.
TypeOK ==
  /\ kind = "flat" => Flat!TypeOK
  /\ kind = "static" => Static!TypeOK
  /\ kind = "multi" => Multi!TypeOK
  /\ kind = "adapter" => Adapter!TypeOK

\* In every layout the pointers and positions of the buffer are in order and inside its
\* storage, and what debug_check() of a multi buffer asserts holds.
PointersInOrder ==
  /\ TypeOK
  /\ kind = "flat" => Flat!PointersInOrder
  /\ kind = "static" => Static!PointersInOrder
  /\ kind = "multi" => Multi!debug_check

\* Every call on every buffer, over any history of moves, reallocations, partial
\* commits and throws, and however the sequences lie in blocks, empty buffers among
\* them, does to the input and output sequences what DynamicBuffer says; and what
\* capacity() of a multi buffer returns can be prepared without allocation.
CallsConform ==
  [][/\ kind = "flat" => Flat!CallConforms
     /\ kind = "static" => Static!CallConforms
     /\ kind = "multi" => Multi!CallConforms /\ Multi!CapacityIsThere
     /\ kind = "adapter" => Adapter!CallConforms]_vars

\* What read_size_helper() returns is positive and fits the buffer.
ReadSizeFits ==
  /\ kind = "flat" => Flat!ReadSizeFits
  /\ kind = "multi" => Multi!ReadSizeFits
=============================================================================
