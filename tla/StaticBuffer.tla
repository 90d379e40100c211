---------------------------- MODULE StaticBuffer ----------------------------
(***************************************************************************)
(* static_buffer_n<N>: a dynamic buffer in an array of N octets.  Pointers *)
(* are offsets from begin_, and end_ is N.  Room in front of in_ is not    *)
(* used again until reset().                                               *)
(***************************************************************************)
EXTENDS Naturals, Sequences

CONSTANTS
  Octets,     \* what the caller writes
  Uninit,     \* an octet nobody has written
  N,          \* the size of the array
  Sizes       \* the arguments of the calls

\* What is assumed of the constants.
StaticConstants ==
  /\ Uninit \notin Octets
  /\ N \in Nat
  /\ Sizes \subseteq Nat

VARIABLES
  block, in_, out_, last_,
  threw       \* the last call was a prepare that threw length_error

vars == <<block, in_, out_, last_, threw>>

Index == 0 .. N - 1

size == out_ - in_
capacity == N - in_
Area(a, b) == [i \in 1 .. b - a |-> block[a + i - 1]]
data == Area(in_, out_)
prepared == Area(out_, last_)
Least(m, n) == IF m <= n THEN m ELSE n

Init ==
  /\ block = [i \in Index |-> Uninit]
  /\ in_ = 0 /\ out_ = 0 /\ last_ = 0
  /\ threw = FALSE

prepare(n) ==
  /\ \/ /\ n <= N - out_
        /\ last_' = out_ + n
        /\ threw' = FALSE
     \/ /\ n > N - out_
        /\ last_' = last_
        /\ threw' = TRUE
  /\ UNCHANGED <<block, in_, out_>>

\* The caller writes to the buffers prepare returned.
Write ==
  /\ \E f \in [Index -> Octets] :
       block' = [i \in Index |-> IF out_ <= i /\ i < last_ THEN f[i] ELSE block[i]]
  /\ threw' = FALSE
  /\ UNCHANGED <<in_, out_, last_>>

commit(n) ==
  /\ out_' = out_ + Least(n, last_ - out_)
  /\ threw' = FALSE
  /\ UNCHANGED <<block, in_, last_>>

consume(n) ==
  /\ in_' = in_ + Least(n, out_ - in_)
  /\ threw' = FALSE
  /\ UNCHANGED <<block, out_, last_>>

reset ==
  /\ in_' = 0 /\ out_' = 0 /\ last_' = 0
  /\ threw' = FALSE
  /\ UNCHANGED block

Next ==
  \/ \E n \in Sizes : prepare(n) \/ commit(n) \/ consume(n)
  \/ Write
  \/ reset

Spec == Init /\ [][Next]_vars

-----------------------------------------------------------------------------
(* Properties *)

\* Type invariant of the members of the buffer.
TypeOK ==
  /\ block \in [Index -> Octets \cup {Uninit}]
  /\ in_ \in Nat /\ out_ \in Nat /\ last_ \in Nat
  /\ threw \in BOOLEAN

\* The pointers stay in order and inside the array.
PointersInOrder == in_ <= out_ /\ out_ <= last_ /\ last_ <= N

DB == INSTANCE DynamicBuffer
        WITH input <- data, output <- prepared, max_size <- N,
             Octets <- Octets \cup {Uninit}

\* prepare() throws if and only if size() + n exceeds max_size() less the octets
\* consumed: what DynamicBuffer says as long as nothing has been consumed, and earlier
\* than it says afterwards, as room in front of in_ is not used again.
ThrowsEarly(n) == DB!Exceeds(in_ + n)

\* Every call does to the input and output sequences what DynamicBuffer says, but for
\* ThrowsEarly and what a commit leaves of the output sequence; and a prepare that throws
\* does nothing.
CallConforms ==
  /\ \A n \in Sizes :
       /\ prepare(n) => /\ threw' <=> ThrowsEarly(n)
                        /\ ~threw' => DB!Prepare(n)
                        /\ threw' => data' = data /\ prepared' = prepared
       /\ commit(n) => DB!CommitOrKeep(n)
       /\ consume(n) => DB!Consume(n) /\ prepared' = prepared
  /\ Write => DB!Write
  /\ reset => DB!Clear
=============================================================================
