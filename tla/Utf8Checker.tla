---------------------------- MODULE Utf8Checker ----------------------------
(***************************************************************************)
(* detail/utf8_checker.hpp: the incremental check of text.  A checker is   *)
(* the octets kept of a code point that is not complete (have) and how     *)
(* many are missing (need).                                                *)
(***************************************************************************)
EXTENDS Integers, Sequences

utf8_checker == [need |-> 0, have |-> <<>>]

Continues(c) == c \in 128 .. 191

\* The length of the code point at i, 0 if it is not valid.
valid(s, i) ==
  LET c == s[i]
      next == s[i + 1]
  IN IF c < 128 THEN 1
     ELSE IF c \in 192 .. 223 THEN IF Continues(next) THEN 2 ELSE 0
     ELSE IF c \in 224 .. 239
     THEN IF /\ Continues(next) /\ Continues(s[i + 2])
             /\ ~(c = 224 /\ next < 160) /\ ~(c = 237 /\ next > 159) THEN 3 ELSE 0
     ELSE IF /\ c \in 240 .. 244 /\ Continues(next) /\ Continues(s[i + 2]) /\ Continues(s[i + 3])
             /\ ~(c = 240 /\ next < 144) /\ ~(c = 244 /\ next > 143) THEN 4 ELSE 0

\* What is there of a code point cut at the end of the input may still become valid.
valid_have(have) ==
  LET c == have[1]
  IN /\ Len(have) > 1 /\ c \in 224 .. 239 =>
          Continues(have[2]) /\ ~(c = 224 /\ have[2] < 160) /\ ~(c = 237 /\ have[2] > 159)
     /\ Len(have) > 1 /\ c \in 240 .. 247 =>
          Continues(have[2]) /\ ~(c = 240 /\ have[2] < 144) /\ ~(c = 244 /\ have[2] > 143)
     /\ Len(have) > 2 /\ c \in 240 .. 247 => Continues(have[3])

\* Bug: the lead octets of the overlong forms are taken.
needed_C0(c) ==
  IF c < 128 THEN 1 ELSE IF c < 192 THEN 0 ELSE IF c < 224 THEN 2
  ELSE IF c < 240 THEN 3 ELSE IF c < 245 THEN 4 ELSE 0

\* The length of the code point that a lead octet announces, 0 if it leads none.
needed(c) ==
  IF c < 128 THEN 1 ELSE IF c < 194 THEN 0 ELSE IF c < 224 THEN 2
  ELSE IF c < 240 THEN 3 ELSE IF c < 245 THEN 4 ELSE 0

Bad == [ok |-> FALSE, need |-> 0, have |-> <<>>]

\* The loops over the input from octet i on: 8 octets of ASCII at a time while more
\* than 7 octets are left, then code points while more than 3 are, then the rest.
loops(s, from) ==
  LET n == Len(s)
      at[i \in from .. n + 1] ==
        IF i = n + 1 THEN [ok |-> TRUE, need |-> 0, have |-> <<>>]
        ELSE IF i <= n - 7 /\ \A j \in i .. i + 7 : s[j] < 128 THEN at[i + 8]
        ELSE IF i <= n - 3 \/ needed(s[i]) \in 1 .. n + 1 - i
        THEN IF valid(s, i) = 0 THEN Bad ELSE at[i + valid(s, i)]
        ELSE IF needed(s[i]) = 0 THEN Bad
        ELSE LET have == SubSeq(s, i, n)
             IN [ok |-> valid_have(have), need |-> needed(s[i]) - Len(have), have |-> have]
  IN at[from]

\* The checker after the octets s, and whether they may be text.
utf8_write(chk, s) ==
  LET n == IF Len(s) < chk.need THEN Len(s) ELSE chk.need
      have == chk.have \o SubSeq(s, 1, n)
  IN IF chk.need = 0 THEN loops(s, 1)
     ELSE IF n < chk.need THEN [ok |-> valid_have(have), need |-> chk.need - n, have |-> have]
     ELSE IF valid(have, 1) = 0 THEN Bad
     ELSE loops(s, n + 1)

\* finish resets the checker whatever it says.
utf8_finish(chk) == chk.need = 0

check_utf8(s) == LET c == utf8_write(utf8_checker, s) IN c.ok /\ utf8_finish(c)

-----------------------------------------------------------------------------
(* RFC 3629: the sequences of one code point *)

CodePoint(s) ==
  \/ Len(s) = 1 /\ s[1] < 128
  \/ Len(s) = 2 /\ s[1] \in 194 .. 223 /\ Continues(s[2])
  \/ /\ Len(s) = 3 /\ Continues(s[2]) /\ Continues(s[3])
     /\ LET c == (s[1] - 224) * 4096 + (s[2] - 128) * 64 + (s[3] - 128)
        IN s[1] \in 224 .. 239 /\ c >= 2048 /\ c \notin 55296 .. 57343
  \/ /\ Len(s) = 4 /\ \A i \in 2 .. 4 : Continues(s[i])
     /\ s[1] \in 240 .. 247
     /\ (s[1] - 240) * 64 + (s[2] - 128) \in 16 .. 271

\* Text is a sequence of code points.
IsText(s) ==
  LET from[i \in 1 .. Len(s) + 1] ==
        i = Len(s) + 1 \/ \E n \in 1 .. 4 : i + n - 1 <= Len(s) /\ CodePoint(SubSeq(s, i, i + n - 1)) /\ from[i + n]
  IN from[1]
=============================================================================
