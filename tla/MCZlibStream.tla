---------------------------- MODULE MCZlibStream ----------------------------
(* A format with 16 literals, matches of 3 to 6 octets and windows of 16.   *)
EXTENDS ZlibStream

SmallLengthExtra == <<0, 0, 1, 0>>
SmallDistExtra == <<0, 0, 1, 1>>
SmallStatic == [n \in 1 .. 12 |-> 5] \o <<6, 6, 6, 6>> \o <<3>> \o <<3, 4, 4, 4>> \o <<4, 4>>

Abc == <<1, 2, 15>>
Repeat(s, n) == [i \in 1 .. n |-> s[((i - 1) % Len(s)) + 1]]

S(data, level, strategy, lit) ==
  [data |-> data, level |-> level, strategy |-> strategy, w_bits |-> 4, lit |-> lit, memory |-> 2,
   gives |-> {1, 100}, rooms |-> {1, 4, 100}, flushes |-> {"none", "sync"}, final |-> "sync",
   params |-> {}, feeds |-> {1, 9}, spaces |-> {1, 100}, rounds |-> 1]

\* Data with matches, with runs, with frequencies that make a deep tree, and with none of these.
Matches == Repeat(<<1, 2, 15, 1, 2, 2>>, 30)
Runs == Repeat(<<1>>, 9) \o Repeat(<<2>>, 5) \o <<3>> \o Repeat(<<2>>, 11)
Skewed == Repeat(<<15>>, 13) \o Repeat(<<14>>, 8) \o Repeat(<<13>>, 5) \o Repeat(<<12>>, 3) \o <<11, 11, 0>>
Varied == [i \in 1 .. 28 |-> (i * i + i \div 5) % 16]

\* How a session is cut into calls: at once, in small pieces of input, with little
\* room, with flushes in between; and the other end in small pieces or large ones.
Once(s) == [s EXCEPT !.gives = {100}, !.rooms = {100}, !.flushes = {"none"}]
Fine(s) == [s EXCEPT !.gives = {5, 12}, !.rooms = {100}, !.flushes = {"none"}, !.spaces = {3, 100}]
Tight(s) == [s EXCEPT !.gives = {100}, !.rooms = {1, 5}, !.flushes = {"none"}, !.final = "finish",
                      !.feeds = {1, 100}, !.spaces = {4}, !.rounds = 2]
Flushes(s, f) == [s EXCEPT !.gives = {9, 14}, !.rooms = {100}, !.flushes = {"none", f}, !.final = "finish",
                           !.feeds = {100}, !.spaces = {100}]
FlushesTight(s, f) == [Flushes(s, f) EXCEPT !.gives = {14}, !.rooms = {7}, !.rounds = 2]
Changes(s, levels) == [Fine(s) EXCEPT !.gives = {12}, !.params = levels, !.feeds = {9}, !.spaces = {100}]

SmallSessions ==
  {Fine(S(Matches, level, "normal", 32)) : level \in {0, 1, 6}}
  \cup {Fine(S(Runs, 6, strategy, 32)) : strategy \in {"filtered", "rle", "fixed"}}
  \cup {Once(S(data, 6, "huffman", 64)) : data \in {Skewed, Varied}}
  \cup {Tight(S(data, 1, "normal", 8)) : data \in {Matches, Varied}}
  \cup {Tight(S(Runs, level, "normal", 8)) : level \in {0, 6}}
  \cup {Flushes(S(Matches, 1, "normal", 32), f) : f \in {"full", "partial"}}
  \cup {Flushes(S(Matches, 6, "normal", 32), f) : f \in {"sync", "block"}}
  \cup {FlushesTight(S(Matches, 6, "normal", 32), f) : f \in {"sync", "full", "partial"}}
  \cup {Changes(S(Matches, 6, "normal", 32), {<<0, "normal">>, <<1, "fixed">>})}
=============================================================================
