------------------------- MODULE BufferedReadStream -------------------------
(***************************************************************************)
(* buffered_read_stream, and a program that reads octets with it into a    *)
(* sequence of buffers and writes frames through it: a consuming_buffers   *)
(* holds what is left of the destination and of the payload, a read is for *)
(* a buffer_prefix of it, and a frame is a buffer_cat of a header and a    *)
(* prefix.  The peer answers with the octets 1 .. Length and ends.          *)
(***************************************************************************)
EXTENDS BufferViews, HandlerPtr, FiniteSetsExt

CONSTANTS
  Shapes,       \* the sizes of the buffers of a destination and of a payload
  Length,       \* how many octets the peer sends
  Capacities,   \* what is given to capacity()
  Limits,       \* the sizes of the reads and of the frames
  Copies        \* bound on the copies of a handler asio makes

ASSUME SizesAreNumbers ==
  /\ \A s \in Shapes : s \in Seq(Nat)
  /\ Length \in Nat /\ Copies \in Nat
  /\ \A n \in Capacities \cup Limits : n \in Nat

VARIABLES
  sb_, capacity_,
  op,          \* the read: [state, bs, room], "none" in state when there is none
  ptr, old,    \* its handler_ptr, and that of the read before, whose handler runs
  ret,         \* what the last read returned: [ec, empty], no octet though there was room
  dest, memory, got,
  taken, sent, ended,    \* octets taken from the next layer, and what the peer has sent
  payload, out           \* what is left to write, and the octets written

vars == <<sb_, capacity_, op, ptr, old, ret, dest, memory, got, taken, sent, ended, payload, out>>
readVars == <<sb_, op, ptr, old, ret, dest, memory, got, taken>>

\* Buffers of these sizes at the addresses 1, 2, ...
Blocks(shape) ==
  LET from[i \in 1 .. Len(shape)] == IF i = 1 THEN 0 ELSE from[i - 1] + shape[i - 1]
  IN [i \in 1 .. Len(shape) |-> [j \in 1 .. shape[i] |-> from[i] + j]]
buffer_size(bs) == Len(FlattenSeq(bs))
Room == Max({buffer_size(Blocks(s)) : s \in Shapes})
Octets(a, b) == [i \in 1 .. b - a |-> a + i]     \* the octets a + 1 .. b of the peer

NoRead == [state |-> "none", bs |-> <<>>, room |-> 0]

Init ==
  /\ sb_ = <<>> /\ capacity_ = 0 /\ op = NoRead /\ ptr = null /\ old = null
  /\ ret = [ec |-> "", empty |-> FALSE]
  /\ \E s \in Shapes : dest = consuming_buffers(Blocks(s)) /\ payload = consuming_buffers(Blocks(s))
  /\ memory = [a \in 1 .. Room |-> 0] /\ got = 0
  /\ taken = 0 /\ sent = 0 /\ ended = FALSE /\ out = <<>>

\* boost::asio::buffer_copy to the buffers bs: how much, and the memory afterwards
buffer_copy(bs, octets) ==
  LET flat == FlattenSeq(bs)
      n == Min({Len(flat), Len(octets)})
  IN [n |-> n, memory |-> [a \in DOMAIN memory |->
        IF \E i \in 1 .. n : flat[i] = a THEN octets[CHOOSE i \in 1 .. n : flat[i] = a] ELSE memory[a]]]

\* The program writes first and reads what the peer answers.
Written == buffer_size(consuming_view(payload)) = 0

\* What read_some of the next layer may do with room for m octets
Reads(m) == {n \in 0 .. Min({m, sent - taken}) : n > 0 \/ m = 0}
Eof == ended /\ sent = taken

\* The caller's part, when a read has returned.
Returns(ec, n, asked) ==
  /\ ret' = [ec |-> ec, empty |-> n = 0 /\ asked > 0]
  /\ dest' = consume(dest, n) /\ got' = got + n

\* Bug: what is left in the buffer is forgotten.
Copy_Clears(buffered, bs) ==
  LET c == buffer_copy(bs, buffered)
  IN sb_' = <<>> /\ memory' = c.memory /\ Returns("", c.n, buffer_size(bs))

\* The octets buffered go to the caller.
Copy(buffered, bs) ==
  LET c == buffer_copy(bs, buffered)
  IN /\ sb_' = SubSeq(buffered, c.n + 1, Len(buffered)) /\ memory' = c.memory
     /\ Returns("", c.n, buffer_size(bs))

Direct(bs, n) ==
  /\ memory' = buffer_copy(bs, Octets(taken, taken + n)).memory
  /\ taken' = taken + n /\ UNCHANGED sb_ /\ Returns("", n, buffer_size(bs))
Fails(bs) == Returns("eof", 0, buffer_size(bs)) /\ UNCHANGED <<sb_, memory, taken>>

SetCapacity(size) ==
  /\ Written /\ size # capacity_ /\ capacity_' = size
  /\ UNCHANGED <<readVars, sent, ended, payload, out>>

Others == UNCHANGED <<capacity_, sent, ended, payload, out>>

\* read_some blocks until the next layer has something.
ReadSome(limit) ==
  LET bs == buffer_prefix(limit, consuming_view(dest))
  IN /\ Written /\ op.state = "none" /\ old = null /\ ret.ec = ""
     /\ \/ sb_ # <<>> /\ Copy(sb_, bs) /\ UNCHANGED taken
        \/ sb_ = <<>> /\ capacity_ = 0 /\ \E n \in Reads(buffer_size(bs)) : Direct(bs, n)
        \/ /\ sb_ = <<>> /\ capacity_ > 0
           /\ \E n \in Reads(capacity_) :
                taken' = taken + n /\ Copy(Octets(taken, taken + n), bs)
        \/ sb_ = <<>> /\ Eof /\ (capacity_ > 0 \/ buffer_size(bs) > 0) /\ Fails(bs)
     /\ UNCHANGED <<op, ptr, old>> /\ Others

\* State 0 of read_some_op
Start(bs) ==
  IF sb_ # <<>> THEN [state |-> "posted", bs |-> bs, room |-> 0]
  ELSE IF capacity_ > 0 THEN [state |-> "buffered", bs |-> bs, room |-> capacity_]
  ELSE [state |-> "direct", bs |-> bs, room |-> 0]

\* async_read_some, called by the program or by the handler of the read before
AsyncReadSome(limit) ==
  /\ Written /\ op.state = "none" /\ ret.ec = ""
  /\ op' = Start(buffer_prefix(limit, consuming_view(dest))) /\ ptr' = P
  /\ UNCHANGED <<sb_, old, ret, dest, memory, got, taken>> /\ Others

\* The handler is called: the read is over, its pointer goes when the handler returns.
Upcall == op' = NoRead /\ old' = invoke(ptr) /\ ptr' = null

ReadPosted ==
  /\ op.state = "posted" /\ old = null
  /\ Copy(sb_, op.bs) /\ Upcall /\ UNCHANGED taken /\ Others

ReadBuffered ==
  /\ op.state = "buffered" /\ old = null
  /\ \E n \in Reads(op.room) :
       taken' = taken + n /\ Copy(sb_ \o Octets(taken, taken + n), op.bs)
  /\ Upcall /\ Others

ReadDirect ==
  /\ op.state = "direct" /\ old = null
  /\ \E n \in Reads(buffer_size(op.bs)) : Direct(op.bs, n)
  /\ Upcall /\ Others

\* Bug: a buffered read that fails is tried again.
ReadEof_Retries ==
  /\ op.state = "direct" /\ buffer_size(op.bs) > 0 /\ old = null /\ Eof
  /\ Fails(op.bs) /\ Upcall /\ Others

ReadEof ==
  /\ (op.state = "buffered" \/ (op.state = "direct" /\ buffer_size(op.bs) > 0)) /\ old = null /\ Eof
  /\ Fails(op.bs) /\ Upcall /\ Others

\* The handler returns, and the operation that called it is destroyed.
HandlerReturns ==
  /\ old # null /\ old' = drop_ptr(old)
  /\ UNCHANGED <<sb_, op, ptr, ret, dest, memory, got, taken>> /\ Others

\* asio copies the operation and destroys a copy.
CopyHandler ==
  /\ op.state # "none" /\ ptr.n <= Copies /\ ptr' = copy_ptr(ptr)
  /\ UNCHANGED <<sb_, op, old, ret, dest, memory, got, taken>> /\ Others
DropHandler ==
  /\ op.state # "none" /\ ptr.n > 1 /\ ptr' = drop_ptr(ptr)
  /\ UNCHANGED <<sb_, op, old, ret, dest, memory, got, taken>> /\ Others

\* The peer
Send ==
  /\ Written /\ ~ended /\ sent < Length /\ \E n \in 1 .. Length - sent : sent' = sent + n
  /\ UNCHANGED <<readVars, capacity_, ended, payload, out>>
End ==
  /\ Written /\ ~ended /\ ended' = TRUE
  /\ UNCHANGED <<readVars, capacity_, sent, payload, out>>

\* A frame of at most limit octets goes to write_some of the next layer; 1000 + n is the header of n octets.
Frame(limit, c) == <<<< <<1000 + Min({limit, buffer_size(consuming_view(c))})>> >>, buffer_prefix(limit, consuming_view(c))>>
WriteFrame(limit) ==
  /\ ~Written /\ limit > 0
  /\ out' = out \o FlattenSeq(buffer_cat(Frame(limit, payload)))
  /\ payload' = consume(payload, Min({limit, buffer_size(consuming_view(payload))}))
  /\ UNCHANGED <<readVars, capacity_, sent, ended>>

Handlers == ReadPosted \/ ReadBuffered \/ ReadDirect \/ ReadEof \/ HandlerReturns
Next ==
  \/ \E n \in Limits : ReadSome(n) \/ AsyncReadSome(n) \/ WriteFrame(n)
  \/ \E c \in Capacities : SetCapacity(c)
  \/ Handlers \/ CopyHandler \/ DropHandler \/ Send \/ End

\* The io_service runs the handlers that are ready, and a peer that is silent ends.
Spec == Init /\ [][Next]_vars /\ WF_vars(Handlers) /\ WF_vars(End)

-----------------------------------------------------------------------------
(* Properties *)

\* Type invariant.
TypeOK ==
  /\ capacity_ \in Capacities \cup {0} /\ taken \in 0 .. sent /\ sent \in 0 .. Length /\ got \in 0 .. taken
  /\ op.state \in {"none", "posted", "buffered", "direct"}
  /\ ptr.n \in 0 .. Copies + 1 /\ old.n \in 0 .. Copies + 1
  /\ ptr.n > 0 <=> op.state # "none"

\* The octets the caller has are the first the peer sent, in order and each once, and
\* those that were taken and not delivered wait in the buffer, whatever the sizes of
\* reads, capacities and buffers and whichever of the reads were asynchronous.
ReadsInOrder ==
  /\ \A i \in 1 .. Room : memory[i] = IF i <= got THEN i ELSE 0
  /\ sb_ = Octets(got, taken)

\* The end of the stream is reported when all octets have been delivered, and a read
\* that succeeds delivers some if there was room for them.
EofLast ==
  /\ ret.ec = "eof" => got = sent /\ sb_ = <<>>
  /\ ret.ec = "" => ~ret.empty

\* A reader sees the stream as if nothing was buffered: all octets, then its end.
ReadsFaithful == TypeOK /\ ReadsInOrder /\ EofLast

\* The memory the handler's hooks gave is back before the handler is called: a handler
\* with memory for one operation can start the next.
OneAllocation == ~(ptr.t /\ old.t) /\ (op.state # "none" => ptr.t)

\* The frames written are the payload in order, each with a header that tells its size.
FramesWhole ==
  LET heads == SelectSeq(out, LAMBDA o : o >= 1000)
  IN /\ SelectSeq(out, LAMBDA o : o < 1000) = Octets(0, buffer_size(payload.bs) - buffer_size(consuming_view(payload)))
     /\ \A i \in 1 .. Len(out) : out[i] >= 1000 =>
          /\ i + out[i] - 1000 <= Len(out)
          /\ \A j \in i + 1 .. i + out[i] - 1000 : out[j] < 1000
     /\ Len(out) = Len(heads) + FoldSeq(LAMBDA h, s : h - 1000 + s, 0, heads)

\* Through buffer_cat an algorithm finds every buffer once, in order, and comes from the
\* begin to the end and back, whichever of the sequences are empty.
CatWalks ==
  \A n \in Limits :
    LET view == consuming_view(dest)
        prefix == buffer_prefix(n, view)
    IN \A bn \in {<<prefix, <<>>, view, <<>>>>, <<<<>>, prefix, view>>, <<<<>>, <<>>, view, prefix>>} :
         LET all == FlattenSeq(bn)
         IN /\ buffer_cat(bn) = all
            /\ Forward(bn)[Len(all)] = cat_end(bn)
            /\ Backward(bn)[Len(all)] = cat_begin(bn)
            /\ \A k \in 1 .. Len(all) : dereference(bn, Backward(bn)[k]) = all[Len(all) + 1 - k]

\* Seen through consuming_buffers, buffer_prefix and buffer_cat every buffer is whole.
ViewsAreWhole == FramesWhole /\ CatWalks

\* Every read that is started has its handler called.
ReadEnds == op.state # "none" ~> op.state = "none"
=============================================================================
