------------------------------ MODULE WsStream ------------------------------
(***************************************************************************)
(* The composed asynchronous operations of beast::websocket::stream:       *)
(* read_frame_op, write_frame_op, ping_op and close_op, which share one    *)
(* next layer stream.  Only one of them may write to it at a time: the one *)
(* wr_block_ points to.  An operation that finds wr_block_ taken suspends  *)
(* itself in a pausation (rd_op_, wr_op_ or ping_op_) and is resumed by    *)
(* the upcall of another operation.                                        *)
(*                                                                         *)
(* The application runs everything in one strand, so every action is one   *)
(* whole handler: an initiating function, the completion of an I/O         *)
(* operation or the run of a posted handler, with the upcall and the       *)
(* pausation it invokes.  What the application does in its completion      *)
(* handler is a later action.                                              *)
(*                                                                         *)
(* BOOST_ASSERT is modelled as in a build with NDEBUG: ok turns FALSE and  *)
(* the handler goes on.                                                    *)
(***************************************************************************)
EXTENDS Naturals

CONSTANTS
  Together,   \* sets of operations the application has active at once
  Frames,     \* what the peer sends: a subset of FrameKinds
  Role,       \* "client" or "server"
  Pmd,        \* whether permessage-deflate is engaged (pmd_)
  MaxWrites,  \* bound on the next layer writes of one write operation
  IoErrors    \* whether the next layer may fail while it is open

Ops == {"read", "write", "ping", "close"}
Slots == {"rd_op_", "wr_op_", "ping_op_"}
NoOp == "none"

\* "data" has a payload, "empty" is a data frame of length 0 and "bad" stands
\* for everything the read operation answers with do_fail.
FrameKinds == {"data", "empty", "ping", "pong", "close", "bad"}

ASSUME ConstantsAssumption ==
  /\ Together \subseteq SUBSET Ops
  /\ Frames \subseteq FrameKinds
  /\ Role \in {"client", "server"}
  /\ Pmd \in BOOLEAN
  /\ MaxWrites \in Nat \ {0}
  /\ IoErrors \in BOOLEAN

VARIABLES
  failed_,    \* stream_base::failed_
  wr_close_,  \* stream_base::wr_close_
  wr_block_,  \* stream_base::wr_block_, an operation or NoOp
  wr_cont,    \* stream_base::wr_.cont
  parked,     \* the operation each pausation holds, or NoOp
  st,         \* the state each operation waits in, "idle" when not active
  fh,         \* the opcode of the frame header the read operation decoded
  w,          \* the write operation: entry_state, fh.op, fin, remain
  torn,       \* the teardown has shut down the sending side of the next layer
  wire,       \* the frames sent, as the peer's RFC 6455 automaton sees them
  ok          \* no BOOST_ASSERT has failed

streamVars == <<failed_, wr_close_, wr_block_, wr_cont>>
vars == <<streamVars, parked, st, fh, w, torn, wire, ok>>

\* States in which an operation waits for its write on the next layer.
Writing == {"do_pong+1", "do_teardown", "do_fail+4", "do_upcall", "do_frag+2",
            "do_mask_nofrag+2", "do_deflate+2", "do_deflate+3", "99"}
\* States in which an operation is held by a pausation.
Suspended == {"do_pong_resume", "do_close_resume", "do_fail+2",
              "do_maybe_suspend+1", "2"}
\* States in which a handler of the operation is posted to the io_service.
Posted == {"do_call_handler", "do_pong_resume+1", "do_close_resume+1",
           "do_fail+3", "do_maybe_suspend", "do_maybe_suspend+2",
           "deflate_empty", "aborted", "3"}
\* States in which the read operation waits for the peer.
Reading == {"do_read_fh", "do_control_payload", "do_read_payload",
            "do_inflate_payload"}
TearingDown == {"do_teardown+1", "do_fail+5"}
States == {"idle"} \cup Writing \cup Suspended \cup Posted \cup Reading \cup TearingDown

\* What follows the header of a data frame with a payload.
PayloadStates ==
  {"do_read_payload"} \cup (IF Pmd THEN {"do_inflate_payload"} ELSE {})

Entries == IF Pmd THEN {"deflate"}
           ELSE IF Role = "client" THEN {"mask_nofrag", "mask_frag"}
           ELSE {"nomask_nofrag", "nomask_frag"}

\* What open() leaves behind: the handshake has succeeded.
Init ==
  /\ failed_ = FALSE
  /\ wr_close_ = FALSE
  /\ wr_block_ = NoOp
  /\ wr_cont = FALSE
  /\ parked = [s \in Slots |-> NoOp]
  /\ st = [o \in Ops |-> "idle"]
  /\ fh = NoOp
  /\ w = [entry |-> NoOp, op |-> "data", fin |-> TRUE, remain |-> 0]
  /\ torn = FALSE
  /\ wire = "idle"
  /\ ok = TRUE

Active == {o \in Ops : st[o] # "idle"}

\* The application starts an operation only next to operations it may have
\* active together with it.
MayStart(o) ==
  /\ st[o] = "idle"
  /\ \E S \in Together : Active \cup {o} \subseteq S

\* The sending side of RFC 6455: a message is a data frame followed by
\* continuations, control frames may come between, nothing follows a close.
WireAfter(f, fin) ==
  IF \/ wire \in {"closed", "broken"}
     \/ f = "data" /\ wire = "message"
     \/ f = "cont" /\ wire = "idle"
  THEN "broken"
  ELSE IF f = "close" THEN "closed"
  ELSE IF f \in {"ping", "pong"} THEN wire
  ELSE IF fin THEN "idle" ELSE "message"

-----------------------------------------------------------------------------
(* pausation *)

\* pausation::emplace: operation o waits in slot s, in state x.
Emplace(o, s, x) ==
  /\ parked' = [parked EXCEPT ![s] = o]
  /\ st' = [st EXCEPT ![o] = x]
  /\ ok' = (ok /\ parked[s] = NoOp /\ (x = "do_pong_resume" => wr_block_ # o))

\* The state in which the handler posted by a resumed operation runs.
Resumed(x) ==
  IF x = "do_pong_resume" THEN "do_pong_resume+1"
  ELSE IF x = "do_close_resume" THEN "do_close_resume+1"
  ELSE IF x = "do_fail+2" THEN "do_fail+3"
  ELSE IF x = "do_maybe_suspend+1" THEN "do_maybe_suspend+2"
  ELSE "3"

\* A resumed operation takes wr_block_ before it posts, but for do_fail + 2.
TakesBlock(x) == x # "do_fail+2"

\* wr_block_ after an operation has given it up.
Released(o) == IF wr_block_ = o THEN NoOp ELSE wr_block_

\* The first engaged pausation of a || b.
FirstEngaged(a, b) ==
  IF parked[a] # NoOp THEN a ELSE IF parked[b] # NoOp THEN b ELSE NoOp

\* pausation::maybe_invoke of slot s, called with wr_block_ equal to blk by
\* operation o, which goes to state x.
Invoke(s, blk, o, x) ==
  LET p == parked[s]
  IN /\ parked' = [parked EXCEPT ![s] = NoOp]
     /\ st' = [st EXCEPT ![o] = x, ![p] = Resumed(st[p])]
     /\ wr_block_' = IF TakesBlock(st[p]) THEN p ELSE blk

\* The assertion a resumed operation makes before it takes wr_block_.
InvokeOk(s, blk) == TakesBlock(st[parked[s]]) => blk = NoOp

\* The assertion the handler of a resumed operation makes first, whether it goes
\* on or gives up.
OwnsBlock(o) ==
  st[o] \in {"do_close_resume+1", "do_maybe_suspend+2", "3"} => wr_block_ = o

\* a.maybe_invoke() || b.maybe_invoke() at the end of operation o.
Upcall(a, b, o) ==
  LET s == FirstEngaged(a, b)
  IN \/ /\ s = NoOp
        /\ wr_block_' = Released(o)
        /\ st' = [st EXCEPT ![o] = "idle"]
        /\ ok' = (ok /\ OwnsBlock(o))
        /\ UNCHANGED parked
     \/ /\ s # NoOp
        /\ Invoke(s, Released(o), o, "idle")
        /\ ok' = (ok /\ OwnsBlock(o) /\ InvokeOk(s, Released(o)))

\* Bug: the upcall of a read resumes a ping only.
ReadUpcall_PingOnly == Upcall("ping_op_", "rd_op_", "read")
\* Bug: the upcall of a write does not resume the read.
WriteUpcall_PingOnly == Upcall("wr_op_", "ping_op_", "write")

\* The upcall labels: give up wr_block_, resume another operation, complete.
ReadUpcall == Upcall("ping_op_", "wr_op_", "read")
WriteUpcall == Upcall("rd_op_", "ping_op_", "write")
PingUpcall == Upcall("rd_op_", "wr_op_", "ping")
CloseUpcall == Upcall("rd_op_", "ping_op_", "close")

-----------------------------------------------------------------------------
(* read_frame_op *)

AsyncRead ==
  /\ MayStart("read")
  /\ st' = [st EXCEPT !["read"] = IF failed_ THEN "do_call_handler" ELSE "do_read_fh"]
  /\ UNCHANGED <<streamVars, parked, fh, w, torn, wire, ok>>

\* do_call_handler: the posted operation_aborted.
ReadAborted ==
  /\ st["read"] = "do_call_handler"
  /\ failed_' = TRUE
  /\ ReadUpcall
  /\ UNCHANGED <<wr_close_, wr_cont, fh, w, torn, wire>>

\* A read on the next layer fails.
ReadError ==
  /\ st["read"] \in Reading
  /\ IoErrors \/ torn
  /\ failed_' = TRUE
  /\ ReadUpcall
  /\ UNCHANGED <<wr_close_, wr_cont, fh, w, torn, wire>>

\* The read operation takes wr_block_ and writes a control frame.
ReadWrites(f, x) ==
  /\ wr_block_' = "read"
  /\ ok' = (ok /\ OwnsBlock("read") /\ wr_block_ \in {NoOp, "read"})
  /\ wire' = WireAfter(f, TRUE)
  /\ st' = [st EXCEPT !["read"] = x]
  /\ UNCHANGED parked

\* do_fail + 1: send the close frame that fails the connection.
SendFail ==
  /\ failed_' = TRUE
  /\ wr_close_' = TRUE
  /\ wr_block_' = "read"
  /\ ok' = (ok /\ wr_block_ = NoOp)
  /\ wire' = WireAfter("close", TRUE)
  /\ st' = [st EXCEPT !["read"] = "do_fail+4"]
  /\ UNCHANGED parked

\* call_async_teardown, which shuts down the sending side first.
StartTeardown(x) ==
  /\ torn' = TRUE
  /\ st' = [st EXCEPT !["read"] = x]
  /\ UNCHANGED <<wr_close_, wr_block_, parked, wire, ok>>

\* do_fail, with failed_ equal to f
DoFail(f) ==
  \/ /\ wr_close_
     /\ StartTeardown("do_fail+5")
     /\ failed_' = f
  \/ /\ ~wr_close_ /\ wr_block_ # NoOp
     /\ Emplace("read", "rd_op_", "do_fail+2")
     /\ failed_' = f
     /\ UNCHANGED <<wr_close_, wr_block_, torn, wire>>
  \/ /\ ~wr_close_ /\ wr_block_ = NoOp
     /\ SendFail
     /\ UNCHANGED torn

\* do_inflate_payload + 2 on the last octets of the frame: done, an error of
\* inflate, or invalid UTF-8.  failed_ is assigned the outcome of inflate,
\* whatever it was before.
Inflated ==
  \/ /\ failed_' = FALSE
     /\ ReadUpcall
     /\ UNCHANGED <<wr_close_, torn, wire>>
  \/ /\ "bad" \in Frames
     /\ failed_' = TRUE
     /\ ReadUpcall
     /\ UNCHANGED <<wr_close_, torn, wire>>
  \/ /\ "bad" \in Frames
     /\ DoFail(FALSE)

\* do_read_fh: a frame header arrived.
ReadHeader(k) ==
  /\ st["read"] = "do_read_fh"
  /\ k \in Frames /\ ~torn
  /\ UNCHANGED <<wr_cont, w>>
  /\ \/ /\ k = "bad"
        /\ DoFail(failed_)
        /\ UNCHANGED fh
     \/ /\ k \in {"ping", "pong", "close"}
        /\ fh' = k
        /\ st' = [st EXCEPT !["read"] = "do_control_payload"]
        /\ UNCHANGED <<failed_, wr_close_, wr_block_, parked, torn, wire, ok>>
     \/ /\ k = "data"
        /\ \E x \in PayloadStates : st' = [st EXCEPT !["read"] = x]
        /\ UNCHANGED <<failed_, wr_close_, wr_block_, parked, fh, torn, wire, ok>>
     \/ /\ k = "empty"
        /\ ReadUpcall
        /\ UNCHANGED <<failed_, wr_close_, fh, torn, wire>>
     \/ /\ k = "empty" /\ Pmd     \* the last frame of a compressed message
        /\ Inflated
        /\ UNCHANGED fh

\* do_read_payload + 2: the last octets of an uncompressed payload, or
\* octets that are not UTF-8.
ReadPayload ==
  /\ st["read"] = "do_read_payload" /\ ~torn
  /\ UNCHANGED <<wr_cont, fh, w>>
  /\ \/ /\ ReadUpcall
        /\ UNCHANGED <<failed_, wr_close_, torn, wire>>
     \/ /\ "bad" \in Frames
        /\ DoFail(failed_)

\* do_inflate_payload + 2: octets of a compressed payload.
InflatePayload ==
  /\ st["read"] = "do_inflate_payload" /\ ~torn
  /\ UNCHANGED <<wr_cont, fh, w>>
  /\ \/ /\ failed_' = FALSE                     \* more octets to come
        /\ UNCHANGED <<wr_close_, wr_block_, parked, st, torn, wire, ok>>
     \/ Inflated

\* do_control: the control frame is complete.  A frame without payload takes
\* this step right after its header.
ReadControl ==
  /\ st["read"] = "do_control_payload" /\ ~torn
  /\ UNCHANGED <<wr_cont, fh, w>>
  /\ \/ /\ \/ fh = "pong"
           \/ fh = "ping" /\ wr_close_
        /\ st' = [st EXCEPT !["read"] = "do_read_fh"]
        /\ UNCHANGED <<failed_, wr_close_, wr_block_, parked, torn, wire, ok>>
     \/ /\ fh = "ping" /\ ~wr_close_ /\ wr_block_ # NoOp
        /\ Emplace("read", "rd_op_", "do_pong_resume")
        /\ UNCHANGED <<failed_, wr_close_, wr_block_, torn, wire>>
     \/ /\ fh = "ping" /\ ~wr_close_ /\ wr_block_ = NoOp
        /\ ReadWrites("pong", "do_pong+1")
        /\ UNCHANGED <<failed_, wr_close_, torn>>
     \/ /\ fh = "close" /\ "bad" \in Frames
        /\ DoFail(failed_)
     \/ /\ fh = "close" /\ wr_close_
        /\ StartTeardown("do_teardown+1")
        /\ UNCHANGED failed_
     \/ /\ fh = "close" /\ ~wr_close_ /\ wr_block_ # NoOp
        /\ Emplace("read", "rd_op_", "do_close_resume")
        /\ UNCHANGED <<failed_, wr_close_, wr_block_, torn, wire>>
     \/ /\ fh = "close" /\ ~wr_close_ /\ wr_block_ = NoOp
        /\ ReadWrites("close", "do_teardown")
        /\ wr_close_' = TRUE
        /\ UNCHANGED <<failed_, torn>>

\* do_pong_resume + 1
PongResumed ==
  /\ st["read"] = "do_pong_resume+1"
  /\ UNCHANGED <<failed_, wr_close_, wr_cont, fh, w, torn>>
  /\ \/ /\ failed_
        /\ ReadUpcall
        /\ UNCHANGED wire
     \/ /\ ~failed_ /\ wr_close_
        /\ wr_block_' = NoOp
        /\ ok' = (ok /\ wr_block_ \in {NoOp, "read"})
        /\ st' = [st EXCEPT !["read"] = "do_read_fh"]
        /\ UNCHANGED <<parked, wire>>
     \/ /\ ~failed_ /\ ~wr_close_
        /\ ReadWrites("pong", "do_pong+1")

\* do_close_resume + 1
CloseResumed ==
  /\ st["read"] = "do_close_resume+1"
  /\ UNCHANGED <<failed_, wr_cont, fh, w, torn>>
  /\ \/ /\ failed_ \/ wr_close_
        /\ ReadUpcall
        /\ UNCHANGED <<wr_close_, wire>>
     \/ /\ ~failed_ /\ ~wr_close_
        /\ ReadWrites("close", "do_teardown")
        /\ wr_close_' = TRUE

\* Bug: a resumed do_fail + 2 suspends again.
FailResumed_Suspends ==
  /\ st["read"] = "do_fail+3"
  /\ Emplace("read", "rd_op_", "do_fail+2")
  /\ UNCHANGED <<streamVars, fh, w, torn, wire>>

\* do_fail + 3
FailResumed ==
  /\ st["read"] = "do_fail+3"
  /\ UNCHANGED <<wr_cont, fh, w, torn>>
  /\ \/ /\ failed_
        /\ ReadUpcall
        /\ UNCHANGED <<failed_, wr_close_, wire>>
     \/ /\ ~failed_
        /\ SendFail

\* do_pong + 1: the pong was sent.  Nobody is resumed.
PongSent ==
  /\ st["read"] = "do_pong+1"
  /\ wr_block_' = NoOp
  /\ st' = [st EXCEPT !["read"] = "do_read_fh"]
  /\ UNCHANGED <<failed_, wr_close_, wr_cont, parked, fh, w, torn, wire, ok>>

\* do_teardown, do_fail + 4: the close frame was sent.
CloseSent ==
  /\ \/ /\ st["read"] = "do_teardown"
        /\ StartTeardown("do_teardown+1")
     \/ /\ st["read"] = "do_fail+4"
        /\ StartTeardown("do_fail+5")
  /\ UNCHANGED <<failed_, wr_cont, fh, w>>

\* A control frame of the read operation could not be sent.
ReadSendError ==
  /\ st["read"] \in {"do_pong+1", "do_teardown", "do_fail+4"}
  /\ IoErrors \/ torn
  /\ failed_' = TRUE
  /\ ReadUpcall
  /\ UNCHANGED <<wr_close_, wr_cont, fh, w, torn, wire>>

\* async_teardown of the next layer is complete: error::closed, error::failed
\* or the error of the teardown is delivered.
TeardownDone ==
  /\ st["read"] \in TearingDown
  /\ ReadUpcall
  /\ UNCHANGED <<failed_, wr_close_, wr_cont, fh, w, torn, wire>>

-----------------------------------------------------------------------------
(* write_frame_op *)

\* The fields v of the operation with another fh.op and remain.
Fields(v, op, n) == [entry |-> v.entry, op |-> op, fin |-> v.fin, remain |-> n]

\* Bug: wr_.cont is not assigned.
SendFrame_NoCont(v) ==
  /\ wr_block_' = "write"
  /\ w' = Fields(v, v.op, 0)
  /\ wire' = WireAfter(v.op, v.fin)
  /\ st' = [st EXCEPT !["write"] = "do_upcall"]
  /\ UNCHANGED <<failed_, wr_cont>>

\* entry_state + 1, with the operation's fields equal to v: one frame.
SendFrame(v) ==
  LET left == v.remain - 1
      single == v.entry \in {"nomask_nofrag", "mask_nofrag"}
      last == IF single THEN v.fin ELSE v.fin /\ left = 0
  IN /\ wr_block_' = "write"
     /\ failed_' = IF v.entry = "deflate" THEN FALSE ELSE failed_
     /\ w' = Fields(v, v.op, left)
     /\ \/ /\ v.entry = "deflate" /\ ~v.fin /\ left = 0   \* n == 0
           /\ st' = [st EXCEPT !["write"] = "deflate_empty"]
           /\ UNCHANGED <<wr_cont, wire>>
        \/ /\ ~(v.entry = "deflate" /\ ~v.fin /\ left = 0)
           /\ wr_cont' = ~v.fin
           /\ wire' = WireAfter(v.op, last)
           /\ st' = [st EXCEPT !["write"] =
                IF v.entry = "deflate"
                THEN IF left = 0 THEN "do_deflate+3" ELSE "do_deflate+2"
                ELSE IF left = 0 THEN "do_upcall"
                ELSE IF single THEN "do_mask_nofrag+2" ELSE "do_frag+2"]

\* do_maybe_suspend
MaybeSuspend(v) ==
  \/ /\ wr_block_ # NoOp
     /\ Emplace("write", "wr_op_", "do_maybe_suspend+1")
     /\ w' = v
     /\ UNCHANGED <<streamVars, wire>>
  \/ /\ wr_block_ = NoOp /\ (failed_ \/ wr_close_)
     /\ st' = [st EXCEPT !["write"] = "aborted"]
     /\ w' = v
     /\ UNCHANGED <<streamVars, parked, wire, ok>>
  \/ /\ wr_block_ = NoOp /\ ~failed_ /\ ~wr_close_
     /\ SendFrame(v)
     /\ UNCHANGED <<wr_close_, parked, ok>>

\* do_init: n counts the writes the message needs.  An unmasked message
\* that is not fragmented needs one.
AsyncWrite(fin, e, n) ==
  /\ MayStart("write")
  /\ e = "nomask_nofrag" => n = 1
  /\ MaybeSuspend([entry |-> e, op |-> IF wr_cont THEN "cont" ELSE "data",
                   fin |-> fin, remain |-> n])
  /\ UNCHANGED <<fh, torn>>

WriteAborted ==
  /\ st["write"] = "aborted"
  /\ WriteUpcall
  /\ UNCHANGED <<failed_, wr_close_, wr_cont, fh, w, torn, wire>>

\* do_maybe_suspend, posted after another operation was let in between frames
WriteYielded ==
  /\ st["write"] = "do_maybe_suspend"
  /\ MaybeSuspend(w)
  /\ UNCHANGED <<fh, torn>>

\* Bug: the resumed write does not look at wr_close_ again.
WriteResumed_Stale ==
  /\ st["write"] = "do_maybe_suspend+2"
  /\ SendFrame(w)
  /\ ok' = (ok /\ OwnsBlock("write"))
  /\ UNCHANGED <<wr_close_, parked, fh, torn>>

\* do_maybe_suspend + 2
WriteResumed ==
  /\ st["write"] = "do_maybe_suspend+2"
  /\ UNCHANGED <<wr_close_, fh, torn>>
  /\ \/ /\ failed_ \/ wr_close_
        /\ WriteUpcall
        /\ UNCHANGED <<failed_, wr_cont, w, wire>>
     \/ /\ ~failed_ /\ ~wr_close_
        /\ SendFrame(w)
        /\ ok' = (ok /\ OwnsBlock("write"))
        /\ UNCHANGED parked

\* A write of the operation fails.
WriteError ==
  /\ st["write"] \in Writing
  /\ IoErrors \/ torn
  /\ failed_' = TRUE
  /\ WriteUpcall
  /\ UNCHANGED <<wr_close_, wr_cont, fh, w, torn, wire>>

\* do_upcall, do_deflate + 3, or the post after a deflate without output.
WriteDone ==
  /\ st["write"] \in {"do_upcall", "do_deflate+3", "deflate_empty"}
  /\ WriteUpcall
  /\ UNCHANGED <<failed_, wr_close_, wr_cont, fh, w, torn, wire>>

\* Bug: one part too many.
WritePart_OneMore ==
  /\ st["write"] = "do_mask_nofrag+2"
  /\ w' = Fields(w, w.op, w.remain - 1)
  /\ st' = [st EXCEPT !["write"] = IF w.remain = 0 THEN "do_upcall" ELSE @]
  /\ UNCHANGED <<streamVars, parked, fh, torn, wire, ok>>

\* do_mask_nofrag + 2: the next part of the payload of the same frame.
WritePart ==
  /\ st["write"] = "do_mask_nofrag+2"
  /\ w' = Fields(w, w.op, w.remain - 1)
  /\ st' = [st EXCEPT !["write"] = IF w.remain = 1 THEN "do_upcall" ELSE @]
  /\ UNCHANGED <<streamVars, parked, fh, torn, wire, ok>>

\* Bug: the write lets a control frame in but does not wait for it.
WriteBetween_Races ==
  LET s == FirstEngaged("rd_op_", "ping_op_")
      v == Fields(w, "cont", w.remain)
  IN /\ st["write"] \in {"do_frag+2", "do_deflate+2"}
     /\ UNCHANGED <<wr_close_, fh, torn, ok, failed_, wr_cont>>
     /\ w' = v
     /\ wire' = WireAfter("cont", TRUE)
     /\ IF s # NoOp
        THEN Invoke(s, NoOp, "write", "do_upcall")
        ELSE /\ st' = [st EXCEPT !["write"] = "do_upcall"]
             /\ UNCHANGED <<wr_block_, parked>>

\* Bug: only a suspended ping goes between two frames.
WriteBetween_PingOnly ==
  LET s == FirstEngaged("ping_op_", "wr_op_")
      v == Fields(w, "cont", w.remain)
      blk == Released("write")
  IN /\ st["write"] \in {"do_frag+2", "do_deflate+2"}
     /\ UNCHANGED <<wr_close_, fh, torn>>
     /\ \/ /\ s # NoOp
           /\ Invoke(s, blk, "write", "do_maybe_suspend")
           /\ w' = v
           /\ ok' = (ok /\ InvokeOk(s, blk))
           /\ UNCHANGED <<failed_, wr_cont, wire>>
        \/ /\ s = NoOp
           /\ SendFrame(v)
           /\ UNCHANGED <<parked, ok>>

\* do_nomask_frag + 2, do_mask_frag + 2, do_deflate + 2: between two frames
\* a suspended control frame goes first, else the next frame is sent.
WriteBetween ==
  LET s == FirstEngaged("rd_op_", "ping_op_")
      v == Fields(w, "cont", w.remain)
      blk == IF w.entry = "nomask_frag" THEN Released("write") ELSE NoOp
      held == w.entry = "nomask_frag" \/ wr_block_ = "write"
  IN /\ st["write"] \in {"do_frag+2", "do_deflate+2"}
     /\ UNCHANGED <<wr_close_, fh, torn>>
     /\ \/ /\ s # NoOp
           /\ Invoke(s, blk, "write", "do_maybe_suspend")
           /\ w' = v
           /\ ok' = (ok /\ held /\ InvokeOk(s, blk))
           /\ UNCHANGED <<failed_, wr_cont, wire>>
        \/ /\ s = NoOp
           /\ SendFrame(v)
           /\ ok' = (ok /\ held /\ blk = NoOp)
           /\ UNCHANGED parked

-----------------------------------------------------------------------------
(* close_op and ping_op: o is "close" or "ping" *)

ControlSlot(o) == IF o = "close" THEN "wr_op_" ELSE "ping_op_"
ControlUpcall(o) == IF o = "close" THEN CloseUpcall ELSE PingUpcall

\* case 1: send the frame prepared by the constructor
SendControl(o) ==
  /\ wr_block_' = o
  /\ wr_close_' = (wr_close_ \/ o = "close")
  /\ wire' = WireAfter(o, TRUE)
  /\ st' = [st EXCEPT ![o] = "99"]
  /\ UNCHANGED parked

\* case 0
AsyncControl(o) ==
  /\ MayStart(o)
  /\ UNCHANGED <<failed_, wr_cont, fh, w, torn>>
  /\ \/ /\ wr_block_ # NoOp
        /\ Emplace(o, ControlSlot(o), "2")
        /\ UNCHANGED <<wr_close_, wr_block_, wire>>
     \/ /\ wr_block_ = NoOp /\ (failed_ \/ wr_close_)
        /\ st' = [st EXCEPT ![o] = "aborted"]
        /\ UNCHANGED <<wr_close_, wr_block_, parked, wire, ok>>
     \/ /\ wr_block_ = NoOp /\ ~failed_ /\ ~wr_close_
        /\ SendControl(o)
        /\ UNCHANGED ok

\* case 3
ControlResumed(o) ==
  /\ st[o] = "3"
  /\ UNCHANGED <<failed_, wr_cont, fh, w, torn>>
  /\ \/ /\ failed_ \/ wr_close_
        /\ ControlUpcall(o)
        /\ UNCHANGED <<wr_close_, wire>>
     \/ /\ ~failed_ /\ ~wr_close_
        /\ SendControl(o)
        /\ ok' = (ok /\ OwnsBlock(o))

\* case 99, or the posted operation_aborted
ControlDone(o) ==
  /\ st[o] \in {"99", "aborted"}
  /\ ControlUpcall(o)
  /\ UNCHANGED <<failed_, wr_close_, wr_cont, fh, w, torn, wire>>

ControlError(o) ==
  /\ st[o] = "99"
  /\ IoErrors \/ torn
  /\ failed_' = TRUE
  /\ ControlUpcall(o)
  /\ UNCHANGED <<wr_close_, wr_cont, fh, w, torn, wire>>

ControlHandler(o) == ControlResumed(o) \/ ControlDone(o) \/ ControlError(o)

AsyncPing == AsyncControl("ping")
PingHandler == ControlHandler("ping")
AsyncClose == AsyncControl("close")
CloseHandler == ControlHandler("close")

-----------------------------------------------------------------------------
\* reset() and open(): a new session on the same stream object, after every
\* operation of the previous one has completed.
Open ==
  /\ Active = {}
  /\ failed_ \/ wr_close_ \/ torn
  /\ failed_' = FALSE
  /\ wr_close_' = FALSE
  /\ wr_block_' = NoOp
  /\ wr_cont' = FALSE
  /\ torn' = FALSE
  /\ wire' = "idle"
  /\ UNCHANGED <<parked, st, fh, w, ok>>

\* Handlers of the read operation that do not wait for the peer's next octets.
ReadHandler ==
  \/ ReadAborted \/ PongResumed \/ CloseResumed \/ FailResumed
  \/ PongSent \/ CloseSent \/ ReadSendError
WriteHandler ==
  \/ WriteAborted \/ WriteYielded \/ WriteResumed \/ WriteError
  \/ WriteDone \/ WritePart \/ WriteBetween

Next ==
  \/ AsyncRead
  \/ ReadError
  \/ \E k \in FrameKinds : ReadHeader(k)
  \/ ReadPayload
  \/ InflatePayload
  \/ ReadControl
  \/ ReadHandler
  \/ TeardownDone
  \/ \E fin \in BOOLEAN, e \in Entries, n \in 1 .. MaxWrites : AsyncWrite(fin, e, n)
  \/ WriteHandler
  \/ AsyncPing \/ PingHandler
  \/ AsyncClose \/ CloseHandler
  \/ Open

Spec == Init /\ [][Next]_vars

\* The io_service runs posted handlers and a write on the next layer
\* completes; the peer, which has been sent a close frame and the end of the
\* stream, closes its end.  Nobody else must do anything: the peer need not
\* send, the application need not start an operation.
Fairness ==
  /\ WF_vars(ReadHandler)
  /\ WF_vars(TeardownDone)
  /\ WF_vars(WriteHandler)
  /\ WF_vars(PingHandler)
  /\ WF_vars(CloseHandler)

FairSpec == Spec /\ Fairness

-----------------------------------------------------------------------------
(* Properties *)

\* Type invariant of the stream's members and of its operations.
TypeOK ==
  /\ failed_ \in BOOLEAN
  /\ wr_close_ \in BOOLEAN
  /\ wr_block_ \in Ops \cup {NoOp}
  /\ wr_cont \in BOOLEAN
  /\ parked \in [Slots -> Ops \cup {NoOp}]
  /\ st \in [Ops -> States]
  /\ fh \in {"ping", "pong", "close", NoOp}
  /\ w \in [entry : Entries \cup {NoOp}, op : {"data", "cont"},
            fin : BOOLEAN, remain : 0 .. MaxWrites]
  /\ torn \in BOOLEAN
  /\ wire \in {"idle", "message", "closed", "broken"}
  /\ ok \in BOOLEAN

\* At most one operation has a write on the next layer under way: pongs, close
\* frames, pings and messages never overlap on the socket.
WritesDoNotCompete ==
  \A a, b \in Ops : st[a] \in Writing /\ st[b] \in Writing => a = b

\* No BOOST_ASSERT of the composed operations or of pausation has failed.
AssertsHold == ok

\* The frames sent are a legal RFC 6455 stream: continuations continue a
\* message, messages do not interleave and nothing follows a close frame.
WireGrammar == wire # "broken"

\* wr_block_ never points to an operation that has completed (its memory is
\* gone), is suspended or waits for the peer ("should be nullptr on close").
BlockHeldByRunning ==
  wr_block_ # NoOp => st[wr_block_] \notin {"idle"} \cup Suspended \cup Reading

\* Between two writes of a healthy stream wr_.cont tells whether the message
\* on the wire is unfinished, however the frames were split or interrupted.
ContMatchesWire ==
  st["write"] = "idle" /\ ~failed_ /\ ~wr_close_ => (wr_cont <=> wire = "message")

\* The teardown comes after a close frame and never cuts a message frame short.
TeardownAfterClose ==
  torn => wire = "closed" /\ st["write"] \notin Writing

\* The operations take turns on the socket: one of them writes at a time, wr_block_
\* names an operation that runs, and no assertion fails.
WritersTakeTurns == WritesDoNotCompete /\ AssertsHold /\ BlockHeldByRunning

\* Whatever is interleaved, split, suspended or closed, what is on the wire is a legal
\* stream, wr_.cont agrees with it and the teardown comes after a close frame.
LegalStream == WireGrammar /\ ContMatchesWire /\ TeardownAfterClose

\* A failed connection stays failed until the stream is opened again, although deflate
\* and inflate assign failed_ their own outcome: after a failure nothing is compressed or
\* decompressed any more.  It takes a next layer that fails only after the teardown
\* (IoErrors = FALSE): the failure of one that fails before is overwritten by the next
\* frame that is inflated or deflated.
FailedIsSticky == [][failed_ /\ ~failed_' => Open]_vars

\* While a reply of the read operation (pong, close) is suspended, the operation
\* that writes finishes the frame it is on and no other frame is started.
RepliesGoNext ==
  [][parked["rd_op_"] # NoOp /\ parked'["rd_op_"] # NoOp =>
       /\ wr_block_' = wr_block_
       /\ st[wr_block_] \in Writing => wire' = wire]_vars

\* A suspended operation waits for one that holds wr_block_ and whose upcall
\* will resume it.
NoLostWakeup == (\E s \in Slots : parked[s] # NoOp) => wr_block_ # NoOp

\* Every write, ping and close completes, suspended or not, although the peer
\* may be silent.
WriterCompletes ==
  \A o \in {"write", "ping", "close"} : st[o] # "idle" ~> st[o] = "idle"

\* A suspended read is resumed.
ReadResumes == st["read"] \in Suspended ~> st["read"] \notin Suspended

\* A close frame received while a write is under way is answered, unless the
\* connection fails first.
CloseAnswered == st["read"] = "do_close_resume" ~> wire = "closed" \/ failed_

\* A reply of the read operation that had to wait for a write is resumed and, if it is a
\* close, sent.
RepliesComplete == ReadResumes /\ CloseAnswered

\* A read that found a protocol error while a write was under way completes.
ProtocolErrorReported == st["read"] = "do_fail+2" ~> st["read"] = "idle"
=============================================================================
