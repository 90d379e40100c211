--------------------------- MODULE WsStreamLegal ---------------------------
(***************************************************************************)
(* What the frames on the wire look like, who is resumed and what stays    *)
(* failed: the safety properties of WsStream beyond mutual exclusion.      *)
(***************************************************************************)
EXTENDS WsStreamSafety

\* Where a write has frames left and none on the next layer.
Pending == {"do_maybe_suspend", "do_maybe_suspend+1", "do_maybe_suspend+2"}
\* Where it writes a frame that is not the last.
Between == {"do_frag+2", "do_deflate+2"}
\* Where it writes its last frame, or the only one.
Finishing == {"do_mask_nofrag+2", "do_upcall", "do_deflate+3"}

\* A close frame is on the wire if and only if wr_close_ says so.
CloseOnWire == wire # "broken" /\ (wr_close_ <=> wire = "closed")

\* The teardown, and the wait for the close frame before it, come after wr_close_.
TeardownClosed ==
  /\ st["read"] \in {"do_teardown", "do_fail+4"} => wr_close_
  /\ torn => wr_close_

\* While a write has a frame on the next layer no close frame is sent, and wr_.cont
\* is what the message needs.
FramesOnWire ==
  /\ st["write"] \in Between => wire = "message" /\ (wr_cont <=> ~w.fin)
  /\ st["write"] \in Finishing =>
       /\ wire = IF w.fin THEN "idle" ELSE "message"
       /\ wr_cont <=> ~w.fin

\* On a healthy stream the next frame of a write fits what is on the wire.
NextFrameFits ==
  ~failed_ /\ ~wr_close_ =>
    /\ st["write"] \in {"idle", "deflate_empty"} => (wr_cont <=> wire = "message")
    /\ st["write"] \in Pending =>
         /\ w.op = "cont" <=> wire = "message"
         /\ ~w.fin => (wr_cont <=> wire = "message")
    /\ st["write"] # "aborted"

\* With permessage-deflate failed_ may be reset: it is TRUE only after the teardown.
FailedAfterTeardown ==
  /\ Pmd /\ (failed_ \/ st["read"] = "do_call_handler") => torn
  /\ ~Pmd => st["read"] # "do_inflate_payload"

Wire == CloseOnWire /\ TeardownClosed /\ FramesOnWire /\ NextFrameFits /\ FailedAfterTeardown

\* The inductive invariant of the frames on the wire.
LegalInv == SafeInv /\ Wire
-----------------------------------------------------------------------------
\* What the upcall of an operation does to the others: at most one is resumed.
LEMMA UpcallMoves ==
  ASSUME NEW o \in Ops, NEW a \in Slots, NEW b \in Slots, TypeInv,
         st[o] \notin Suspended, Upcall(a, b, o)
  PROVE  /\ st'[o] = "idle"
         /\ \A q \in Ops \ {o} :
              st'[q] = st[q] \/ (st[q] \in Suspended /\ st'[q] = Resumed(st[q]))
  <1> DEFINE s == FirstEngaged(a, b)
  <1>0. st \in [Ops -> States] /\ parked \in [Slots -> Ops \cup {NoOp}]
    BY DEF TypeInv, TypeOK
  <1>1. CASE s = NoOp
    BY <1>0, <1>1 DEF Upcall
  <1>2. CASE s # NoOp
    <2>1. s \in Slots /\ parked[s] # NoOp
      BY <1>2 DEF FirstEngaged, NoOp
    <2>2. PICK p \in Ops : p = parked[s] /\ p # o /\ st[p] \in Suspended
      BY <1>0, <2>1 DEF TypeInv, ParkedSuspended
    <2>3. PICK y : y = Resumed(st[p])
      OBVIOUS
    <2>4. st' = [st EXCEPT ![o] = "idle", ![p] = y]
      BY <1>2, <2>2, <2>3 DEF Upcall, Invoke
    <2> QED
      BY <1>0, <2>2, <2>3, <2>4
  <1> QED
    BY <1>1, <1>2

\* A state of the read operation that an upcall of another operation may change.
ReadKept(x, y) == x = y \/ y \in {"do_pong_resume+1", "do_close_resume+1"}
\* A state of the write operation that an upcall of another operation may change.
WriteKept(x, y) == x = y \/ (x = "do_maybe_suspend+1" /\ y = "do_maybe_suspend+2")

\* The same, for the read and the write operation.
LEMMA UpcallKeeps ==
  ASSUME NEW o \in Ops, NEW a \in Slots, NEW b \in Slots, SafeInv,
         st[o] \notin Suspended, Upcall(a, b, o)
  PROVE  /\ st'[o] = "idle"
         /\ o # "read" => ReadKept(st["read"], st'["read"])
         /\ o # "write" => WriteKept(st["write"], st'["write"])
  <1>1. /\ "read" \in Ops /\ "write" \in Ops
        /\ st["read"] \in ReadStates \ {"do_fail+2"} /\ st["write"] \in WriteStates
    BY DEF Ops, SafeInv, TypeInv, OwnStates, Exclusion, NoFail
  <1>2. st["read"] \in Suspended => Resumed(st["read"]) \in {"do_pong_resume+1", "do_close_resume+1"}
    BY <1>1 DEF Suspended, Resumed, ReadStates, Reading, TearingDown
  <1>3. st["write"] \in Suspended =>
          st["write"] = "do_maybe_suspend+1" /\ Resumed(st["write"]) = "do_maybe_suspend+2"
    BY <1>1 DEF Suspended, Resumed, WriteStates, Unfinished
  <1> QED
    BY <1>1, <1>2, <1>3, UpcallMoves DEF SafeInv, ReadKept, WriteKept

-----------------------------------------------------------------------------
\* Either the next layer does not fail while it is open or messages are not compressed.
Reliable == ~Pmd \/ ~IoErrors

\* A step that sends no frame but a ping or a pong.  The read operation moves from x
\* to y, the write operation from x2 to y2.
QuietRead(x, y) ==
  /\ y \in {"do_teardown", "do_fail+4"} => x = y
  /\ y = "do_call_handler" => x = y \/ failed_
  /\ y = "do_inflate_payload" => x = y \/ Pmd
QuietWrite(x, y) ==
  \/ x = y
  \/ x \in Pending /\ y \in Pending
  \/ y = "idle" /\ (x \in Finishing \cup {"deflate_empty", "aborted"} \/ failed_' \/ wr_close_)

\* Such a step preserves Wire.
LEMMA QuietWire ==
  ASSUME Reliable, LegalInv, UNCHANGED <<wire, wr_close_, wr_cont, w, torn>>,
         QuietRead(st["read"], st'["read"]), QuietWrite(st["write"], st'["write"]),
         failed_ => failed_' \/ Pmd,
         failed_' => failed_ \/ IoErrors \/ torn \/ st["read"] = "do_call_handler"
  PROVE  Wire'
  <1> USE DEF LegalInv, Wire
  <1>0. wire' = wire /\ wr_close_' = wr_close_ /\ wr_cont' = wr_cont /\ w' = w /\ torn' = torn
    OBVIOUS
  <1>1. CloseOnWire' /\ TeardownClosed'
    BY <1>0 DEF CloseOnWire, TeardownClosed, QuietRead
  <1>2. FramesOnWire'
    BY <1>0 DEF FramesOnWire, QuietWrite, Between, Finishing, Pending
  <1>3. failed_ => failed_' \/ wr_close_
    BY DEF FailedAfterTeardown, TeardownClosed
  <1>4. NextFrameFits'
    <2>1. SUFFICES ASSUME ~failed_', ~wr_close_
                   PROVE  /\ st'["write"] \in {"idle", "deflate_empty"} => (wr_cont <=> wire = "message")
                          /\ st'["write"] \in Pending =>
                               /\ w.op = "cont" <=> wire = "message"
                               /\ ~w.fin => (wr_cont <=> wire = "message")
                          /\ st'["write"] # "aborted"
      BY <1>0 DEF NextFrameFits
    <2>2. CASE st["write"] = st'["write"]
      BY <1>3, <2>1, <2>2 DEF NextFrameFits
    <2>3. CASE st["write"] \in Pending /\ st'["write"] \in Pending
      BY <1>3, <2>1, <2>3 DEF NextFrameFits, Pending
    <2>4. CASE st'["write"] = "idle" /\ st["write"] \in Finishing \cup {"deflate_empty", "aborted"}
      BY <1>3, <2>1, <2>4 DEF NextFrameFits, FramesOnWire, Pending
    <2> QED
      BY <2>1, <2>2, <2>3, <2>4 DEF QuietWrite
  <1>5. FailedAfterTeardown'
    BY <1>0 DEF FailedAfterTeardown, QuietRead, Reliable
  <1> QED
    BY <1>1, <1>2, <1>4, <1>5

\* A close frame is sent by the owner of wr_block_, so the write has no frame under way.
LEMMA CloseWire ==
  ASSUME LegalInv, wire' = "closed", wr_close_' = TRUE, UNCHANGED <<failed_, torn>>,
         st'["write"] \notin Between \cup Finishing,
         st'["read"] \notin {"do_call_handler", "do_inflate_payload"} \/ st'["read"] = st["read"]
  PROVE  Wire'
  BY DEF LegalInv, Wire, CloseOnWire, TeardownClosed, FramesOnWire, NextFrameFits, FailedAfterTeardown

\* The teardown starts after the close frame.
LEMMA TeardownWire ==
  ASSUME LegalInv, wr_close_, NEW x \in TearingDown, StartTeardown(x),
         UNCHANGED <<failed_, wr_cont, w>>
  PROVE  Wire'
  <1>1. /\ UNCHANGED <<wire, wr_close_, wr_cont, w, failed_>> /\ torn' = TRUE
        /\ st'["read"] = x /\ st'["write"] = st["write"]
    BY DEF StartTeardown, LegalInv, SafeInv, TypeInv, TypeOK, Ops
  <1>2. x \notin {"do_call_handler", "do_inflate_payload", "do_teardown", "do_fail+4"}
    BY DEF TearingDown
  <1> QED
    BY <1>1, <1>2
    DEF LegalInv, Wire, CloseOnWire, TeardownClosed, FramesOnWire, NextFrameFits, FailedAfterTeardown

\* The fields v describe a frame that fits what is on the wire.
Fits(v) ==
  /\ v.op = "cont" <=> wire = "message"
  /\ ~v.fin => (wr_cont <=> wire = "message")

\* A frame of a write that fits continues a legal stream.
LEMMA SendFrameWire ==
  ASSUME LegalInv, NEW v \in WriteOp, v.remain > 0, Fits(v), ~wr_close_, SendFrame(v),
         UNCHANGED <<wr_close_, torn>>
  PROVE  Wire'
  <1> USE DEF LegalInv, Wire
  <1>0. /\ st \in [Ops -> States] /\ "write" \in Ops /\ "read" \in Ops
        /\ wire \in {"idle", "message"} /\ v.op \in {"data", "cont"} /\ v.fin \in BOOLEAN
    BY DEF SafeInv, TypeInv, TypeOK, Ops, CloseOnWire, WriteOp
  <1>1. PICK left \in Nat : left = v.remain - 1
    BY DEF WriteOp
  <1>2. ~torn /\ (Pmd => ~failed_)
    BY DEF TeardownClosed, FailedAfterTeardown
  <1>3. v.entry = "deflate" => Pmd
    BY ConstantsAssumption DEF WriteOp, Entries, NoOp
  <1>4. failed_' = failed_ /\ w'.fin = v.fin /\ w'.op = v.op
    BY <1>2, <1>3 DEF SendFrame, Fields, SafeInv, TypeInv, TypeOK
  <1>5. st'["read"] = st["read"]
    BY <1>0 DEF SendFrame
  <1>6. CloseOnWire' /\ TeardownClosed' /\ FailedAfterTeardown'
    <2>1. wire' # "broken" /\ wire' # "closed"
      BY <1>0 DEF SendFrame, WireAfter, Fits
    <2> QED
      BY <1>2, <1>4, <1>5, <2>1 DEF CloseOnWire, TeardownClosed, FailedAfterTeardown
  <1>7. CASE v.entry = "deflate" /\ ~v.fin /\ left = 0
    <2>1. st'["write"] = "deflate_empty" /\ wr_cont' = wr_cont /\ wire' = wire
      BY <1>0, <1>1, <1>7 DEF SendFrame
    <2> QED
      BY <1>6, <1>7, <2>1 DEF FramesOnWire, NextFrameFits, Between, Finishing, Pending, Fits
  <1>8. CASE ~(v.entry = "deflate" /\ ~v.fin /\ left = 0)
    <2>1. wr_cont' = ~v.fin
      BY <1>1, <1>8 DEF SendFrame
    <2>2. \/ st'["write"] \in Between /\ wire' = "message"
          \/ st'["write"] \in Finishing /\ wire' = IF v.fin THEN "idle" ELSE "message"
      BY <1>0, <1>1, <1>8 DEF SendFrame, WireAfter, Between, Finishing, Fits
    <2> QED
      BY <1>0, <1>4, <1>6, <2>1, <2>2 DEF FramesOnWire, NextFrameFits, Between, Finishing, Pending
  <1> QED
    BY <1>7, <1>8

-----------------------------------------------------------------------------
\* A read operation that completes leaves what is on the wire alone.
LEMMA ReadUpcallWire ==
  ASSUME Reliable, LegalInv, ReadUpcall, st["read"] \notin Suspended,
         UNCHANGED <<wire, wr_close_, wr_cont, w, torn>>,
         failed_ => failed_' \/ Pmd,
         failed_' => failed_ \/ IoErrors \/ torn \/ st["read"] = "do_call_handler"
  PROVE  Wire'
  <1>1. st'["read"] = "idle" /\ WriteKept(st["write"], st'["write"])
    BY UpcallKeeps DEF ReadUpcall, LegalInv, Ops, Slots
  <1>2. QuietRead(st["read"], st'["read"]) /\ QuietWrite(st["write"], st'["write"])
    BY <1>1 DEF QuietRead, QuietWrite, WriteKept, Pending
  <1> QED
    BY <1>2, QuietWire

\* A read operation that moves on without a frame, or with a pong, does so too.
LEMMA ReadMoveWire ==
  ASSUME Reliable, LegalInv, NEW x \in ReadStates \ {"do_teardown", "do_fail+4"},
         st' = [st EXCEPT !["read"] = x],
         x = "do_call_handler" => failed_,
         x = "do_inflate_payload" => Pmd,
         UNCHANGED <<wire, wr_close_, wr_cont, w, torn, failed_>>
  PROVE  Wire'
  <1>1. st'["read"] = x /\ st'["write"] = st["write"]
    BY DEF LegalInv, SafeInv, TypeInv, TypeOK, Ops
  <1>2. QuietRead(st["read"], st'["read"]) /\ QuietWrite(st["write"], st'["write"])
    BY <1>1 DEF QuietRead, QuietWrite
  <1> QED
    BY <1>2, QuietWire

\* States of the read operation that say nothing of the wire.
Plain == {"do_read_fh", "do_control_payload", "do_read_payload", "do_pong_resume",
          "do_close_resume", "do_pong+1"}

\* A read that goes on between such states, with the wire as it was, keeps it legal.
LEMMA PlainWire ==
  ASSUME Reliable, LegalInv, NEW x \in Plain, st' = [st EXCEPT !["read"] = x],
         UNCHANGED <<wire, wr_close_, wr_cont, w, torn, failed_>>
  PROVE  Wire'
  <1>1. /\ x \in ReadStates \ {"do_teardown", "do_fail+4"}
        /\ x # "do_call_handler" /\ x # "do_inflate_payload"
    BY DEF Plain, ReadStates, Reading
  <1> QED
    BY <1>1, ReadMoveWire

\* A pong between two frames does not disturb a message.
LEMMA PongWire ==
  ASSUME Reliable, LegalInv, ~wr_close_, ReadWrites("pong", "do_pong+1"),
         UNCHANGED <<failed_, wr_close_, wr_cont, w, torn>>
  PROVE  Wire'
  <1>1. wire' = wire
    BY DEF ReadWrites, WireAfter, LegalInv, Wire, CloseOnWire
  <1> QED
    BY <1>1, PlainWire DEF ReadWrites, Plain

\* The close frame that answers the peer's ends a legal stream.
LEMMA CloseReplyWire ==
  ASSUME LegalInv, ~wr_close_, wr_block_ \in {NoOp, "read"},
         ReadWrites("close", "do_teardown"), wr_close_' = TRUE, UNCHANGED <<failed_, torn>>
  PROVE  Wire'
  <1>1. wire' = "closed"
    BY DEF ReadWrites, WireAfter, LegalInv, Wire, CloseOnWire
  <1>2. st'["write"] = st["write"] /\ st'["read"] = "do_teardown"
    BY DEF ReadWrites, LegalInv, SafeInv, TypeInv, TypeOK, Ops
  <1>3. st["write"] \notin Between \cup Finishing
    BY DEF LegalInv, SafeInv, Exclusion, BlockOwner, Between, Finishing, Holding, Writing, Ops, NoOp
  <1> QED
    BY <1>1, <1>2, <1>3, CloseWire

\* The steps of the read operation.
LEMMA ReadWire ==
  ASSUME Discipline, Reliable, LegalInv,
         \/ AsyncRead \/ ReadAborted \/ ReadError \/ PongResumed
         \/ CloseResumed \/ FailResumed \/ PongSent \/ CloseSent
         \/ ReadSendError \/ TeardownDone
         \/ \E k \in FrameKinds : ReadHeader(k)
         \/ ReadPayload \/ InflatePayload \/ ReadControl
  PROVE  Wire'
  <1>0. /\ "bad" \notin Frames
        /\ st["read"] \in Holding => wr_block_ = "read"
        /\ SafeInv
        /\ failed_ \in BOOLEAN
    BY DEF Discipline, LegalInv, SafeInv, Exclusion, BlockOwner, Ops, TypeInv, TypeOK
  <1>1. CASE AsyncRead
    <2>1. PICK x \in ReadStates \ {"do_teardown", "do_fail+4"} :
            x = IF failed_ THEN "do_call_handler" ELSE "do_read_fh"
      BY DEF ReadStates, Reading
    <2> QED
      BY <1>1, <2>1, ReadMoveWire DEF AsyncRead, streamVars
  <1>2. CASE ReadAborted \/ ReadError \/ ReadSendError \/ TeardownDone
    <2>1. st["read"] \notin Suspended
      BY <1>2 DEF ReadAborted, ReadError, ReadSendError, TeardownDone, Suspended, Reading, TearingDown
    <2> QED
      BY <1>2, <2>1, ReadUpcallWire DEF ReadAborted, ReadError, ReadSendError, TeardownDone
  <1>3. CASE PongResumed
    <2>1. st["read"] \notin Suspended
      BY <1>3 DEF PongResumed, Suspended
    <2>2. CASE ReadUpcall /\ UNCHANGED wire
      BY <1>3, <2>1, <2>2, ReadUpcallWire DEF PongResumed
    <2>3. CASE st' = [st EXCEPT !["read"] = "do_read_fh"] /\ UNCHANGED wire
      BY <1>3, <2>3, PlainWire DEF PongResumed, Plain
    <2>4. CASE ~wr_close_ /\ ReadWrites("pong", "do_pong+1")
      BY <1>3, <2>4, PongWire DEF PongResumed
    <2> QED
      BY <1>3, <2>2, <2>3, <2>4 DEF PongResumed
  <1>4. CASE CloseResumed
    <2>1. st["read"] \notin Suspended /\ wr_block_ = "read"
      BY <1>0, <1>4 DEF CloseResumed, Suspended, Holding
    <2>2. CASE ReadUpcall /\ UNCHANGED <<wr_close_, wire>>
      BY <1>4, <2>1, <2>2, ReadUpcallWire DEF CloseResumed
    <2>3. CASE ~wr_close_ /\ ReadWrites("close", "do_teardown") /\ wr_close_' = TRUE
      BY <1>4, <2>1, <2>3, CloseReplyWire DEF CloseResumed
    <2> QED
      BY <1>4, <2>2, <2>3 DEF CloseResumed
  <1>5. CASE FailResumed
    BY <1>0, <1>5 DEF FailResumed, SafeInv, Exclusion, NoFail
  <1>6. CASE PongSent
    BY <1>6, PlainWire DEF PongSent, Plain
  <1>7. CASE CloseSent
    <2>1. wr_close_
      BY <1>7 DEF CloseSent, LegalInv, Wire, TeardownClosed
    <2> QED
      BY <1>7, <2>1, TeardownWire DEF CloseSent, TearingDown
  <1>8. ASSUME NEW k \in FrameKinds, ReadHeader(k) PROVE Wire'
    <2>1. st["read"] \notin Suspended /\ k # "bad" /\ UNCHANGED <<wr_cont, w>>
      BY <1>0, <1>8 DEF ReadHeader, Suspended
    <2>2. CASE /\ \E x \in {"do_control_payload"} \cup PayloadStates : st' = [st EXCEPT !["read"] = x]
               /\ UNCHANGED <<failed_, wr_close_, wr_block_, parked, torn, wire, ok>>
      <3>1. PICK x \in {"do_control_payload"} \cup PayloadStates : st' = [st EXCEPT !["read"] = x]
        BY <2>2
      <3>2. /\ x \in ReadStates \ {"do_teardown", "do_fail+4"} /\ x # "do_call_handler"
            /\ x = "do_inflate_payload" => Pmd
        BY <3>1 DEF PayloadStates, ReadStates, Reading
      <3> QED
        BY <2>1, <2>2, <3>1, <3>2, ReadMoveWire
    <2>3. CASE ReadUpcall /\ UNCHANGED <<failed_, wr_close_, fh, torn, wire>>
      BY <2>1, <2>3, ReadUpcallWire
    <2>4. CASE Pmd /\ Inflated
      BY <1>0, <2>1, <2>4, ReadUpcallWire DEF Inflated
    <2> QED
      BY <1>8, <2>1, <2>2, <2>3, <2>4 DEF ReadHeader
  <1>9. CASE ReadPayload
    BY <1>0, <1>9, ReadUpcallWire DEF ReadPayload, Suspended
  <1>10. CASE InflatePayload
    <2>1. Pmd /\ st["read"] \notin Suspended
      BY <1>10, ConstantsAssumption DEF InflatePayload, LegalInv, Wire, FailedAfterTeardown, Suspended
    <2>2. CASE /\ failed_' = FALSE
               /\ UNCHANGED <<wr_close_, wr_block_, parked, st, torn, wire, ok>>
      <3>1. QuietRead(st["read"], st'["read"]) /\ QuietWrite(st["write"], st'["write"])
        BY <2>2 DEF QuietRead, QuietWrite
      <3> QED
        BY <1>10, <2>1, <2>2, <3>1, QuietWire DEF InflatePayload
    <2>3. CASE Inflated
      BY <1>0, <1>10, <2>1, <2>3, ReadUpcallWire DEF Inflated, InflatePayload
    <2> QED
      BY <1>10, <2>2, <2>3 DEF InflatePayload
  <1>11. CASE ReadControl
    <2>1. UNCHANGED <<wr_cont, w>>
      BY <1>11 DEF ReadControl
    <2>2. CASE /\ st' = [st EXCEPT !["read"] = "do_read_fh"]
               /\ UNCHANGED <<failed_, wr_close_, torn, wire>>
      BY <2>1, <2>2, PlainWire DEF Plain
    <2>3. CASE /\ \/ Emplace("read", "rd_op_", "do_pong_resume")
                  \/ Emplace("read", "rd_op_", "do_close_resume")
               /\ UNCHANGED <<failed_, wr_close_, torn, wire>>
      BY <2>1, <2>3, PlainWire DEF Emplace, Plain
    <2>4. CASE ~wr_close_ /\ ReadWrites("pong", "do_pong+1") /\ UNCHANGED <<failed_, wr_close_, torn>>
      BY <2>1, <2>4, PongWire
    <2>5. CASE wr_close_ /\ StartTeardown("do_teardown+1") /\ UNCHANGED failed_
      BY <2>1, <2>5, TeardownWire DEF TearingDown
    <2>6. CASE /\ ~wr_close_ /\ wr_block_ = NoOp /\ ReadWrites("close", "do_teardown")
               /\ wr_close_' = TRUE /\ UNCHANGED <<failed_, torn>>
      BY <2>6, CloseReplyWire
    <2> QED
      BY <1>0, <1>11, <2>2, <2>3, <2>4, <2>5, <2>6 DEF ReadControl
  <1> QED
    BY <1>1, <1>2, <1>3, <1>4, <1>5, <1>6, <1>7, <1>8, <1>9, <1>10, <1>11

-----------------------------------------------------------------------------
\* do_maybe_suspend preserves Wire when the next frame fits.
LEMMA MaybeSuspendWire ==
  ASSUME LegalInv, NEW v \in WriteOp, v.remain > 0, MaybeSuspend(v), torn' = torn,
         ~failed_ /\ ~wr_close_ => Fits(v)
  PROVE  Wire'
  <1>0. st \in [Ops -> States] /\ "write" \in Ops /\ "read" \in Ops
    BY DEF LegalInv, SafeInv, TypeInv, TypeOK, Ops
  <1>1. ASSUME NEW x \in {"do_maybe_suspend+1", "aborted"}, st' = [st EXCEPT !["write"] = x],
               w' = v, UNCHANGED <<streamVars, wire>>,
               x = "aborted" => failed_ \/ wr_close_
        PROVE  Wire'
    <2>1. st'["write"] = x /\ st'["read"] = st["read"]
      BY <1>0, <1>1
    <2>2. UNCHANGED <<failed_, wr_close_, wr_cont, wire, torn>> /\ w' = v
      BY <1>1 DEF streamVars
    <2>3. CloseOnWire' /\ TeardownClosed' /\ FailedAfterTeardown'
      BY <2>1, <2>2 DEF LegalInv, Wire, CloseOnWire, TeardownClosed, FailedAfterTeardown
    <2>4. FramesOnWire' /\ NextFrameFits'
      BY <1>1, <2>1, <2>2 DEF FramesOnWire, NextFrameFits, Between, Finishing, Pending, Fits
    <2> QED
      BY <2>3, <2>4 DEF Wire
  <1>2. CASE Emplace("write", "wr_op_", "do_maybe_suspend+1") /\ w' = v /\ UNCHANGED <<streamVars, wire>>
    BY <1>1, <1>2 DEF Emplace
  <1>3. CASE /\ failed_ \/ wr_close_
             /\ st' = [st EXCEPT !["write"] = "aborted"]
             /\ w' = v /\ UNCHANGED <<streamVars, wire>>
    BY <1>1, <1>3
  <1>4. CASE ~failed_ /\ ~wr_close_ /\ SendFrame(v) /\ wr_close_' = wr_close_
    BY <1>4, SendFrameWire
  <1> QED
    BY <1>2, <1>3, <1>4 DEF MaybeSuspend

\* The steps of the write operation.
LEMMA WriteWire ==
  ASSUME Reliable, LegalInv,
         \/ \E fin \in BOOLEAN, e \in Entries, n \in 1 .. MaxWrites : AsyncWrite(fin, e, n)
         \/ WriteHandler
  PROVE  Wire'
  <1>0. /\ st \in [Ops -> States] /\ "write" \in Ops /\ "read" \in Ops
        /\ w \in WriteOp /\ SafeInv /\ failed_ \in BOOLEAN /\ wr_close_ \in BOOLEAN
    BY DEF LegalInv, SafeInv, TypeInv, TypeOK, Ops, WriteOp
  <1>1. ASSUME WriteUpcall, st["write"] \notin Suspended,
               UNCHANGED <<wire, wr_close_, wr_cont, w, torn>>, failed_ => failed_',
               failed_' => failed_ \/ IoErrors \/ torn,
               st["write"] \in Finishing \cup {"deflate_empty", "aborted"} \/ failed_' \/ wr_close_
        PROVE  Wire'
    <2>1. st'["write"] = "idle" /\ ReadKept(st["read"], st'["read"])
      BY <1>0, <1>1, UpcallKeeps DEF WriteUpcall, Slots
    <2>2. QuietRead(st["read"], st'["read"]) /\ QuietWrite(st["write"], st'["write"])
      BY <1>1, <2>1 DEF QuietRead, QuietWrite, ReadKept
    <2> QED
      BY <1>1, <2>2, QuietWire
  <1>2. st["write"] \in Unfinished => w.remain > 0
    BY DEF LegalInv, SafeInv, TypeInv, RemainPositive
  <1>3. ASSUME NEW fin \in BOOLEAN, NEW e \in Entries, NEW n \in 1 .. MaxWrites,
               AsyncWrite(fin, e, n)
        PROVE  Wire'
    <2>1. PICK v \in WriteOp : /\ v.remain > 0 /\ MaybeSuspend(v)
                               /\ v.op = IF wr_cont THEN "cont" ELSE "data"
      BY <1>3, ConstantsAssumption DEF AsyncWrite, WriteOp
    <2>2. ~failed_ /\ ~wr_close_ => Fits(v)
      BY <1>3, <2>1 DEF AsyncWrite, MayStart, LegalInv, Wire, NextFrameFits, Fits
    <2> QED
      BY <1>3, <2>1, <2>2, MaybeSuspendWire DEF AsyncWrite
  <1>4. CASE WriteAborted \/ WriteDone
    BY <1>1, <1>4 DEF WriteAborted, WriteDone, Suspended, Finishing
  <1>5. CASE WriteError
    BY <1>1, <1>5 DEF WriteError, Suspended, Writing
  <1>6. CASE WriteYielded
    <2>1. w.remain > 0 /\ (~failed_ /\ ~wr_close_ => Fits(w))
      BY <1>2, <1>6 DEF WriteYielded, Unfinished, LegalInv, Wire, NextFrameFits, Pending, Fits
    <2>2. PICK v \in WriteOp : v.remain > 0 /\ MaybeSuspend(v) /\ (~failed_ /\ ~wr_close_ => Fits(v))
      BY <1>0, <1>6, <2>1 DEF WriteYielded
    <2> QED
      BY <1>6, <2>2, MaybeSuspendWire DEF WriteYielded
  <1>7. CASE WriteResumed
    <2>1. w.remain > 0 /\ st["write"] \notin Suspended /\ (~failed_ /\ ~wr_close_ => Fits(w))
      BY <1>2, <1>7 DEF WriteResumed, Unfinished, LegalInv, Wire, NextFrameFits, Pending, Fits, Suspended
    <2>2. CASE (failed_ \/ wr_close_) /\ WriteUpcall /\ UNCHANGED <<failed_, wr_cont, w, wire>>
      BY <1>1, <1>7, <2>1, <2>2 DEF WriteResumed
    <2>3. CASE ~failed_ /\ ~wr_close_ /\ SendFrame(w)
      <3>1. PICK v \in WriteOp : v.remain > 0 /\ SendFrame(v) /\ Fits(v)
        BY <1>0, <2>1, <2>3
      <3> QED
        BY <1>7, <2>3, <3>1, SendFrameWire DEF WriteResumed
    <2> QED
      BY <1>7, <2>2, <2>3 DEF WriteResumed
  <1>8. CASE WritePart
    <2>1. /\ st["write"] \in Finishing /\ st'["write"] \in Finishing
          /\ st'["read"] = st["read"] /\ w'.fin = w.fin
          /\ UNCHANGED <<wire, wr_close_, wr_cont, torn, failed_>>
      BY <1>0, <1>8 DEF WritePart, Finishing, Fields, streamVars
    <2> QED
      BY <2>1 DEF LegalInv, Wire, CloseOnWire, TeardownClosed, FramesOnWire, NextFrameFits,
         FailedAfterTeardown, Finishing, Between, Pending
  <1>9. CASE WriteBetween
    <2>1. /\ st["write"] \in Between /\ st["write"] \notin Suspended
          /\ wire = "message" /\ (wr_cont <=> ~w.fin)
          /\ ~wr_close_ /\ w.remain > 0
      BY <1>0, <1>2, <1>9 DEF WriteBetween, LegalInv, Wire, FramesOnWire, CloseOnWire, Between,
         Suspended, Unfinished
    <2>2. PICK v \in WriteOp : /\ v = Fields(w, "cont", w.remain)
                               /\ v.remain = w.remain /\ v.op = "cont" /\ v.fin = w.fin
      <3>1. Fields(w, "cont", w.remain) \in WriteOp
        BY <1>0 DEF Fields, WriteOp
      <3> QED
        BY <3>1 DEF Fields
    <2>3. Fits(v)
      <3>1. v.fin \in BOOLEAN
        BY <2>2 DEF WriteOp
      <3> QED
        BY <2>1, <2>2, <3>1 DEF Fits
    <2>4. CASE FirstEngaged("rd_op_", "ping_op_") # NoOp
      <3>1. PICK s \in Slots : s = FirstEngaged("rd_op_", "ping_op_") /\ parked[s] # NoOp
        BY <2>4 DEF FirstEngaged, Slots
      <3>2. PICK p \in Ops : p = parked[s] /\ p # "write" /\ st[p] \in Suspended
        BY <2>1, <3>1 DEF LegalInv, SafeInv, TypeInv, TypeOK, ParkedSuspended
      <3>3. PICK y : y = Resumed(st[p])
        OBVIOUS
      <3>4. /\ st' = [st EXCEPT !["write"] = "do_maybe_suspend", ![p] = y]
            /\ w' = v
            /\ UNCHANGED <<failed_, wr_cont, wire, wr_close_, torn>>
        BY <1>9, <2>2, <2>4, <3>1, <3>2, <3>3 DEF WriteBetween, Invoke
      <3>5. st'["write"] = "do_maybe_suspend" /\ (p # "read" => st'["read"] = st["read"])
            /\ (p = "read" => st'["read"] = y)
        BY <1>0, <3>2, <3>4
      <3>6. y \notin {"do_teardown", "do_fail+4", "do_call_handler", "do_inflate_payload"}
        BY <3>3 DEF Resumed
      <3>7. CloseOnWire' /\ TeardownClosed' /\ FailedAfterTeardown'
        BY <3>4, <3>5, <3>6 DEF LegalInv, Wire, CloseOnWire, TeardownClosed, FailedAfterTeardown
      <3>8. FramesOnWire' /\ NextFrameFits'
        BY <2>3, <3>4, <3>5 DEF FramesOnWire, NextFrameFits, Between, Finishing, Pending, Fits
      <3> QED
        BY <3>7, <3>8 DEF Wire
    <2>5. CASE FirstEngaged("rd_op_", "ping_op_") = NoOp
      <3>1. SendFrame(v) /\ UNCHANGED <<wr_close_, torn>>
        BY <1>9, <2>2, <2>5 DEF WriteBetween, SendFrame
      <3> QED
        BY <2>1, <2>2, <2>3, <3>1, SendFrameWire
    <2> QED
      BY <2>4, <2>5
  <1> QED
    BY <1>3, <1>4, <1>5, <1>6, <1>7, <1>8, <1>9 DEF WriteHandler

\* The steps of a ping or a close.
LEMMA ControlWire ==
  ASSUME Reliable, LegalInv, NEW o \in {"ping", "close"}, AsyncControl(o) \/ ControlHandler(o)
  PROVE  Wire'
  <1>0. /\ st \in [Ops -> States] /\ "write" \in Ops /\ "read" \in Ops /\ o \in Ops
        /\ SafeInv /\ wr_close_ \in BOOLEAN
        /\ st[o] \in Holding => wr_block_ = o
    BY DEF LegalInv, SafeInv, TypeInv, TypeOK, Ops, Exclusion, BlockOwner
  <1>1. ASSUME ControlUpcall(o), st[o] \notin Suspended,
               UNCHANGED <<wire, wr_close_, wr_cont, w, torn>>, failed_ => failed_',
               failed_' => failed_ \/ IoErrors \/ torn
        PROVE  Wire'
    <2>1. ReadKept(st["read"], st'["read"]) /\ WriteKept(st["write"], st'["write"])
      BY <1>0, <1>1, UpcallKeeps DEF ControlUpcall, PingUpcall, CloseUpcall, Slots
    <2>2. QuietRead(st["read"], st'["read"]) /\ QuietWrite(st["write"], st'["write"])
      BY <2>1 DEF QuietRead, QuietWrite, ReadKept, WriteKept, Pending
    <2> QED
      BY <1>1, <2>2, QuietWire
  <1>2. ASSUME NEW x, st' = [st EXCEPT ![o] = x], UNCHANGED <<wire, wr_close_, wr_cont, w, torn, failed_>>
        PROVE  Wire'
    <2>1. QuietRead(st["read"], st'["read"]) /\ QuietWrite(st["write"], st'["write"])
      BY <1>0, <1>2 DEF QuietRead, QuietWrite
    <2> QED
      BY <1>2, <2>1, QuietWire
  <1>3. ASSUME SendControl(o), ~wr_close_, wr_block_ \in {NoOp, o},
               UNCHANGED <<failed_, wr_cont, w, torn>>
        PROVE  Wire'
    <2>1. st' = [st EXCEPT ![o] = "99"]
      BY <1>3 DEF SendControl
    <2>2. CASE o = "ping"
      <3>1. wire' = wire /\ wr_close_' = wr_close_
        BY <1>0, <1>3, <2>2 DEF SendControl, WireAfter, LegalInv, Wire, CloseOnWire
      <3> QED
        BY <1>2, <1>3, <2>1, <3>1
    <2>3. CASE o = "close"
      <3>1. wire' = "closed" /\ wr_close_' = TRUE
        BY <1>0, <1>3, <2>3 DEF SendControl, WireAfter, LegalInv, Wire, CloseOnWire
      <3>2. st'["write"] = st["write"] /\ st'["read"] = st["read"]
        BY <1>0, <2>1, <2>3
      <3>3. st["write"] \notin Between \cup Finishing
        BY <1>3, <2>3 DEF LegalInv, SafeInv, Exclusion, BlockOwner, Between, Finishing, Holding,
           Writing, Ops, NoOp
      <3> QED
        BY <1>3, <3>1, <3>2, <3>3, CloseWire
    <2> QED
      BY <2>2, <2>3
  <1>4. CASE AsyncControl(o)
    <2>1. UNCHANGED <<failed_, wr_cont, w, torn>>
      BY <1>4 DEF AsyncControl
    <2>2. CASE Emplace(o, ControlSlot(o), "2") /\ UNCHANGED <<wr_close_, wr_block_, wire>>
      BY <1>2, <2>1, <2>2 DEF Emplace
    <2>3. CASE /\ st' = [st EXCEPT ![o] = "aborted"]
               /\ UNCHANGED <<wr_close_, wr_block_, parked, wire, ok>>
      BY <1>2, <2>1, <2>3
    <2>4. CASE wr_block_ = NoOp /\ ~wr_close_ /\ SendControl(o)
      BY <1>3, <2>1, <2>4
    <2> QED
      BY <1>4, <2>2, <2>3, <2>4 DEF AsyncControl
  <1>5. CASE ControlResumed(o)
    <2>1. st[o] \notin Suspended /\ wr_block_ = o /\ UNCHANGED <<failed_, wr_cont, w, torn>>
      BY <1>0, <1>5 DEF ControlResumed, Suspended, Holding
    <2>2. CASE ControlUpcall(o) /\ UNCHANGED <<wr_close_, wire>>
      BY <1>1, <2>1, <2>2
    <2>3. CASE ~wr_close_ /\ SendControl(o)
      BY <1>3, <2>1, <2>3
    <2> QED
      BY <1>5, <2>2, <2>3 DEF ControlResumed
  <1>6. CASE ControlDone(o) \/ ControlError(o)
    BY <1>1, <1>6 DEF ControlDone, ControlError, Suspended
  <1> QED
    BY <1>4, <1>5, <1>6 DEF ControlHandler

\* LegalInv is inductive.
LEMMA LegalInvStep ==
  ASSUME Discipline, Reliable
  PROVE  LegalInv /\ [Next]_vars => LegalInv'
  <1> SUFFICES ASSUME LegalInv, [Next]_vars PROVE LegalInv'
    OBVIOUS
  <1>1. SafeInv'
    BY SafeInvStep DEF LegalInv
  <1>2. CASE Open
    <2>1. st["write"] = "idle" /\ st["read"] = "idle"
      BY <1>2 DEF Open, Active, Ops
    <2> QED
      BY <1>1, <1>2, <2>1 DEF Open, LegalInv, Wire, CloseOnWire, TeardownClosed, FramesOnWire,
         NextFrameFits, FailedAfterTeardown, Between, Finishing, Pending
  <1>3. CASE UNCHANGED vars
    BY <1>1, <1>3 DEF vars, streamVars, LegalInv, Wire, CloseOnWire, TeardownClosed, FramesOnWire,
       NextFrameFits, FailedAfterTeardown
  <1>4. CASE Next /\ ~Open
    BY <1>1, <1>4, ReadWire, WriteWire, ControlWire
    DEF Next, ReadHandler, AsyncPing, PingHandler, AsyncClose, CloseHandler, LegalInv
  <1> QED
    BY <1>2, <1>3, <1>4

\* The stream that open() leaves behind satisfies SafeInv.
LEMMA InitSafeInv == Init => SafeInv
  BY InitTypeInv, StateSets DEF Init, SafeInv, Exclusion, OneWriterActive, BlockOwner, NoFail, Ops

\* And LegalInv: nothing is on the wire yet.
LEMMA InitLegalInv == Init => LegalInv
  <1> SUFFICES ASSUME Init PROVE LegalInv
    OBVIOUS
  <1>1. Wire
    BY DEF Init, Wire, CloseOnWire, TeardownClosed, FramesOnWire, NextFrameFits,
       FailedAfterTeardown, Between, Finishing, Pending, Ops
  <1> QED
    BY <1>1, InitSafeInv DEF LegalInv

\* An application that keeps to one read and one write at a time and a peer that makes
\* no protocol error: whatever is interleaved, split into frames, suspended, resumed or
\* closed, what is on the wire is a legal RFC 6455 stream, wr_.cont agrees with it and
\* the teardown comes after a close frame.  With permessage-deflate the next layer must
\* not fail while it is open: inflate and deflate reset failed_.
THEOREM WireIsLegal ==
  ASSUME Discipline, Reliable
  PROVE  Spec => []LegalStream
  <1>1. Init => LegalInv
    BY InitLegalInv
  <1>2. LegalInv => LegalStream
    <2> SUFFICES ASSUME LegalInv PROVE LegalStream
      OBVIOUS
    <2>1. WireGrammar /\ ContMatchesWire
      BY DEF LegalInv, Wire, CloseOnWire, NextFrameFits, WireGrammar, ContMatchesWire
    <2>2. st["write"] \in Writing => st["write"] \in Between \cup Finishing
      BY DEF LegalInv, SafeInv, TypeInv, OwnStates, WriteStates, Unfinished, Writing, Between, Finishing
    <2>3. TeardownAfterClose
      BY <2>2 DEF LegalInv, Wire, CloseOnWire, TeardownClosed, FramesOnWire, TeardownAfterClose
    <2> QED
      BY <2>1, <2>3 DEF LegalStream
  <1> QED
    BY <1>1, <1>2, LegalInvStep, PTL DEF Spec

-----------------------------------------------------------------------------
\* While a reply of the read operation waits, somebody holds wr_block_.
ReplyWaits == parked["rd_op_"] # NoOp => wr_block_ # NoOp
ReplyInv == SafeInv /\ ReplyWaits

\* What one step does to a waiting reply: the step of RepliesGoNext.
ReplyStep ==
  parked["rd_op_"] # NoOp /\ parked'["rd_op_"] # NoOp =>
    /\ wr_block_' = wr_block_
    /\ st[wr_block_] \in Writing => wire' = wire

\* No BOOST_ASSERT of pausation fails, so a resumed operation takes wr_block_.
LEMMA ResumedTakes ==
  ASSUME SafeInv, NEW s \in Slots, parked[s] # NoOp
  PROVE  TakesBlock(st[parked[s]]) /\ parked[s] \in Ops /\ st[parked[s]] \in Suspended
  <1>1. parked[s] \in Ops /\ st[parked[s]] \in Suspended
    BY DEF SafeInv, TypeInv, TypeOK, ParkedSuspended
  <1>2. CASE parked[s] = "read"
    BY <1>1, <1>2 DEF SafeInv, Exclusion, NoFail, TakesBlock
  <1>3. CASE parked[s] # "read"
    BY <1>1, <1>3 DEF SafeInv, TypeInv, OwnStates, WriteStates, ControlStates, Unfinished, Ops,
       TakesBlock, Suspended
  <1> QED
    BY <1>1, <1>2, <1>3

\* An operation but the read one resumes a waiting reply first when it completes.
LEMMA UpcallReply ==
  ASSUME NEW b \in Slots, NEW o \in Ops, SafeInv, Upcall("rd_op_", b, o)
  PROVE  parked'["rd_op_"] = NoOp
  <1>0. parked \in [Slots -> Ops \cup {NoOp}] /\ "rd_op_" \in Slots /\ NoOp \notin Slots
    BY DEF SafeInv, TypeInv, TypeOK, Slots, NoOp
  <1>1. CASE parked["rd_op_"] # NoOp
    <2>1. FirstEngaged("rd_op_", b) = "rd_op_"
      BY <1>1 DEF FirstEngaged
    <2> QED
      BY <1>0, <2>1 DEF Upcall, Invoke
  <1>2. CASE parked["rd_op_"] = NoOp
    <2>1. PICK s \in Slots \cup {NoOp} : s = FirstEngaged("rd_op_", b)
      BY <1>0 DEF FirstEngaged
    <2> QED
      BY <1>0, <1>2, <2>1 DEF Upcall, Invoke
  <1> QED
    BY <1>1, <1>2

\* A waiting reply is left alone by what neither invokes a pausation nor gives up
\* wr_block_, and the frame under way by what sends none.
LEMMA KeepReply ==
  ASSUME ReplyInv, parked'["rd_op_"] = parked["rd_op_"], wr_block_' = wr_block_, wire' = wire
  PROVE  ReplyWaits' /\ ReplyStep
  BY DEF ReplyInv, ReplyWaits, ReplyStep

\* The owner of wr_block_ sends a frame while it has none under way.
LEMMA OwnerReply ==
  ASSUME ReplyInv, NEW o \in Ops, wr_block_ = o \/ parked["rd_op_"] = NoOp, st[o] \notin Writing,
         parked' = parked, wr_block_' = o
  PROVE  ReplyWaits' /\ ReplyStep
  BY DEF ReplyInv, ReplyWaits, ReplyStep, Ops, NoOp

\* The steps of the read operation: none while its reply waits.
LEMMA ReadReply ==
  ASSUME Discipline, ReplyInv,
         \/ AsyncRead \/ ReadAborted \/ ReadError \/ PongResumed
         \/ CloseResumed \/ FailResumed \/ PongSent \/ CloseSent
         \/ ReadSendError \/ TeardownDone
         \/ \E k \in FrameKinds : ReadHeader(k)
         \/ ReadPayload \/ InflatePayload \/ ReadControl
  PROVE  ReplyWaits' /\ ReplyStep
  <1>0. /\ parked \in [Slots -> Ops \cup {NoOp}] /\ "rd_op_" \in Slots
        /\ "bad" \notin Frames /\ st["read"] # "do_fail+3"
    BY DEF ReplyInv, SafeInv, TypeInv, TypeOK, Slots, Discipline, Exclusion, NoFail
  <1>1. st["read"] \notin Suspended
    BY DEF AsyncRead, MayStart, ReadAborted, ReadError, PongResumed, CloseResumed, FailResumed,
       PongSent, CloseSent, ReadSendError, TeardownDone, ReadHeader, ReadPayload, InflatePayload,
       ReadControl, Suspended, Reading, TearingDown
  <1>2. parked["rd_op_"] = NoOp
    BY <1>0, <1>1 DEF ReplyInv, SafeInv, TypeInv, ParkedSuspended
  <1>3. parked'["rd_op_"] # NoOp => wr_block_' # NoOp
    <2>1. CASE ReadUpcall
      <3>1. PICK s \in {"ping_op_", "wr_op_", NoOp} : s = FirstEngaged("ping_op_", "wr_op_")
        BY DEF FirstEngaged
      <3> QED
        BY <1>0, <1>2, <2>1, <3>1 DEF ReadUpcall, Upcall, Invoke, Slots, NoOp
    <2>2. CASE UNCHANGED parked
      BY <1>2, <2>2
    <2>3. CASE wr_block_ # NoOp /\ UNCHANGED wr_block_
      BY <2>3
    <2>4. \/ ReadUpcall \/ UNCHANGED parked
          \/ wr_block_ # NoOp /\ UNCHANGED wr_block_
      BY <1>0 DEF AsyncRead, ReadAborted, ReadError, PongResumed, CloseResumed, FailResumed,
         PongSent, CloseSent, ReadSendError, TeardownDone, ReadHeader, ReadPayload, InflatePayload,
         ReadControl, Inflated, ReadWrites, StartTeardown
    <2> QED
      BY <2>1, <2>2, <2>3, <2>4
  <1> QED
    BY <1>2, <1>3 DEF ReplyWaits, ReplyStep

\* The steps of the write operation: a waiting reply goes before its next frame.
LEMMA WriteReply ==
  ASSUME ReplyInv,
         \/ \E fin \in BOOLEAN, e \in Entries, n \in 1 .. MaxWrites : AsyncWrite(fin, e, n)
         \/ WriteHandler
  PROVE  ReplyWaits' /\ ReplyStep
  <1>0. /\ parked \in [Slots -> Ops \cup {NoOp}] /\ {"rd_op_", "wr_op_", "ping_op_"} \subseteq Slots
        /\ "write" \in Ops /\ SafeInv /\ NoOp \notin Slots
        /\ st["write"] \in Holding => wr_block_ = "write"
    BY DEF ReplyInv, SafeInv, TypeInv, TypeOK, Slots, Ops, Exclusion, BlockOwner, NoOp
  <1>1. CASE WriteUpcall
    BY <1>0, <1>1, UpcallReply DEF WriteUpcall, ReplyWaits, ReplyStep
  <1>2. ASSUME NEW v, MaybeSuspend(v), st["write"] \notin Writing PROVE ReplyWaits' /\ ReplyStep
    <2>1. CASE Emplace("write", "wr_op_", "do_maybe_suspend+1") /\ UNCHANGED <<streamVars, wire>>
      BY <1>0, <2>1, KeepReply DEF Emplace, streamVars
    <2>2. CASE UNCHANGED <<streamVars, parked, wire, ok>>
      BY <2>2, KeepReply DEF streamVars
    <2>3. CASE wr_block_ = NoOp /\ SendFrame(v) /\ UNCHANGED parked
      <3>1. parked["rd_op_"] = NoOp
        BY <2>3 DEF ReplyInv, ReplyWaits
      <3> QED
        BY <1>0, <1>2, <2>3, <3>1, OwnerReply DEF SendFrame
    <2> QED
      BY <1>2, <2>1, <2>2, <2>3 DEF MaybeSuspend
  <1>3. ASSUME NEW fin \in BOOLEAN, NEW e \in Entries, NEW n \in 1 .. MaxWrites,
               AsyncWrite(fin, e, n)
        PROVE  ReplyWaits' /\ ReplyStep
    <2>1. PICK v : MaybeSuspend(v)
      BY <1>3 DEF AsyncWrite
    <2>2. st["write"] \notin Writing
      BY <1>3 DEF AsyncWrite, MayStart, Writing
    <2> QED
      BY <1>2, <2>1, <2>2
  <1>4. CASE WriteAborted \/ WriteError \/ WriteDone
    BY <1>1, <1>4 DEF WriteAborted, WriteError, WriteDone
  <1>5. CASE WriteYielded
    <2>1. PICK v : MaybeSuspend(v)
      BY <1>5 DEF WriteYielded
    <2>2. st["write"] \notin Writing
      BY <1>5 DEF WriteYielded, Writing
    <2> QED
      BY <1>2, <2>1, <2>2
  <1>6. CASE WriteResumed
    <2>1. st["write"] \notin Writing /\ wr_block_ = "write"
      BY <1>0, <1>6 DEF WriteResumed, Writing, Holding
    <2>2. CASE SendFrame(w) /\ UNCHANGED parked
      BY <1>0, <2>1, <2>2, OwnerReply DEF SendFrame
    <2> QED
      BY <1>1, <1>6, <2>2 DEF WriteResumed
  <1>7. CASE WritePart
    BY <1>7, KeepReply DEF WritePart, streamVars
  <1>8. CASE WriteBetween
    <2>1. CASE parked["rd_op_"] # NoOp
      <3>1. FirstEngaged("rd_op_", "ping_op_") = "rd_op_"
        BY <2>1 DEF FirstEngaged
      <3>2. parked'["rd_op_"] = NoOp
        BY <1>0, <1>8, <3>1 DEF WriteBetween, Invoke
      <3> QED
        BY <3>2 DEF ReplyWaits, ReplyStep
    <2>2. CASE parked["rd_op_"] = NoOp
      <3>1. PICK s \in {"ping_op_", NoOp} : s = FirstEngaged("rd_op_", "ping_op_")
        BY <2>2 DEF FirstEngaged
      <3>2. parked'["rd_op_"] = NoOp
        BY <1>0, <1>8, <2>2, <3>1 DEF WriteBetween, Invoke
      <3> QED
        BY <3>2 DEF ReplyWaits, ReplyStep
    <2> QED
      BY <2>1, <2>2
  <1> QED
    BY <1>3, <1>4, <1>5, <1>6, <1>7, <1>8 DEF WriteHandler

\* The steps of a ping or a close.
LEMMA ControlReply ==
  ASSUME ReplyInv, NEW o \in {"ping", "close"}, AsyncControl(o) \/ ControlHandler(o)
  PROVE  ReplyWaits' /\ ReplyStep
  <1>0. /\ parked \in [Slots -> Ops \cup {NoOp}] /\ {"rd_op_", "wr_op_", "ping_op_"} \subseteq Slots
        /\ o \in Ops /\ SafeInv
        /\ st[o] \in Holding => wr_block_ = o
    BY DEF ReplyInv, SafeInv, TypeInv, TypeOK, Slots, Ops, Exclusion, BlockOwner
  <1>1. CASE ControlUpcall(o)
    BY <1>0, <1>1, UpcallReply DEF ControlUpcall, PingUpcall, CloseUpcall, ReplyWaits, ReplyStep
  <1>2. CASE AsyncControl(o)
    <2>1. CASE Emplace(o, ControlSlot(o), "2") /\ UNCHANGED <<wr_close_, wr_block_, wire>>
      BY <1>0, <2>1, KeepReply DEF Emplace, ControlSlot
    <2>2. CASE UNCHANGED <<wr_close_, wr_block_, parked, wire, ok>>
      BY <2>2, KeepReply
    <2>3. CASE wr_block_ = NoOp /\ SendControl(o)
      <3>1. parked["rd_op_"] = NoOp /\ st[o] \notin Writing
        BY <1>2, <2>3 DEF ReplyInv, ReplyWaits, AsyncControl, MayStart, Writing
      <3> QED
        BY <1>0, <2>3, <3>1, OwnerReply DEF SendControl
    <2> QED
      BY <1>2, <2>1, <2>2, <2>3 DEF AsyncControl
  <1>3. CASE ControlResumed(o)
    <2>1. st[o] \notin Writing /\ wr_block_ = o
      BY <1>0, <1>3 DEF ControlResumed, Writing, Holding
    <2>2. CASE SendControl(o)
      BY <1>0, <2>1, <2>2, OwnerReply DEF SendControl
    <2> QED
      BY <1>1, <1>3, <2>2 DEF ControlResumed
  <1>4. CASE ControlDone(o) \/ ControlError(o)
    BY <1>1, <1>4 DEF ControlDone, ControlError
  <1> QED
    BY <1>2, <1>3, <1>4 DEF ControlHandler

\* ReplyInv is inductive and every step treats a waiting reply as RepliesGoNext says.
LEMMA ReplyInvStep ==
  ASSUME Discipline
  PROVE  ReplyInv /\ [Next]_vars => ReplyInv' /\ [ReplyStep]_vars
  <1> SUFFICES ASSUME ReplyInv, [Next]_vars PROVE ReplyInv' /\ [ReplyStep]_vars
    OBVIOUS
  <1>1. SafeInv'
    BY SafeInvStep DEF ReplyInv
  <1>2. CASE Open
    <2>1. parked["rd_op_"] = NoOp
      <3>1. st["read"] = "idle" /\ "rd_op_" \in Slots
        BY <1>2 DEF Open, Active, Ops, Slots
      <3> QED
        BY <3>1, StateSets DEF ReplyInv, SafeInv, TypeInv, ParkedSuspended
    <2> QED
      BY <1>1, <1>2, <2>1 DEF Open, ReplyInv, ReplyWaits, ReplyStep
  <1>3. CASE UNCHANGED vars
    BY <1>1, <1>3 DEF vars, streamVars, ReplyInv, ReplyWaits
  <1>4. CASE Next /\ ~Open
    BY <1>1, <1>4, ReadReply, WriteReply, ControlReply
    DEF Next, ReadHandler, AsyncPing, PingHandler, AsyncClose, CloseHandler, ReplyInv
  <1> QED
    BY <1>2, <1>3, <1>4

\* Under the discipline of one read and one write, a pong or a close that waits for a
\* write goes before the write's next frame: while it waits wr_block_ does not change
\* hands and a write that is on the wire puts no further frame on it.
THEOREM RepliesFirst ==
  ASSUME Discipline
  PROVE  Spec => RepliesGoNext
  <1>1. Init => ReplyInv
    BY InitSafeInv DEF Init, ReplyInv, ReplyWaits, Slots
  <1> QED
    BY <1>1, ReplyInvStep, PTL DEF Spec, RepliesGoNext, ReplyStep

-----------------------------------------------------------------------------
\* The read operation has no pong to send.
NoPong ==
  fh # "ping" /\ st["read"] \notin {"do_pong_resume", "do_pong_resume+1", "do_pong+1"}
WakeInv == SafeInv /\ NoLostWakeup /\ NoPong

\* The slots an operation's upcall looks at.
UpcallOf(o, a, b) ==
  \/ o = "read" /\ a = "ping_op_" /\ b = "wr_op_"
  \/ o = "write" /\ a = "rd_op_" /\ b = "ping_op_"
  \/ o = "ping" /\ a = "rd_op_" /\ b = "wr_op_"
  \/ o = "close" /\ a = "rd_op_" /\ b = "ping_op_"

\* Under the discipline the two pausations an upcall looks at are all that can be engaged.
LEMMA UpcallWakes ==
  ASSUME NEW o \in Ops, NEW a \in Slots, NEW b \in Slots, SafeInv, UpcallOf(o, a, b),
         st[o] \notin Suspended \cup {"idle"}, Upcall(a, b, o)
  PROVE  NoLostWakeup'
  <1>1. PICK s : s = FirstEngaged(a, b)
    OBVIOUS
  <1>2. CASE s = NoOp
    <2>1. parked[a] = NoOp /\ parked[b] = NoOp /\ parked' = parked
      BY <1>1, <1>2 DEF FirstEngaged, Upcall, Slots, NoOp
    <2>2. ASSUME NEW t \in Slots \ {a, b}, parked[t] # NoOp PROVE FALSE
      <3>1. PICK p \in Ops : p = parked[t] /\ p # o /\ st[p] \in Suspended
        BY <2>2, ResumedTakes
      <3>2. st[p] # "idle"
        BY <3>1, StateSets
      <3>3. o # "read" /\ p # "read"
        BY <2>2, <3>1 DEF UpcallOf, SafeInv, TypeInv, ParkedSuspended, Slots
      <3> QED
        BY <3>1, <3>2, <3>3 DEF SafeInv, Exclusion, OneWriterActive
    <2> QED
      BY <2>1, <2>2 DEF NoLostWakeup
  <1>3. CASE s # NoOp
    <2>1. s \in Slots /\ parked[s] # NoOp
      BY <1>1, <1>3 DEF FirstEngaged
    <2>2. wr_block_' = parked[s] /\ parked[s] # NoOp
      BY <1>1, <1>3, <2>1, ResumedTakes DEF Upcall, Invoke
    <2> QED
      BY <2>2 DEF NoLostWakeup
  <1> QED
    BY <1>2, <1>3

\* NoPong only depends on the state of the read operation and on what the peer sends.
LEMMA UpcallNoPong ==
  ASSUME NEW o \in Ops, NEW a \in Slots, NEW b \in Slots, TypeInv, NoPong,
         st[o] \notin Suspended, Upcall(a, b, o), fh' = fh
  PROVE  NoPong'
  <1>1. "read" \in Ops
    BY DEF Ops
  <1>2. st["read"] # "do_pong_resume" => Resumed(st["read"]) # "do_pong_resume+1"
    BY DEF Resumed
  <1>3. Resumed(st["read"]) \notin {"do_pong_resume", "do_pong+1"}
    BY DEF Resumed
  <1>4. CASE st'["read"] = "idle"
    BY <1>4 DEF NoPong
  <1>5. CASE st'["read"] = st["read"]
    BY <1>5 DEF NoPong
  <1>6. CASE st'["read"] = Resumed(st["read"])
    BY <1>2, <1>3, <1>6 DEF NoPong
  <1> QED
    BY <1>1, <1>4, <1>5, <1>6, UpcallMoves

\* The steps of the read operation.
LEMMA ReadWakes ==
  ASSUME Discipline, "ping" \notin Frames, WakeInv,
         \/ AsyncRead \/ ReadAborted \/ ReadError \/ PongResumed
         \/ CloseResumed \/ FailResumed \/ PongSent \/ CloseSent
         \/ ReadSendError \/ TeardownDone
         \/ \E k \in FrameKinds : ReadHeader(k)
         \/ ReadPayload \/ InflatePayload \/ ReadControl
  PROVE  NoLostWakeup' /\ NoPong'
  <1>0. /\ "read" \in Ops /\ {"wr_op_", "ping_op_"} \subseteq Slots /\ st \in [Ops -> States]
        /\ SafeInv /\ TypeInv /\ NoPong /\ "bad" \notin Frames /\ st["read"] # "do_fail+3"
    BY DEF WakeInv, SafeInv, TypeInv, TypeOK, Slots, Ops, Discipline, Exclusion, NoFail
  <1>1. ASSUME ReadUpcall, st["read"] \notin Suspended \cup {"idle"}, fh' = fh
        PROVE  NoLostWakeup' /\ NoPong'
    BY <1>0, <1>1, UpcallWakes, UpcallNoPong DEF ReadUpcall, UpcallOf
  <1>2. ASSUME NEW x \in States \ {"do_pong_resume", "do_pong_resume+1", "do_pong+1"},
               st' = [st EXCEPT !["read"] = x], fh' # "ping",
               \/ parked' = parked /\ wr_block_' \in {wr_block_, "read"}
               \/ wr_block_ # NoOp /\ wr_block_' = wr_block_
        PROVE  NoLostWakeup' /\ NoPong'
    <2>1. NoPong'
      BY <1>0, <1>2 DEF NoPong
    <2>2. NoLostWakeup'
      BY <1>2 DEF NoLostWakeup, WakeInv, NoOp
    <2> QED
      BY <2>1, <2>2
  <1>3. CASE AsyncRead
    <2>1. PICK x \in {"do_call_handler", "do_read_fh"} : st' = [st EXCEPT !["read"] = x]
      BY <1>3 DEF AsyncRead
    <2>2. x \in States
      BY DEF States, Posted, Reading
    <2> QED
      BY <1>0, <1>2, <1>3, <2>1, <2>2 DEF AsyncRead, streamVars, NoPong
  <1>4. CASE ReadAborted \/ ReadError \/ ReadSendError \/ TeardownDone
    BY <1>1, <1>4 DEF ReadAborted, ReadError, ReadSendError, TeardownDone, Suspended, Reading, TearingDown
  <1>5. CASE PongResumed \/ PongSent \/ FailResumed
    BY <1>0, <1>5 DEF PongResumed, PongSent, FailResumed, NoPong
  <1>6. CASE CloseResumed
    <2>1. CASE ReadUpcall
      BY <1>1, <1>6, <2>1 DEF CloseResumed, Suspended
    <2>2. CASE ReadWrites("close", "do_teardown")
      <3>1. "do_teardown" \in States
        BY DEF States, Writing
      <3>2. st' = [st EXCEPT !["read"] = "do_teardown"] /\ wr_block_' = "read" /\ parked' = parked
        BY <2>2 DEF ReadWrites
      <3>3. fh' # "ping"
        BY <1>0, <1>6 DEF CloseResumed, NoPong
      <3> QED
        BY <1>2, <3>1, <3>2, <3>3
    <2> QED
      BY <1>6, <2>1, <2>2 DEF CloseResumed
  <1>7. CASE CloseSent
    <2>1. {"do_teardown+1", "do_fail+5"} \subseteq States
      BY DEF States, TearingDown
    <2> QED
      BY <1>0, <1>2, <1>7, <2>1 DEF CloseSent, StartTeardown, NoPong
  <1>8. ASSUME NEW k \in FrameKinds, ReadHeader(k) PROVE NoLostWakeup' /\ NoPong'
    <2>1. st["read"] \notin Suspended \cup {"idle"} /\ k \notin {"bad", "ping"}
      BY <1>0, <1>8 DEF ReadHeader, Suspended
    <2>2. CASE ReadUpcall /\ fh' = fh
      BY <1>1, <2>1, <2>2
    <2>3. CASE /\ \E x \in {"do_control_payload"} \cup PayloadStates : st' = [st EXCEPT !["read"] = x]
               /\ UNCHANGED <<wr_block_, parked>> /\ fh' # "ping"
      <3>1. PICK x \in {"do_control_payload"} \cup PayloadStates : st' = [st EXCEPT !["read"] = x]
        BY <2>3
      <3>2. x \in States \ {"do_pong_resume", "do_pong_resume+1", "do_pong+1"}
        BY <3>1 DEF PayloadStates, States, Reading
      <3> QED
        BY <1>2, <2>3, <3>1, <3>2
    <2> QED
      BY <1>0, <1>8, <2>1, <2>2, <2>3 DEF ReadHeader, Inflated, NoPong
  <1>9. CASE ReadPayload
    BY <1>0, <1>1, <1>9 DEF ReadPayload, Suspended
  <1>10. CASE InflatePayload
    <2>1. CASE UNCHANGED <<wr_block_, parked, st, fh>>
      BY <2>1 DEF WakeInv, NoLostWakeup, NoPong
    <2>2. CASE Inflated
      BY <1>0, <1>1, <1>10, <2>2 DEF InflatePayload, Inflated, Suspended
    <2> QED
      BY <1>10, <2>1, <2>2 DEF InflatePayload
  <1>11. CASE ReadControl
    <2>1. fh' = fh /\ fh # "ping"
      BY <1>0, <1>11 DEF ReadControl, NoPong
    <2>2. {"do_read_fh", "do_teardown+1", "do_close_resume", "do_teardown"} \subseteq States
      BY DEF States, Reading, TearingDown, Suspended, Writing
    <2>3. CASE st' = [st EXCEPT !["read"] = "do_read_fh"] /\ UNCHANGED <<wr_block_, parked>>
      BY <1>2, <2>1, <2>2, <2>3
    <2>4. CASE StartTeardown("do_teardown+1")
      BY <1>2, <2>1, <2>2, <2>4 DEF StartTeardown
    <2>5. CASE wr_block_ # NoOp /\ Emplace("read", "rd_op_", "do_close_resume") /\ UNCHANGED wr_block_
      BY <1>2, <2>1, <2>2, <2>5 DEF Emplace
    <2>6. CASE ReadWrites("close", "do_teardown")
      <3>1. st' = [st EXCEPT !["read"] = "do_teardown"] /\ wr_block_' = "read" /\ parked' = parked
        BY <2>6 DEF ReadWrites
      <3> QED
        BY <1>2, <2>1, <2>2, <3>1
    <2> QED
      BY <1>0, <1>11, <2>1, <2>3, <2>4, <2>5, <2>6 DEF ReadControl
  <1> QED
    BY <1>3, <1>4, <1>5, <1>6, <1>7, <1>8, <1>9, <1>10, <1>11

\* The steps of the write operation.
LEMMA WriteWakes ==
  ASSUME WakeInv,
         \/ \E fin \in BOOLEAN, e \in Entries, n \in 1 .. MaxWrites : AsyncWrite(fin, e, n)
         \/ WriteHandler
  PROVE  NoLostWakeup' /\ NoPong'
  <1>0. /\ {"read", "write"} \subseteq Ops /\ {"rd_op_", "ping_op_"} \subseteq Slots
        /\ st \in [Ops -> States] /\ SafeInv /\ TypeInv /\ NoPong
        /\ fh' = fh
    BY DEF WakeInv, SafeInv, TypeInv, TypeOK, Slots, Ops, AsyncWrite, WriteHandler, WriteAborted,
       WriteYielded, WriteResumed, WriteError, WriteDone, WritePart, WriteBetween
  <1>1. ASSUME WriteUpcall, st["write"] \notin Suspended \cup {"idle"}
        PROVE  NoLostWakeup' /\ NoPong'
    BY <1>0, <1>1, UpcallWakes, UpcallNoPong DEF WriteUpcall, UpcallOf
  <1>2. ASSUME st'["read"] = st["read"],
               \/ parked' = parked /\ wr_block_' = wr_block_
               \/ wr_block_' # NoOp
        PROVE  NoLostWakeup' /\ NoPong'
    BY <1>0, <1>2 DEF WakeInv, NoLostWakeup, NoPong
  <1>3. ASSUME NEW v, MaybeSuspend(v) PROVE NoLostWakeup' /\ NoPong'
    <2>1. st'["read"] = st["read"]
      BY <1>0, <1>3 DEF MaybeSuspend, Emplace, SendFrame
    <2>2. (parked' = parked /\ wr_block_' = wr_block_) \/ wr_block_' # NoOp
      BY <1>3 DEF MaybeSuspend, Emplace, SendFrame, streamVars, NoOp
    <2> QED
      BY <1>2, <2>1, <2>2
  <1>4. CASE \E fin \in BOOLEAN, e \in Entries, n \in 1 .. MaxWrites : AsyncWrite(fin, e, n)
    BY <1>3, <1>4 DEF AsyncWrite
  <1>5. CASE WriteAborted \/ WriteError \/ WriteDone
    BY <1>1, <1>5 DEF WriteAborted, WriteError, WriteDone, Suspended, Writing
  <1>6. CASE WriteYielded
    <2>1. PICK v : MaybeSuspend(v)
      BY <1>6 DEF WriteYielded
    <2> QED
      BY <1>3, <2>1
  <1>7. CASE WriteResumed
    <2>1. CASE WriteUpcall
      BY <1>1, <1>7, <2>1 DEF WriteResumed, Suspended
    <2>2. CASE SendFrame(w)
      BY <1>0, <1>2, <2>2 DEF SendFrame, NoOp
    <2> QED
      BY <1>7, <2>1, <2>2 DEF WriteResumed
  <1>8. CASE WritePart
    BY <1>0, <1>2, <1>8 DEF WritePart, streamVars
  <1>9. CASE WriteBetween
    <2>1. PICK s : s = FirstEngaged("rd_op_", "ping_op_")
      OBVIOUS
    <2>2. CASE s # NoOp
      <3>1. s \in Slots /\ parked[s] # NoOp
        BY <1>0, <2>1, <2>2 DEF FirstEngaged
      <3>2. PICK p \in Ops : p = parked[s] /\ st[p] \in Suspended /\ TakesBlock(st[p])
        BY <3>1, ResumedTakes, <1>0
      <3>3. PICK y : y = Resumed(st[p])
        OBVIOUS
      <3>4. wr_block_' = p /\ st' = [st EXCEPT !["write"] = "do_maybe_suspend", ![p] = y]
        BY <1>9, <2>1, <2>2, <3>2, <3>3 DEF WriteBetween, Invoke
      <3>5. NoLostWakeup'
        BY <3>1, <3>2, <3>4 DEF NoLostWakeup
      <3>6. st["read"] # "do_pong_resume" => Resumed(st["read"]) # "do_pong_resume+1"
        BY DEF Resumed
      <3>7. Resumed(st["read"]) \notin {"do_pong_resume", "do_pong+1"}
        BY DEF Resumed
      <3>8. NoPong'
        BY <1>0, <3>2, <3>3, <3>4, <3>6, <3>7 DEF NoPong
      <3> QED
        BY <3>5, <3>8
    <2>3. CASE s = NoOp
      <3>1. PICK v : SendFrame(v)
        BY <1>9, <2>1, <2>3 DEF WriteBetween
      <3> QED
        BY <1>0, <1>2, <3>1 DEF SendFrame, NoOp
    <2> QED
      BY <2>2, <2>3
  <1> QED
    BY <1>4, <1>5, <1>6, <1>7, <1>8, <1>9 DEF WriteHandler

\* The steps of a ping or a close.
LEMMA ControlWakes ==
  ASSUME WakeInv, NEW o \in {"ping", "close"}, AsyncControl(o) \/ ControlHandler(o)
  PROVE  NoLostWakeup' /\ NoPong'
  <1>0. /\ "read" \in Ops /\ o \in Ops /\ o # NoOp /\ {"rd_op_", "ping_op_", "wr_op_"} \subseteq Slots
        /\ st \in [Ops -> States] /\ SafeInv /\ TypeInv /\ NoPong
        /\ fh' = fh
    BY DEF WakeInv, SafeInv, TypeInv, TypeOK, Slots, Ops, NoOp, AsyncControl, ControlHandler,
       ControlResumed, ControlDone, ControlError
  <1>1. ASSUME ControlUpcall(o), st[o] \notin Suspended \cup {"idle"}
        PROVE  NoLostWakeup' /\ NoPong'
    BY <1>0, <1>1, UpcallWakes, UpcallNoPong DEF ControlUpcall, PingUpcall, CloseUpcall, UpcallOf
  <1>2. ASSUME st'["read"] = st["read"],
               \/ parked' = parked /\ wr_block_' = wr_block_
               \/ wr_block_' # NoOp
        PROVE  NoLostWakeup' /\ NoPong'
    BY <1>0, <1>2 DEF WakeInv, NoLostWakeup, NoPong
  <1>3. CASE AsyncControl(o)
    <2>1. CASE wr_block_ # NoOp /\ Emplace(o, ControlSlot(o), "2") /\ UNCHANGED wr_block_
      BY <1>0, <1>2, <2>1 DEF Emplace
    <2>2. CASE st' = [st EXCEPT ![o] = "aborted"] /\ UNCHANGED <<wr_block_, parked>>
      BY <1>0, <1>2, <2>2
    <2>3. CASE SendControl(o)
      BY <1>0, <1>2, <2>3 DEF SendControl
    <2> QED
      BY <1>3, <2>1, <2>2, <2>3 DEF AsyncControl
  <1>4. CASE ControlResumed(o)
    <2>1. CASE ControlUpcall(o)
      BY <1>1, <1>4, <2>1 DEF ControlResumed, Suspended
    <2>2. CASE SendControl(o)
      BY <1>0, <1>2, <2>2 DEF SendControl
    <2> QED
      BY <1>4, <2>1, <2>2 DEF ControlResumed
  <1>5. CASE ControlDone(o) \/ ControlError(o)
    BY <1>1, <1>5 DEF ControlDone, ControlError, Suspended
  <1> QED
    BY <1>3, <1>4, <1>5 DEF ControlHandler

\* WakeInv is inductive.
LEMMA WakeInvStep ==
  ASSUME Discipline, "ping" \notin Frames
  PROVE  WakeInv /\ [Next]_vars => WakeInv'
  <1> SUFFICES ASSUME WakeInv, [Next]_vars PROVE WakeInv'
    OBVIOUS
  <1>1. SafeInv'
    BY SafeInvStep DEF WakeInv
  <1>2. CASE Open
    <2>1. \A s \in Slots : parked[s] = NoOp
      <3>1. \A o \in Ops : st[o] = "idle"
        BY <1>2 DEF Open, Active
      <3> QED
        BY <3>1, ResumedTakes, StateSets DEF WakeInv
    <2> QED
      BY <1>1, <1>2, <2>1 DEF Open, WakeInv, NoLostWakeup, NoPong
  <1>3. CASE UNCHANGED vars
    BY <1>1, <1>3 DEF vars, streamVars, WakeInv, NoLostWakeup, NoPong
  <1>4. CASE Next /\ ~Open
    BY <1>1, <1>4, ReadWakes, WriteWakes, ControlWakes
    DEF Next, ReadHandler, AsyncPing, PingHandler, AsyncClose, CloseHandler, WakeInv
  <1> QED
    BY <1>2, <1>3, <1>4

\* Under the discipline, with a peer that neither pings nor makes a protocol error, no
\* wake-up is lost: while an operation is suspended another one holds wr_block_, whose
\* upcall looks at every pausation that can be engaged.  (do_pong + 1 gives wr_block_ up
\* without an upcall, which is why the peer must not ping.)
THEOREM WakeupsKept ==
  ASSUME Discipline, "ping" \notin Frames
  PROVE  Spec => []NoLostWakeup
  <1>1. Init => WakeInv
    BY InitSafeInv DEF Init, WakeInv, NoLostWakeup, NoPong, Ops, NoOp
  <1>2. WakeInv => NoLostWakeup
    BY DEF WakeInv
  <1> QED
    BY <1>1, <1>2, WakeInvStep, PTL DEF Spec

-----------------------------------------------------------------------------
\* The step of FailedIsSticky.
StickyStep == failed_ /\ ~failed_' => Open

\* After a failure nothing is inflated, and no frame is deflated: with permessage-deflate
\* the stream fails only after the teardown, which comes after a close frame.
LEMMA FailedIsQuiet ==
  ASSUME LegalInv, failed_
  PROVE  /\ Pmd => torn
         /\ ~Pmd => st["read"] # "do_inflate_payload"
         /\ Pmd => wr_close_ /\ st["write"] \notin Between
  BY DEF LegalInv, Wire, FailedAfterTeardown, TeardownClosed, CloseOnWire, FramesOnWire

\* A step of the read operation that makes failed_ FALSE inflates.
LEMMA ReadSticky ==
  ASSUME LegalInv, failed_, ~failed_', "bad" \notin Frames,
         \/ AsyncRead \/ ReadAborted \/ ReadError \/ PongResumed
         \/ CloseResumed \/ FailResumed \/ PongSent \/ CloseSent
         \/ ReadSendError \/ TeardownDone
         \/ \E k \in FrameKinds : ReadHeader(k)
         \/ ReadPayload \/ InflatePayload \/ ReadControl
  PROVE  FALSE
  <1>1. CASE \/ AsyncRead \/ ReadAborted \/ ReadError \/ PongResumed
             \/ CloseResumed \/ FailResumed \/ PongSent \/ CloseSent
             \/ ReadSendError \/ TeardownDone
    BY <1>1 DEF AsyncRead, streamVars, ReadAborted, ReadError, PongResumed, CloseResumed,
       FailResumed, SendFail, PongSent, CloseSent, ReadSendError, TeardownDone
  <1>2. CASE \E k \in FrameKinds : ReadHeader(k)
    <2>1. PICK k \in FrameKinds : ReadHeader(k) /\ k \in Frames /\ ~torn
      BY <1>2 DEF ReadHeader
    <2>2. k # "bad"
      BY <2>1
    <2> QED
      BY <2>1, <2>2, FailedIsQuiet DEF ReadHeader
  <1>3. CASE ReadPayload \/ ReadControl
    BY <1>3 DEF ReadPayload, ReadControl
  <1>4. CASE InflatePayload
    BY <1>4, FailedIsQuiet, ConstantsAssumption DEF InflatePayload
  <1> QED
    BY <1>1, <1>2, <1>3, <1>4

\* A step of the write operation that makes failed_ FALSE deflates.
LEMMA WriteSticky ==
  ASSUME LegalInv, failed_, ~failed_',
         \/ \E fin \in BOOLEAN, e \in Entries, n \in 1 .. MaxWrites : AsyncWrite(fin, e, n)
         \/ WriteHandler
  PROVE  FALSE
  <1>1. ASSUME NEW v, MaybeSuspend(v) PROVE FALSE
    BY <1>1 DEF MaybeSuspend, streamVars
  <1>2. CASE \E fin \in BOOLEAN, e \in Entries, n \in 1 .. MaxWrites : AsyncWrite(fin, e, n)
    BY <1>1, <1>2 DEF AsyncWrite
  <1>3. CASE WriteYielded
    <2>1. PICK v : MaybeSuspend(v)
      BY <1>3 DEF WriteYielded
    <2> QED
      BY <1>1, <2>1
  <1>4. CASE WriteAborted \/ WriteResumed \/ WriteError \/ WriteDone \/ WritePart
    BY <1>4 DEF WriteAborted, WriteResumed, WriteError, WriteDone, WritePart, streamVars
  <1>5. CASE WriteBetween
    <2>1. st["write"] \in Between /\ w.entry \in Entries \cup {NoOp}
      BY <1>5 DEF WriteBetween, Between, LegalInv, SafeInv, TypeInv, TypeOK
    <2>2. w.entry # "deflate"
      BY <2>1, FailedIsQuiet, ConstantsAssumption DEF Entries, NoOp
    <2>3. PICK v : v.entry = w.entry /\ (failed_' = failed_ \/ SendFrame(v))
      BY <1>5 DEF WriteBetween, Fields
    <2> QED
      BY <2>2, <2>3 DEF SendFrame
  <1> QED
    BY <1>2, <1>3, <1>4, <1>5 DEF WriteHandler

\* A ping or a close never makes failed_ FALSE.
LEMMA ControlSticky ==
  ASSUME NEW o \in {"ping", "close"}, AsyncControl(o) \/ ControlHandler(o)
  PROVE  failed_' = failed_ \/ failed_'
  BY DEF AsyncControl, ControlHandler, ControlResumed, ControlDone, ControlError

\* No step but the opening of a session makes failed_ FALSE.
LEMMA StickyHolds ==
  ASSUME Discipline
  PROVE  LegalInv /\ [Next]_vars => [StickyStep]_vars
  <1> SUFFICES ASSUME LegalInv, Next, failed_, ~failed_', ~Open PROVE FALSE
    BY DEF StickyStep
  <1>1. "bad" \notin Frames
    BY DEF Discipline
  <1> QED
    BY <1>1, ReadSticky, WriteSticky, ControlSticky
    DEF Next, ReadHandler, AsyncPing, PingHandler, AsyncClose, CloseHandler

\* Under the same conditions a stream that has failed stays failed until it is opened
\* again: the outcomes that deflate (write.ipp) and inflate (read.ipp) assign to failed_
\* never overwrite a failure, because none is recorded before the teardown, after which
\* nothing is inflated and no frame follows the close frame.  The condition that the
\* next layer does not fail while it is open is needed with permessage-deflate.
THEOREM FailedStays ==
  ASSUME Discipline, Reliable
  PROVE  Spec => FailedIsSticky
  <1>1. Init => LegalInv
    BY InitLegalInv
  <1>2. LegalInv /\ [Next]_vars => LegalInv'
    BY LegalInvStep
  <1> QED
    BY <1>1, <1>2, StickyHolds, PTL DEF Spec, FailedIsSticky, StickyStep
=============================================================================
