--------------------------- MODULE WsStreamSafety ---------------------------
(***************************************************************************)
(* Under the documented discipline (one read and one write at a time, a    *)
(* ping and a close count as a write) and with a peer that makes no        *)
(* protocol error, no two operations write to the next layer at once, no   *)
(* BOOST_ASSERT fails and wr_block_ never dangles.                         *)
(***************************************************************************)
EXTENDS WsStreamProofs

\* "The asynchronous interface supports one active read and one active write
\* simultaneously" and no frame leads to do_fail.
Discipline ==
  /\ \A S \in Together : \A a, b \in S \ {"read"} : a = b
  /\ "bad" \notin Frames

\* States of an operation that owns wr_block_.
Holding == Writing \cup {"do_pong_resume+1", "do_close_resume+1",
                         "do_maybe_suspend+2", "deflate_empty", "3"}

\* An operation in such a state owns wr_block_, and the owner of wr_block_ is in
\* such a state or tears the connection down.
BlockOwner ==
  /\ \A o \in Ops : st[o] \in Holding => wr_block_ = o
  /\ wr_block_ # NoOp => st[wr_block_] \in Holding \cup TearingDown
OneWriterActive ==
  \A a, b \in Ops \ {"read"} : st[a] # "idle" /\ st[b] # "idle" => a = b
NoFail == st["read"] \notin {"do_fail+2", "do_fail+3"}

Exclusion == ok /\ OneWriterActive /\ BlockOwner /\ NoFail

\* The inductive invariant of the one-writer discipline.
SafeInv == TypeInv /\ Exclusion

-----------------------------------------------------------------------------
\* The sets of states that the arguments below keep apart.
LEMMA StateSets ==
  /\ "idle" \notin Holding \cup TearingDown \cup Suspended
  /\ Suspended \cap (Holding \cup TearingDown) = {}
  /\ Reading \cap (Holding \cup TearingDown \cup Suspended) = {}
  BY DEF Holding, Writing, TearingDown, Suspended, Reading

\* A resumed operation other than do_fail + 2 holds wr_block_.
LEMMA ResumedHolds ==
  ASSUME NEW x \in Suspended, x # "do_fail+2"
  PROVE  Resumed(x) \in Holding \ {"do_fail+2", "do_fail+3", "idle"} /\ TakesBlock(x)
  BY DEF Resumed, Suspended, Holding, Writing, TakesBlock

\* A resumed operation finds wr_block_ pointing to itself.
LEMMA OwnsHolding ==
  ASSUME SafeInv, NEW o \in Ops
  PROVE  OwnsBlock(o)
  BY DEF SafeInv, Exclusion, BlockOwner, OwnsBlock, Holding

\* The upcall of an operation hands wr_block_ to at most one suspended operation.
LEMMA UpcallExclusion ==
  ASSUME NEW o \in Ops, NEW a \in Slots, NEW b \in Slots, SafeInv,
         st[o] \notin Suspended \cup {"idle"}, Upcall(a, b, o)
  PROVE  Exclusion'
  <1> DEFINE s == FirstEngaged(a, b)
  <1>0. st \in [Ops -> States] /\ parked \in [Slots -> Ops \cup {NoOp}]
        /\ wr_block_ \in Ops \cup {NoOp} /\ NoOp \notin Ops
    BY DEF SafeInv, TypeInv, TypeOK, Ops, NoOp
  <1>1. CASE s = NoOp
    <2>1. /\ wr_block_' = Released(o)
          /\ st' = [st EXCEPT ![o] = "idle"]
          /\ ok' = ok
      BY <1>0, <1>1, OwnsHolding DEF Upcall, SafeInv, Exclusion
    <2>2. BlockOwner'
      BY <1>0, <2>1, StateSets DEF SafeInv, Exclusion, BlockOwner, Released
    <2>3. OneWriterActive' /\ NoFail'
      BY <1>0, <2>1 DEF SafeInv, Exclusion, OneWriterActive, NoFail, Ops
    <2> QED
      BY <2>1, <2>2, <2>3 DEF SafeInv, Exclusion
  <1>2. CASE s # NoOp
    <2>1. s \in Slots /\ parked[s] # NoOp
      BY <1>2 DEF FirstEngaged, NoOp
    <2>2. PICK p \in Ops : p = parked[s] /\ p # o /\ st[p] \in Suspended
      BY <1>0, <2>1 DEF SafeInv, TypeInv, ParkedSuspended
    <2>3. st[p] # "do_fail+2"
      <3>1. CASE p = "read"
        BY <3>1 DEF SafeInv, Exclusion, NoFail
      <3>2. CASE p # "read"
        BY <2>2, <3>2 DEF SafeInv, TypeInv, OwnStates, WriteStates, ControlStates, Unfinished, Ops
      <3> QED
        BY <3>1, <3>2
    <2>4. Released(o) = NoOp
      <3>1. SUFFICES ASSUME wr_block_ # NoOp, wr_block_ # o PROVE FALSE
        BY DEF Released
      <3>2. PICK q \in Ops : q = wr_block_ /\ q # o /\ st[q] \in Holding \cup TearingDown
        BY <1>0, <3>1 DEF SafeInv, Exclusion, BlockOwner
      <3>3. q # p /\ st[q] # "idle" /\ st[p] # "idle" /\ st[o] # "idle"
        BY <2>2, <3>2, StateSets
      <3> QED
        BY <2>2, <3>2, <3>3 DEF SafeInv, Exclusion, OneWriterActive, Ops
    <2>5. PICK y : y = Resumed(st[p]) /\ y \in Holding \ {"do_fail+2", "do_fail+3", "idle"}
      BY <2>2, <2>3, ResumedHolds
    <2>6. /\ wr_block_' = p
          /\ st' = [st EXCEPT ![o] = "idle", ![p] = y]
          /\ ok' = (ok /\ OwnsBlock(o) /\ InvokeOk(s, NoOp))
      BY <1>2, <2>2, <2>3, <2>4, <2>5, ResumedHolds DEF Upcall, Invoke
    <2>7. ok'
      BY <2>6, OwnsHolding DEF InvokeOk, SafeInv, Exclusion
    <2>8. BlockOwner'
      BY <1>0, <2>2, <2>4, <2>5, <2>6, StateSets DEF SafeInv, Exclusion, BlockOwner, Released
    <2>9. OneWriterActive' /\ NoFail'
      BY <1>0, <2>2, <2>5, <2>6, StateSets DEF SafeInv, Exclusion, OneWriterActive, NoFail, Ops
    <2> QED
      BY <2>7, <2>8, <2>9 DEF Exclusion
  <1> QED
    BY <1>1, <1>2

\* Suspending an operation that does not own wr_block_.
LEMMA EmplaceExclusion ==
  ASSUME NEW o \in Ops, NEW s \in Slots, NEW x \in Suspended, SafeInv,
         x # "do_fail+2", Emplace(o, s, x), wr_block_' = wr_block_,
         parked[s] = NoOp, st[o] \notin Holding \cup TearingDown, OneWriterActive'
  PROVE  Exclusion'
  <1>0. st \in [Ops -> States] /\ wr_block_ \in Ops \cup {NoOp} /\ wr_block_ # o
    BY DEF SafeInv, TypeInv, TypeOK, Exclusion, BlockOwner, Ops, NoOp
  <1>1. st' = [st EXCEPT ![o] = x] /\ ok'
    BY <1>0 DEF Emplace, SafeInv, Exclusion
  <1>2. BlockOwner'
    BY <1>0, <1>1, StateSets DEF SafeInv, Exclusion, BlockOwner
  <1>3. NoFail'
    BY <1>0, <1>1 DEF SafeInv, Exclusion, NoFail, Suspended, Ops
  <1> QED
    BY <1>1, <1>2, <1>3 DEF Exclusion

\* Taking, or keeping, wr_block_ to write.
LEMMA TakeExclusion ==
  ASSUME NEW o \in Ops, NEW x \in Holding, SafeInv, wr_block_ \in {NoOp, o},
         wr_block_' = o, st' = [st EXCEPT ![o] = x], ok', OneWriterActive'
  PROVE  Exclusion'
  <1>0. st \in [Ops -> States] /\ NoOp \notin Ops
    BY DEF SafeInv, TypeInv, TypeOK, Ops, NoOp
  <1>1. BlockOwner'
    BY <1>0 DEF SafeInv, Exclusion, BlockOwner
  <1>2. NoFail'
    BY <1>0 DEF SafeInv, Exclusion, NoFail, Holding, Writing, Ops
  <1> QED
    BY <1>1, <1>2 DEF Exclusion

\* A step that neither takes nor gives up wr_block_.
LEMMA KeepExclusion ==
  ASSUME NEW o \in Ops, NEW x, SafeInv, st[o] \notin Holding \cup TearingDown,
         x \notin Holding \cup {"do_fail+2", "do_fail+3"},
         wr_block_' = wr_block_, st' = [st EXCEPT ![o] = x], ok' = ok, OneWriterActive'
  PROVE  Exclusion'
  <1>0. st \in [Ops -> States] /\ wr_block_ # o
    BY DEF SafeInv, TypeInv, TypeOK, Exclusion, BlockOwner, Ops, NoOp
  <1>1. BlockOwner'
    BY <1>0 DEF SafeInv, Exclusion, BlockOwner, TypeInv, TypeOK
  <1>2. NoFail'
    BY <1>0 DEF SafeInv, Exclusion, NoFail, Ops
  <1> QED
    BY <1>1, <1>2 DEF SafeInv, Exclusion

\* The teardown, by a read that owns wr_block_ or does not.
LEMMA TeardownExclusion ==
  ASSUME NEW x \in TearingDown, SafeInv, StartTeardown(x), st["read"] # "idle"
  PROVE  Exclusion'
  <1>0. st \in [Ops -> States] /\ "read" \in Ops
    BY DEF SafeInv, TypeInv, TypeOK, Ops
  <1>1. st' = [st EXCEPT !["read"] = x] /\ wr_block_' = wr_block_ /\ ok' = ok
    BY DEF StartTeardown
  <1>2. TearingDown \cap Holding = {} /\ x \notin {"do_fail+2", "do_fail+3", "idle"}
    BY DEF TearingDown, Holding, Writing
  <1>3. BlockOwner'
    BY <1>0, <1>1, <1>2 DEF SafeInv, Exclusion, BlockOwner, TypeInv, TypeOK
  <1>4. OneWriterActive' /\ NoFail'
    BY <1>0, <1>1, <1>2 DEF SafeInv, Exclusion, OneWriterActive, NoFail, Ops
  <1> QED
    BY <1>1, <1>3, <1>4 DEF SafeInv, Exclusion

\* An operation that is active stays the only writer.
LEMMA MoveOneWriter ==
  ASSUME NEW o \in Ops, NEW x, SafeInv, st[o] # "idle", st' = [st EXCEPT ![o] = x]
  PROVE  OneWriterActive'
  BY DEF SafeInv, TypeInv, TypeOK, Exclusion, OneWriterActive

\* The discipline makes an operation that starts the only writer.
LEMMA StartOneWriter ==
  ASSUME NEW o \in Ops, NEW x, Discipline, SafeInv, MayStart(o),
         st' = [st EXCEPT ![o] = x]
  PROVE  OneWriterActive'
  <1>1. PICK S \in Together : Active \cup {o} \subseteq S
    BY DEF MayStart
  <1>2. \A a \in Ops : st'[a] # "idle" => a \in S
    BY <1>1 DEF SafeInv, TypeInv, TypeOK, Active
  <1> QED
    BY <1>1, <1>2 DEF Discipline, OneWriterActive

\* A starting writer finds its pausation empty.
LEMMA StartParked ==
  ASSUME NEW o \in Ops, Discipline, SafeInv, MayStart(o)
  PROVE  /\ o = "write" => parked["wr_op_"] = NoOp
         /\ o = "close" => parked["wr_op_"] = NoOp
         /\ o = "ping" => parked["ping_op_"] = NoOp
  <1>1. PICK S \in Together : Active \cup {o} \subseteq S
    BY DEF MayStart
  <1>2. \A a \in Ops \ {"read"} : st[a] # "idle" /\ o # "read" => a = o
    BY <1>1 DEF Active, Discipline
  <1>3. st[o] = "idle" /\ "idle" \notin Suspended
    BY DEF MayStart, Suspended
  <1> QED
    BY <1>2, <1>3 DEF SafeInv, TypeInv, ParkedSuspended, Slots, Ops

\* A frame sent takes wr_block_ and leaves the write operation active.
LEMMA SendFrameHolds ==
  ASSUME NEW v, SendFrame(v)
  PROVE  wr_block_' = "write" /\ \E x \in Holding : st' = [st EXCEPT !["write"] = x]
  BY DEF SendFrame, Holding, Writing

\* The steps of the read operation.
LEMMA ReadExclusion ==
  ASSUME Discipline, SafeInv,
         \/ AsyncRead \/ ReadAborted \/ ReadError \/ PongResumed
         \/ CloseResumed \/ FailResumed \/ PongSent \/ CloseSent
         \/ ReadSendError \/ TeardownDone
         \/ \E k \in FrameKinds : ReadHeader(k)
         \/ ReadPayload \/ InflatePayload \/ ReadControl
  PROVE  Exclusion'
  <1>0. /\ "read" \in Ops /\ "rd_op_" \in Slots /\ ok
        /\ st["read"] \in Holding => wr_block_ = "read"
        /\ "bad" \notin Frames
    BY DEF Ops, Slots, SafeInv, Exclusion, BlockOwner, Discipline
  <1>1. ASSUME ReadUpcall, st["read"] \notin Suspended \cup {"idle"}
        PROVE  Exclusion'
    BY <1>0, <1>1, UpcallExclusion DEF ReadUpcall, Slots
  <1>2. ASSUME NEW f, NEW x \in Holding, ReadWrites(f, x), st["read"] # "idle",
               wr_block_ \in {NoOp, "read"}
        PROVE  Exclusion'
    <2>1. wr_block_' = "read" /\ st' = [st EXCEPT !["read"] = x] /\ ok'
      BY <1>0, <1>2, OwnsHolding DEF ReadWrites
    <2>2. OneWriterActive'
      BY <1>0, <1>2, <2>1, MoveOneWriter
    <2> QED
      BY <1>0, <1>2, <2>1, <2>2, TakeExclusion
  <1>3. ASSUME NEW x \in Reading, st' = [st EXCEPT !["read"] = x], st["read"] \in Reading,
               UNCHANGED <<wr_block_, ok>>
        PROVE  Exclusion'
    <2>1. x \notin Holding \cup {"do_fail+2", "do_fail+3"} /\ st["read"] # "idle"
      BY <1>3 DEF Reading, Holding, Writing
    <2>2. OneWriterActive'
      BY <1>0, <1>3, <2>1, MoveOneWriter
    <2> QED
      BY <1>0, <1>3, <2>1, <2>2, KeepExclusion, StateSets
  <1>4. CASE AsyncRead
    <2>1. PICK x \in {"do_call_handler", "do_read_fh"} : st' = [st EXCEPT !["read"] = x]
      BY <1>4 DEF AsyncRead
    <2>2. OneWriterActive'
      BY <1>0, <1>4, <2>1, StartOneWriter DEF AsyncRead
    <2>3. x \notin Holding \cup {"do_fail+2", "do_fail+3"} /\ st["read"] \notin Holding \cup TearingDown
      BY <1>4, StateSets DEF AsyncRead, MayStart, Holding, Writing
    <2> QED
      BY <1>0, <1>4, <2>1, <2>2, <2>3, KeepExclusion DEF AsyncRead, streamVars
  <1>5. CASE ReadAborted \/ ReadError \/ ReadSendError \/ TeardownDone
    BY <1>1, <1>5 DEF ReadAborted, ReadError, ReadSendError, TeardownDone, Suspended, Reading, TearingDown
  <1>6. CASE PongResumed
    <2>1. st["read"] = "do_pong_resume+1" /\ wr_block_ = "read"
      BY <1>0, <1>6 DEF PongResumed, Holding
    <2>2. CASE ReadUpcall
      BY <1>1, <2>1, <2>2 DEF Suspended
    <2>3. CASE /\ wr_block_' = NoOp
               /\ ok' = (ok /\ wr_block_ \in {NoOp, "read"})
               /\ st' = [st EXCEPT !["read"] = "do_read_fh"]
      <3>1. ok' /\ OneWriterActive'
        BY <1>0, <2>1, <2>3, MoveOneWriter
      <3>2. BlockOwner' /\ NoFail'
        BY <2>1, <2>3 DEF SafeInv, Exclusion, BlockOwner, NoFail, TypeInv, TypeOK, Holding, Writing, NoOp
      <3> QED
        BY <3>1, <3>2 DEF Exclusion
    <2>4. CASE ReadWrites("pong", "do_pong+1")
      BY <1>2, <2>1, <2>4 DEF Holding, Writing
    <2> QED
      BY <1>6, <2>2, <2>3, <2>4 DEF PongResumed
  <1>7. CASE CloseResumed
    <2>1. st["read"] = "do_close_resume+1" /\ wr_block_ = "read"
      BY <1>0, <1>7 DEF CloseResumed, Holding
    <2>2. CASE ReadUpcall
      BY <1>1, <2>1, <2>2 DEF Suspended
    <2>3. CASE ReadWrites("close", "do_teardown")
      BY <1>2, <2>1, <2>3 DEF Holding, Writing
    <2> QED
      BY <1>7, <2>2, <2>3 DEF CloseResumed
  <1>8. CASE FailResumed
    BY <1>8 DEF FailResumed, SafeInv, Exclusion, NoFail
  <1>9. CASE PongSent
    <2>1. st["read"] = "do_pong+1" /\ wr_block_ = "read"
      BY <1>0, <1>9 DEF PongSent, Holding, Writing
    <2>2. OneWriterActive'
      BY <1>0, <1>9, <2>1, MoveOneWriter DEF PongSent
    <2>3. BlockOwner' /\ NoFail' /\ ok'
      BY <1>9, <2>1 DEF PongSent, SafeInv, Exclusion, BlockOwner, NoFail, TypeInv, TypeOK,
         Holding, Writing, NoOp
    <2> QED
      BY <2>2, <2>3 DEF Exclusion
  <1>10. CASE CloseSent
    BY <1>10, TeardownExclusion DEF CloseSent, TearingDown
  <1>11. ASSUME NEW k \in FrameKinds, ReadHeader(k) PROVE Exclusion'
    <2>1. st["read"] = "do_read_fh" /\ k # "bad"
      BY <1>0, <1>11 DEF ReadHeader
    <2>2. st["read"] \in Reading /\ st["read"] \notin Suspended \cup {"idle"}
      BY <2>1 DEF Reading, Suspended
    <2>3. CASE ReadUpcall
      BY <1>1, <2>2, <2>3
    <2>4. CASE \E x \in Reading : /\ st' = [st EXCEPT !["read"] = x]
                                /\ UNCHANGED <<wr_block_, ok>>
      BY <1>3, <2>2, <2>4
    <2>5. PayloadStates \cup {"do_control_payload"} \subseteq Reading
      BY DEF PayloadStates, Reading
    <2> QED
      BY <1>0, <1>11, <2>1, <2>3, <2>4, <2>5 DEF ReadHeader, Inflated
  <1>12. CASE ReadPayload
    BY <1>0, <1>1, <1>12 DEF ReadPayload, Suspended
  <1>13. CASE InflatePayload
    <2>1. st["read"] \in Reading /\ st["read"] \notin Suspended \cup {"idle"}
      BY <1>13 DEF InflatePayload, Reading, Suspended
    <2>2. CASE UNCHANGED <<wr_block_, st, ok>>
      BY <2>2 DEF SafeInv, Exclusion, OneWriterActive, BlockOwner, NoFail
    <2> QED
      BY <1>0, <1>1, <1>13, <2>1, <2>2 DEF InflatePayload, Inflated
  <1>14. CASE ReadControl
    <2>1. st["read"] \in Reading /\ st["read"] \notin Suspended \cup {"idle"}
      BY <1>14 DEF ReadControl, Reading, Suspended
    <2>2. CASE /\ st' = [st EXCEPT !["read"] = "do_read_fh"]
               /\ UNCHANGED <<wr_block_, ok>>
      BY <1>3, <2>1, <2>2 DEF Reading
    <2>3. CASE /\ \/ Emplace("read", "rd_op_", "do_pong_resume")
                  \/ Emplace("read", "rd_op_", "do_close_resume")
               /\ wr_block_' = wr_block_
      <3>1. parked["rd_op_"] = NoOp
        BY <1>0, <2>1 DEF SafeInv, TypeInv, ParkedSuspended
      <3>2. PICK x \in Suspended \ {"do_fail+2"} : Emplace("read", "rd_op_", x)
        BY <2>3 DEF Suspended
      <3>3. OneWriterActive'
        BY <1>0, <2>1, <3>2, MoveOneWriter DEF Emplace
      <3> QED
        BY <1>0, <2>1, <2>3, <3>1, <3>2, <3>3, EmplaceExclusion, StateSets
    <2>4. CASE \/ ReadWrites("pong", "do_pong+1") /\ wr_block_ = NoOp
               \/ ReadWrites("close", "do_teardown") /\ wr_block_ = NoOp
      BY <1>2, <2>1, <2>4 DEF Holding, Writing
    <2>5. CASE StartTeardown("do_teardown+1")
      BY <2>1, <2>5, TeardownExclusion DEF TearingDown
    <2> QED
      BY <1>0, <1>14, <2>2, <2>3, <2>4, <2>5 DEF ReadControl
  <1> QED
    BY <1>4, <1>5, <1>6, <1>7, <1>8, <1>9, <1>10, <1>11, <1>12, <1>13, <1>14

\* do_maybe_suspend, by an operation that does not own wr_block_.
LEMMA MaybeSuspendExclusion ==
  ASSUME NEW v, SafeInv, MaybeSuspend(v), st["write"] \notin Holding \cup TearingDown,
         parked["wr_op_"] = NoOp,
         \A x : st' = [st EXCEPT !["write"] = x] => OneWriterActive'
  PROVE  Exclusion'
  <1>0. "write" \in Ops /\ "wr_op_" \in Slots /\ ok
    BY DEF Ops, Slots, SafeInv, Exclusion
  <1>1. CASE Emplace("write", "wr_op_", "do_maybe_suspend+1") /\ wr_block_' = wr_block_
    <2>1. "do_maybe_suspend+1" \in Suspended
      BY DEF Suspended
    <2>2. OneWriterActive'
      BY <1>1 DEF Emplace
    <2> QED
      BY <1>0, <1>1, <2>1, <2>2, EmplaceExclusion
  <1>2. CASE st' = [st EXCEPT !["write"] = "aborted"] /\ UNCHANGED <<wr_block_, ok>>
    <2>1. "aborted" \notin Holding \cup {"do_fail+2", "do_fail+3"}
      BY DEF Holding, Writing
    <2> QED
      BY <1>0, <1>2, <2>1, KeepExclusion
  <1>3. CASE wr_block_ = NoOp /\ SendFrame(v) /\ ok' = ok
    BY <1>0, <1>3, SendFrameHolds, TakeExclusion
  <1> QED
    BY <1>1, <1>2, <1>3 DEF MaybeSuspend, streamVars

\* The steps of the write operation.
LEMMA WriteExclusion ==
  ASSUME Discipline, SafeInv,
         \/ \E fin \in BOOLEAN, e \in Entries, n \in 1 .. MaxWrites : AsyncWrite(fin, e, n)
         \/ WriteHandler
  PROVE  Exclusion'
  <1>0. /\ "write" \in Ops /\ {"rd_op_", "wr_op_", "ping_op_"} \subseteq Slots /\ ok
        /\ st["write"] \in Holding => wr_block_ = "write"
    BY DEF Ops, Slots, SafeInv, Exclusion, BlockOwner
  <1>1. ASSUME WriteUpcall, st["write"] \notin Suspended \cup {"idle"}
        PROVE  Exclusion'
    BY <1>0, <1>1, UpcallExclusion DEF WriteUpcall
  <1>2. ASSUME NEW v, SendFrame(v), ok', wr_block_ \in {NoOp, "write"}, st["write"] # "idle"
        PROVE  Exclusion'
    <2>1. PICK x \in Holding : st' = [st EXCEPT !["write"] = x] /\ wr_block_' = "write"
      BY <1>2, SendFrameHolds
    <2>2. OneWriterActive'
      BY <1>0, <1>2, <2>1, MoveOneWriter
    <2> QED
      BY <1>0, <1>2, <2>1, <2>2, TakeExclusion
  <1>3. ASSUME NEW fin \in BOOLEAN, NEW e \in Entries, NEW n \in 1 .. MaxWrites,
               AsyncWrite(fin, e, n)
        PROVE  Exclusion'
    <2>1. PICK v : MaybeSuspend(v)
      BY <1>3 DEF AsyncWrite
    <2>2. MayStart("write") /\ st["write"] = "idle"
      BY <1>3 DEF AsyncWrite, MayStart
    <2>3. \A x : st' = [st EXCEPT !["write"] = x] => OneWriterActive'
      BY <1>0, <2>2, StartOneWriter
    <2>4. parked["wr_op_"] = NoOp
      BY <1>0, <2>2, StartParked
    <2> QED
      BY <2>1, <2>2, <2>3, <2>4, MaybeSuspendExclusion, StateSets
  <1>4. CASE WriteAborted \/ WriteError \/ WriteDone
    BY <1>1, <1>4 DEF WriteAborted, WriteError, WriteDone, Suspended, Writing
  <1>5. CASE WriteYielded
    <2>1. PICK v : MaybeSuspend(v)
      BY <1>5 DEF WriteYielded
    <2>2. st["write"] = "do_maybe_suspend"
      BY <1>5 DEF WriteYielded
    <2>3. \A x : st' = [st EXCEPT !["write"] = x] => OneWriterActive'
      BY <1>0, <2>2, MoveOneWriter
    <2>4. parked["wr_op_"] = NoOp
      <3>1. st["close"] = "idle" /\ "idle" \notin Suspended /\ "do_maybe_suspend" \notin Suspended
        BY <2>2 DEF SafeInv, Exclusion, OneWriterActive, Ops, Suspended
      <3> QED
        BY <1>0, <2>2, <3>1 DEF SafeInv, TypeInv, ParkedSuspended
    <2>5. st["write"] \notin Holding \cup TearingDown
      BY <2>2 DEF Holding, Writing, TearingDown
    <2> QED
      BY <2>1, <2>3, <2>4, <2>5, MaybeSuspendExclusion
  <1>6. CASE WriteResumed
    <2>1. st["write"] = "do_maybe_suspend+2" /\ wr_block_ = "write"
      BY <1>0, <1>6 DEF WriteResumed, Holding
    <2>2. CASE WriteUpcall
      BY <1>1, <2>1, <2>2 DEF Suspended
    <2>3. CASE SendFrame(w) /\ ok' = (ok /\ OwnsBlock("write"))
      <3>1. PICK v : SendFrame(v)
        BY <2>3
      <3> QED
        BY <1>0, <1>2, <2>1, <2>3, <3>1, OwnsHolding DEF SafeInv, Exclusion
    <2> QED
      BY <1>6, <2>2, <2>3 DEF WriteResumed
  <1>7. CASE WritePart
    <2>1. st["write"] = "do_mask_nofrag+2" /\ wr_block_ = "write"
      BY <1>0, <1>7 DEF WritePart, Holding, Writing
    <2>2. PICK x \in Holding : st' = [st EXCEPT !["write"] = x]
      BY <1>7, <2>1 DEF WritePart, Holding, Writing, SafeInv, TypeInv, TypeOK
    <2>3. OneWriterActive'
      BY <1>0, <2>1, <2>2, MoveOneWriter
    <2> QED
      BY <1>0, <1>7, <2>1, <2>2, <2>3, TakeExclusion DEF WritePart, streamVars
  <1>8. CASE WriteBetween
    <2>1. /\ st["write"] \in {"do_frag+2", "do_deflate+2"} /\ wr_block_ = "write"
          /\ st["write"] \notin Suspended \cup {"idle"}
      BY <1>0, <1>8 DEF WriteBetween, Holding, Writing, Suspended
    <2>2. Released("write") = NoOp
      BY <2>1 DEF Released
    <2>3. CASE FirstEngaged("rd_op_", "ping_op_") # NoOp
      <3>1. PICK s \in Slots : s = FirstEngaged("rd_op_", "ping_op_") /\ parked[s] # NoOp
        BY <1>0, <2>3 DEF FirstEngaged
      <3>2. PICK p \in Ops : p = parked[s] /\ p # "write" /\ st[p] \in Suspended
        BY <2>1, <3>1 DEF SafeInv, TypeInv, TypeOK, ParkedSuspended
      <3>3. p = "read"
        <4>1. st[p] # "idle"
          BY <3>2, StateSets
        <4> QED
          BY <2>1, <3>2, <4>1 DEF SafeInv, Exclusion, OneWriterActive, Ops
      <3>4. st[p] # "do_fail+2"
        BY <3>3 DEF SafeInv, Exclusion, NoFail
      <3>5. PICK y : y = Resumed(st[p]) /\ y \in Holding \ {"do_fail+2", "do_fail+3", "idle"}
        BY <3>2, <3>4, ResumedHolds
      <3>6. /\ wr_block_' = p
            /\ st' = [st EXCEPT !["write"] = "do_maybe_suspend", ![p] = y]
            /\ ok'
        BY <1>0, <1>8, <2>1, <2>2, <2>3, <3>1, <3>2, <3>4, <3>5, ResumedHolds
        DEF WriteBetween, Invoke, InvokeOk
      <3>7. "do_maybe_suspend" \notin Holding
        BY DEF Holding, Writing
      <3>8. BlockOwner'
        BY <2>1, <3>2, <3>5, <3>6, <3>7
        DEF SafeInv, TypeInv, TypeOK, Exclusion, BlockOwner, NoOp, Ops
      <3>9. OneWriterActive' /\ NoFail'
        BY <2>1, <3>2, <3>3, <3>5, <3>6
        DEF SafeInv, TypeInv, TypeOK, Exclusion, OneWriterActive, NoFail, Ops
      <3> QED
        BY <3>6, <3>8, <3>9 DEF Exclusion
    <2>4. CASE FirstEngaged("rd_op_", "ping_op_") = NoOp
      <3>1. PICK v : SendFrame(v) /\ ok'
        BY <1>0, <1>8, <2>1, <2>2, <2>4 DEF WriteBetween
      <3> QED
        BY <1>2, <2>1, <3>1
    <2> QED
      BY <2>3, <2>4
  <1> QED
    BY <1>3, <1>4, <1>5, <1>6, <1>7, <1>8 DEF WriteHandler

\* The steps of a ping or a close.
LEMMA ControlExclusion ==
  ASSUME Discipline, SafeInv, NEW o \in {"ping", "close"},
         AsyncControl(o) \/ ControlHandler(o)
  PROVE  Exclusion'
  <1>0. /\ o \in Ops /\ ControlSlot(o) \in Slots /\ ok
        /\ st[o] \in Holding => wr_block_ = o
    BY DEF Ops, Slots, ControlSlot, SafeInv, Exclusion, BlockOwner
  <1>1. ASSUME ControlUpcall(o), st[o] \notin Suspended \cup {"idle"}
        PROVE  Exclusion'
    BY <1>0, <1>1, UpcallExclusion DEF ControlUpcall, PingUpcall, CloseUpcall, Slots
  <1>2. ASSUME SendControl(o), ok', OneWriterActive', wr_block_ \in {NoOp, o}
        PROVE  Exclusion'
    <2>1. "99" \in Holding
      BY DEF Holding, Writing
    <2> QED
      BY <1>0, <1>2, <2>1, TakeExclusion DEF SendControl
  <1>3. CASE AsyncControl(o)
    <2>1. MayStart(o) /\ st[o] \notin Holding \cup TearingDown /\ parked[ControlSlot(o)] = NoOp
      BY <1>0, <1>3, StartParked, StateSets DEF AsyncControl, MayStart, ControlSlot
    <2>2. CASE Emplace(o, ControlSlot(o), "2") /\ wr_block_' = wr_block_
      <3>1. "2" \in Suspended \ {"do_fail+2"}
        BY DEF Suspended
      <3>2. OneWriterActive'
        BY <1>0, <2>1, <2>2, StartOneWriter DEF Emplace
      <3> QED
        BY <1>0, <2>1, <2>2, <3>1, <3>2, EmplaceExclusion
    <2>3. CASE st' = [st EXCEPT ![o] = "aborted"] /\ UNCHANGED <<wr_block_, ok>>
      <3>1. "aborted" \notin Holding \cup {"do_fail+2", "do_fail+3"}
        BY DEF Holding, Writing
      <3>2. OneWriterActive'
        BY <1>0, <2>1, <2>3, StartOneWriter
      <3> QED
        BY <1>0, <2>1, <2>3, <3>1, <3>2, KeepExclusion
    <2>4. CASE wr_block_ = NoOp /\ SendControl(o) /\ ok' = ok
      <3>1. OneWriterActive'
        BY <1>0, <2>1, <2>4, StartOneWriter DEF SendControl
      <3> QED
        BY <1>0, <1>2, <2>4, <3>1
    <2> QED
      BY <1>3, <2>2, <2>3, <2>4 DEF AsyncControl
  <1>4. CASE ControlResumed(o)
    <2>1. st[o] = "3" /\ wr_block_ = o
      BY <1>0, <1>4 DEF ControlResumed, Holding
    <2>2. CASE ControlUpcall(o)
      BY <1>1, <2>1, <2>2 DEF Suspended
    <2>3. CASE SendControl(o) /\ ok' = (ok /\ OwnsBlock(o))
      <3>1. OneWriterActive'
        BY <1>0, <2>1, <2>3, MoveOneWriter DEF SendControl
      <3> QED
        BY <1>0, <1>2, <2>1, <2>3, <3>1, OwnsHolding DEF SafeInv, Exclusion
    <2> QED
      BY <1>4, <2>2, <2>3 DEF ControlResumed
  <1>5. CASE ControlDone(o) \/ ControlError(o)
    BY <1>1, <1>5 DEF ControlDone, ControlError, Suspended
  <1> QED
    BY <1>3, <1>4, <1>5 DEF ControlHandler

\* SafeInv is inductive under the discipline.
LEMMA SafeInvStep ==
  ASSUME Discipline
  PROVE  SafeInv /\ [Next]_vars => SafeInv'
  <1> SUFFICES ASSUME SafeInv, [Next]_vars PROVE SafeInv'
    OBVIOUS
  <1>1. TypeInv'
    BY TypeInvStep DEF SafeInv
  <1>2. CASE Open
    <2>1. \A o \in Ops : st[o] = "idle"
      BY <1>2 DEF Open, Active
    <2>2. BlockOwner'
      BY <1>2, <2>1, StateSets DEF Open, BlockOwner
    <2> QED
      BY <1>1, <1>2, <2>2 DEF Open, SafeInv, Exclusion, OneWriterActive, NoFail
  <1>3. CASE UNCHANGED vars
    BY <1>1, <1>3 DEF vars, streamVars, SafeInv, Exclusion, OneWriterActive, BlockOwner, NoFail
  <1>4. CASE Next /\ ~Open
    BY <1>1, <1>4, ReadExclusion, WriteExclusion, ControlExclusion
    DEF Next, ReadHandler, AsyncPing, PingHandler, AsyncClose, CloseHandler, SafeInv
  <1> QED
    BY <1>2, <1>3, <1>4

\* "The asynchronous interface supports one active read and one active write
\* simultaneously": an application that keeps to it, with a peer that makes no
\* protocol error, never has two composed operations write at once, never fails
\* an assertion and never leaves wr_block_ behind.
THEOREM OneWriterSafe ==
  ASSUME Discipline
  PROVE  Spec => []WritersTakeTurns
  <1>1. Init => SafeInv
    <2> SUFFICES ASSUME Init PROVE SafeInv
      OBVIOUS
    <2>1. TypeInv
      BY InitTypeInv
    <2>2. Exclusion
      BY StateSets DEF Init, Exclusion, OneWriterActive, BlockOwner, NoFail, Ops
    <2> QED
      BY <2>1, <2>2 DEF SafeInv
  <1>2. SafeInv => WritersTakeTurns
    <2> SUFFICES ASSUME SafeInv PROVE WritersTakeTurns
      OBVIOUS
    <2>1. WritesDoNotCompete
      BY DEF SafeInv, Exclusion, BlockOwner, WritesDoNotCompete, Holding
    <2>2. BlockHeldByRunning
      BY StateSets DEF SafeInv, Exclusion, BlockOwner, BlockHeldByRunning
    <2> QED
      BY <2>1, <2>2 DEF SafeInv, Exclusion, AssertsHold, WritersTakeTurns
  <1> QED
    BY <1>1, <1>2, SafeInvStep, PTL DEF Spec
=============================================================================
