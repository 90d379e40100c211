--------------------------- MODULE WsStreamProofs ---------------------------
(***************************************************************************)
(* Theorems about WsStream, for every value of its constants.              *)
(***************************************************************************)
EXTENDS WsStream, TLAPS

\* Where a write operation still has a next layer write to start.
Unfinished == {"do_maybe_suspend", "do_maybe_suspend+1", "do_maybe_suspend+2",
               "do_frag+2", "do_deflate+2", "do_mask_nofrag+2"}

\* The states of each operation.
ReadStates ==
  {"idle", "do_call_handler", "do_pong_resume", "do_pong_resume+1", "do_pong+1",
   "do_close_resume", "do_close_resume+1", "do_teardown", "do_fail+2",
   "do_fail+3", "do_fail+4"} \cup Reading \cup TearingDown
WriteStates ==
  {"idle", "aborted", "do_upcall", "do_deflate+3", "deflate_empty"} \cup Unfinished
ControlStates == {"idle", "aborted", "2", "3", "99"}

\* Every operation is in one of its own states.
OwnStates ==
  /\ st["read"] \in ReadStates
  /\ st["write"] \in WriteStates
  /\ st["ping"] \in ControlStates
  /\ st["close"] \in ControlStates
\* A write that is not finished has a frame or a part of one left to send.
RemainPositive == st["write"] \in Unfinished => w.remain > 0
\* A pausation holds an operation that suspended itself in it.
ParkedSuspended ==
  /\ parked["rd_op_"] # NoOp => parked["rd_op_"] = "read"
  /\ parked["wr_op_"] # NoOp => parked["wr_op_"] \in {"write", "close"}
  /\ parked["ping_op_"] # NoOp => parked["ping_op_"] = "ping"
  /\ \A s \in Slots : parked[s] # NoOp => st[parked[s]] \in Suspended

\* The fields of a write operation.
WriteOp == [entry : Entries \cup {NoOp}, op : {"data", "cont"},
            fin : BOOLEAN, remain : 0 .. MaxWrites]
\* TypeOK without the operations' states and the pausations.
ScalarTypes ==
  /\ failed_ \in BOOLEAN
  /\ wr_close_ \in BOOLEAN
  /\ wr_block_ \in Ops \cup {NoOp}
  /\ wr_cont \in BOOLEAN
  /\ fh \in {"ping", "pong", "close", NoOp}
  /\ w \in WriteOp
  /\ torn \in BOOLEAN
  /\ wire \in {"idle", "message", "closed", "broken"}
  /\ ok \in BOOLEAN

\* TypeOK made inductive.
TypeInv == TypeOK /\ OwnStates /\ RemainPositive /\ ParkedSuspended

-----------------------------------------------------------------------------
\* What pausation::emplace preserves.
LEMMA EmplaceType ==
  ASSUME NEW o \in Ops, NEW s \in Slots, NEW x, TypeInv, Emplace(o, s, x),
         \/ o = "read" /\ s = "rd_op_" /\ x \in {"do_pong_resume", "do_close_resume", "do_fail+2"}
         \/ o = "write" /\ s = "wr_op_" /\ x = "do_maybe_suspend+1"
         \/ o = "close" /\ s = "wr_op_" /\ x = "2"
         \/ o = "ping" /\ s = "ping_op_" /\ x = "2"
  PROVE  /\ parked' \in [Slots -> Ops \cup {NoOp}]
         /\ st' \in [Ops -> States]
         /\ ok' \in BOOLEAN
         /\ OwnStates'
         /\ ParkedSuspended'
  BY DEF Emplace, TypeInv, TypeOK, OwnStates, ParkedSuspended, Ops, Slots, NoOp,
     States, Suspended, Writing, Posted, Reading, TearingDown, Unfinished,
     ReadStates, WriteStates, ControlStates

\* What pausation::maybe_invoke preserves when operation o goes to state x.
LEMMA InvokeType ==
  ASSUME NEW o \in Ops, NEW s \in Slots, NEW x, NEW blk \in Ops \cup {NoOp},
         TypeInv, st[o] \notin Suspended, parked[s] # NoOp,
         Invoke(s, blk, o, x),
         x = "idle" \/ (o = "write" /\ x = "do_maybe_suspend")
  PROVE  /\ parked' \in [Slots -> Ops \cup {NoOp}]
         /\ st' \in [Ops -> States]
         /\ wr_block_' \in Ops \cup {NoOp}
         /\ OwnStates'
         /\ ParkedSuspended'
         /\ x = "idle" /\ st'["write"] \in Unfinished => st["write"] \in Unfinished
  <1> DEFINE p == parked[s]
  <1>1. /\ p \in Ops /\ p # o
        /\ st[p] \in Suspended
        /\ parked' = [parked EXCEPT ![s] = NoOp]
        /\ st' = [st EXCEPT ![o] = x, ![p] = Resumed(st[p])]
    BY DEF TypeInv, TypeOK, ParkedSuspended, Invoke
  <1>2. Resumed(st[p]) \in States \ Suspended
    BY <1>1 DEF Resumed, States, Suspended, Writing, Posted, Reading, TearingDown
  <1>3. x \in States
    BY DEF States, Posted
  <1>4. /\ parked' \in [Slots -> Ops \cup {NoOp}]
        /\ st' \in [Ops -> States]
        /\ wr_block_' \in Ops \cup {NoOp}
    BY <1>1, <1>2, <1>3 DEF TypeInv, TypeOK, Invoke
  <1>5. OwnStates'
    BY <1>1 DEF TypeInv, TypeOK, OwnStates, Resumed, Suspended, ReadStates, WriteStates,
       ControlStates, Unfinished, Ops, Reading, TearingDown
  <1>6. ParkedSuspended'
    BY <1>1 DEF TypeInv, TypeOK, OwnStates, ParkedSuspended, Slots, Suspended, ReadStates,
       WriteStates, ControlStates, Unfinished, Ops, NoOp, Reading, TearingDown
  <1>7. x = "idle" /\ st'["write"] \in Unfinished => st["write"] \in Unfinished
    BY <1>1 DEF TypeInv, TypeOK, OwnStates, Suspended, WriteStates, Unfinished, Ops
  <1> QED
    BY <1>4, <1>5, <1>6, <1>7

\* What the upcall of operation o preserves.
LEMMA UpcallType ==
  ASSUME NEW o \in Ops, NEW a \in Slots, NEW b \in Slots,
         TypeInv, st[o] \notin Suspended, Upcall(a, b, o)
  PROVE  /\ parked' \in [Slots -> Ops \cup {NoOp}]
         /\ st' \in [Ops -> States]
         /\ wr_block_' \in Ops \cup {NoOp}
         /\ ok' \in BOOLEAN
         /\ OwnStates'
         /\ ParkedSuspended'
         /\ st'["write"] \in Unfinished => st["write"] \in Unfinished
  <1> DEFINE s == FirstEngaged(a, b)
  <1>1. Released(o) \in Ops \cup {NoOp}
    BY DEF Released, TypeInv, TypeOK
  <1>2. CASE s = NoOp
    <2>1. /\ wr_block_' = Released(o)
          /\ st' = [st EXCEPT ![o] = "idle"]
          /\ parked' = parked /\ ok' = (ok /\ OwnsBlock(o))
      BY <1>2 DEF Upcall
    <2> QED
      BY <1>1, <2>1 DEF TypeInv, TypeOK, OwnStates, ParkedSuspended, States, ReadStates,
         WriteStates, ControlStates, Unfinished, Ops
  <1>3. CASE s # NoOp
    <2>1. s \in Slots /\ parked[s] # NoOp
      BY <1>3 DEF FirstEngaged, NoOp
    <2>2. PICK t \in Slots, blk \in Ops \cup {NoOp} : t = s /\ blk = Released(o)
      BY <1>1, <2>1
    <2>3. /\ Invoke(t, blk, o, "idle")
          /\ ok' = (ok /\ OwnsBlock(o) /\ InvokeOk(t, blk))
      BY <1>3, <2>2 DEF Upcall, Invoke, InvokeOk
    <2>4. ok' \in BOOLEAN
      BY <2>3 DEF TypeInv, TypeOK
    <2> QED
      BY <2>1, <2>2, <2>3, <2>4, InvokeType
  <1> QED
    BY <1>2, <1>3

\* The frames sent stay one of the automaton's states.
LEMMA WireType ==
  ASSUME TypeOK, NEW f, NEW STATE fin
  PROVE  WireAfter(f, fin) \in {"idle", "message", "closed", "broken"}
  BY DEF WireAfter, TypeOK

\* A step that ends with an upcall preserves TypeInv.
LEMMA UpcallTypeInv ==
  ASSUME NEW o \in Ops, NEW a \in Slots, NEW b \in Slots,
         TypeInv, st[o] \notin Suspended, Upcall(a, b, o),
         failed_' \in BOOLEAN, wr_close_' = wr_close_,
         wr_cont' = wr_cont, fh' = fh, w' = w, torn' = torn, wire' = wire
  PROVE  TypeInv'
  BY UpcallType DEF TypeInv, TypeOK, RemainPositive, Entries

\* So does a step that suspends an operation ...
LEMMA EmplaceTypeInv ==
  ASSUME NEW o \in Ops, NEW s \in Slots, NEW x, TypeInv, Emplace(o, s, x),
         \/ o = "read" /\ s = "rd_op_" /\ x \in {"do_pong_resume", "do_close_resume", "do_fail+2"}
         \/ o = "write" /\ s = "wr_op_" /\ x = "do_maybe_suspend+1"
         \/ o = "close" /\ s = "wr_op_" /\ x = "2"
         \/ o = "ping" /\ s = "ping_op_" /\ x = "2",
         o = "write" => w'.remain > 0,
         w' = w \/ (o = "write" /\ w' \in WriteOp),
         failed_' \in BOOLEAN, UNCHANGED <<wr_close_, wr_block_, wr_cont, fh, torn, wire>>
  PROVE  TypeInv'
  <1>1. RemainPositive'
    BY DEF TypeInv, TypeOK, RemainPositive, Emplace, Ops, Unfinished
  <1> QED
    BY <1>1, EmplaceType DEF TypeInv, TypeOK, Entries, WriteOp

\* ... and one that moves an operation without touching the pausations.
LEMMA MoveTypeInv ==
  ASSUME NEW o \in Ops, NEW x, TypeInv,
         st[o] \notin Suspended, st' = [st EXCEPT ![o] = x],
         \/ o = "read" /\ x \in ReadStates
         \/ o = "write" /\ x \in WriteStates
         \/ o \in {"ping", "close"} /\ x \in ControlStates,
         parked' = parked, ScalarTypes',
         o # "write" => w' = w,
         o = "write" /\ x \in Unfinished => w'.remain > 0
  PROVE  TypeInv'
  <1>1. st' \in [Ops -> States] /\ OwnStates'
    BY DEF TypeInv, TypeOK, OwnStates, Ops, States, ReadStates, WriteStates, ControlStates,
       Unfinished, Writing, Suspended, Posted, Reading, TearingDown
  <1>2. RemainPositive'
    BY DEF TypeInv, TypeOK, RemainPositive, Ops
  <1>3. ParkedSuspended'
    BY DEF TypeInv, TypeOK, ParkedSuspended, Slots
  <1> QED
    BY <1>1, <1>2, <1>3 DEF TypeInv, TypeOK, ScalarTypes, WriteOp, Entries

LEMMA ReadMove ==
  ASSUME NEW x \in ReadStates, TypeInv, st["read"] \notin Suspended,
         st' = [st EXCEPT !["read"] = x], parked' = parked, w' = w, ScalarTypes'
  PROVE  TypeInv'
  BY MoveTypeInv DEF Ops

LEMMA WriteMove ==
  ASSUME NEW x \in WriteStates, TypeInv, st["write"] \notin Suspended,
         st' = [st EXCEPT !["write"] = x], parked' = parked, ScalarTypes',
         x \in Unfinished => w'.remain > 0
  PROVE  TypeInv'
  BY MoveTypeInv DEF Ops

LEMMA ControlMove ==
  ASSUME NEW o \in {"ping", "close"}, NEW x \in ControlStates, TypeInv,
         st[o] \notin Suspended,
         st' = [st EXCEPT ![o] = x], parked' = parked, w' = w, ScalarTypes'
  PROVE  TypeInv'
  BY MoveTypeInv DEF Ops

LEMMA TypeInvScalars == TypeInv => ScalarTypes
  BY DEF TypeInv, TypeOK, ScalarTypes, WriteOp

\* Sending a frame of the write operation preserves TypeInv.
LEMMA SendFrameTypeInv ==
  ASSUME NEW v \in WriteOp, v.remain > 0, TypeInv,
         st["write"] \notin Suspended, SendFrame(v),
         ok' \in BOOLEAN, UNCHANGED <<wr_close_, parked, fh, torn>>
  PROVE  TypeInv'
  <1>1. PICK left \in 0 .. MaxWrites : left = v.remain - 1
    BY ConstantsAssumption DEF WriteOp
  <1>2. Fields(v, v.op, left) \in WriteOp
    BY DEF WriteOp, Fields
  <1>3. PICK u \in WriteOp : u = Fields(v, v.op, left) /\ u.remain = left
    BY <1>2 DEF Fields
  <1>4. PICK x \in WriteStates :
          /\ st' = [st EXCEPT !["write"] = x]
          /\ x \in Unfinished => left # 0
    BY <1>1 DEF SendFrame, WriteStates, Unfinished
  <1>5. wr_block_' = "write" /\ w' = u
    BY <1>1, <1>3 DEF SendFrame
  <1>6. wire' \in {"idle", "message", "closed", "broken"}
    BY DEF SendFrame, WireAfter, TypeInv, TypeOK
  <1>7. failed_' \in BOOLEAN
    BY DEF SendFrame, TypeInv, TypeOK
  <1>8. wr_cont' \in BOOLEAN
    BY DEF SendFrame, TypeInv, TypeOK, WriteOp
  <1>9. ScalarTypes'
    BY <1>3, <1>5, <1>6, <1>7, <1>8, TypeInvScalars DEF ScalarTypes, Ops, WriteOp, Entries
  <1>10. x \in Unfinished => w'.remain > 0
    BY <1>3, <1>4, <1>5, ConstantsAssumption
  <1> QED
    BY <1>4, <1>9, <1>10, WriteMove

\* do_maybe_suspend preserves TypeInv.
LEMMA MaybeSuspendTypeInv ==
  ASSUME NEW v \in WriteOp, v.remain > 0, TypeInv,
         st["write"] \notin Suspended, MaybeSuspend(v), UNCHANGED <<fh, torn>>
  PROVE  TypeInv'
  <1>1. "write" \in Ops /\ "wr_op_" \in Slots
    BY DEF Ops, Slots
  <1>2. CASE /\ Emplace("write", "wr_op_", "do_maybe_suspend+1")
             /\ w' = v
             /\ UNCHANGED <<streamVars, wire>>
    BY <1>1, <1>2, EmplaceTypeInv DEF streamVars, TypeInv, TypeOK, WriteOp
  <1>3. CASE /\ st' = [st EXCEPT !["write"] = "aborted"]
             /\ w' = v
             /\ UNCHANGED <<streamVars, parked, wire, ok>>
    <2>1. "aborted" \in WriteStates \ Unfinished
      BY DEF WriteStates, Unfinished
    <2>2. ScalarTypes'
      BY <1>3, TypeInvScalars DEF ScalarTypes, streamVars, WriteOp, Entries
    <2> QED
      BY <1>3, <2>1, <2>2, WriteMove
  <1>4. CASE SendFrame(v) /\ UNCHANGED <<wr_close_, parked, ok>>
    BY <1>4, SendFrameTypeInv DEF TypeInv, TypeOK
  <1> QED
    BY <1>2, <1>3, <1>4 DEF MaybeSuspend

\* The end of a read operation preserves TypeInv.
LEMMA ReadUpcallTypeInv ==
  ASSUME TypeInv, st["read"] \notin Suspended, ReadUpcall, failed_' \in BOOLEAN,
         UNCHANGED <<wr_close_, wr_cont, fh, w, torn, wire>>
  PROVE  TypeInv'
  BY UpcallTypeInv DEF ReadUpcall, Ops, Slots

\* So does a reply that starts.
LEMMA ReadWritesTypeInv ==
  ASSUME TypeInv, NEW f, NEW x \in ReadStates, st["read"] \notin Suspended,
         ReadWrites(f, x), wr_close_' \in BOOLEAN,
         UNCHANGED <<failed_, wr_cont, fh, w, torn>>
  PROVE  TypeInv'
  <1>1. wire' \in {"idle", "message", "closed", "broken"}
    BY WireType DEF ReadWrites, TypeInv
  <1>2. ScalarTypes'
    BY <1>1, TypeInvScalars DEF ScalarTypes, ReadWrites, Ops, WriteOp, Entries
  <1> QED
    BY <1>2, ReadMove DEF ReadWrites

\* So does the close frame that fails the connection.
LEMMA SendFailTypeInv ==
  ASSUME TypeInv, st["read"] \notin Suspended, SendFail,
         UNCHANGED <<wr_cont, fh, w, torn>>
  PROVE  TypeInv'
  <1>1. wire' \in {"idle", "message", "closed", "broken"}
    BY WireType DEF SendFail, TypeInv
  <1>2. ScalarTypes'
    BY <1>1, TypeInvScalars DEF ScalarTypes, SendFail, Ops, WriteOp, Entries
  <1>3. "do_fail+4" \in ReadStates
    BY DEF ReadStates
  <1> QED
    BY <1>2, <1>3, ReadMove DEF SendFail

\* So does the teardown.
LEMMA StartTeardownTypeInv ==
  ASSUME TypeInv, st["read"] \notin Suspended, NEW x \in TearingDown,
         StartTeardown(x), failed_' \in BOOLEAN, UNCHANGED <<wr_cont, fh, w>>
  PROVE  TypeInv'
  <1>1. x \in ReadStates
    BY DEF ReadStates
  <1>2. ScalarTypes'
    BY TypeInvScalars DEF ScalarTypes, StartTeardown, WriteOp, Entries
  <1> QED
    BY <1>1, <1>2, ReadMove DEF StartTeardown

\* So does do_fail.
LEMMA DoFailTypeInv ==
  ASSUME TypeInv, st["read"] \notin Suspended, NEW f \in BOOLEAN, DoFail(f),
         UNCHANGED <<wr_cont, fh, w>>
  PROVE  TypeInv'
  <1>1. CASE StartTeardown("do_fail+5") /\ failed_' = f
    BY <1>1, StartTeardownTypeInv DEF TearingDown
  <1>2. CASE /\ Emplace("read", "rd_op_", "do_fail+2") /\ failed_' = f
             /\ UNCHANGED <<wr_close_, wr_block_, torn, wire>>
    BY <1>2, EmplaceTypeInv DEF Ops, Slots
  <1>3. CASE SendFail /\ UNCHANGED torn
    BY <1>3, SendFailTypeInv
  <1> QED
    BY <1>1, <1>2, <1>3 DEF DoFail

\* So does the end of a compressed payload.
LEMMA InflatedTypeInv ==
  ASSUME TypeInv, st["read"] \notin Suspended, Inflated,
         UNCHANGED <<wr_cont, fh, w>>
  PROVE  TypeInv'
  BY ReadUpcallTypeInv, DoFailTypeInv DEF Inflated

-----------------------------------------------------------------------------
\* The steps of the read operation that start, resume or end it.
LEMMA ReadStepTypeInv ==
  ASSUME TypeInv, \/ AsyncRead \/ ReadAborted \/ ReadError \/ PongResumed
                  \/ CloseResumed \/ FailResumed \/ PongSent \/ CloseSent
                  \/ ReadSendError \/ TeardownDone
  PROVE  TypeInv'
  <1>0. failed_ \in BOOLEAN /\ wr_close_ \in BOOLEAN
    BY DEF TypeInv, TypeOK
  <1>1. CASE AsyncRead
    <2>1. PICK x \in ReadStates : st' = [st EXCEPT !["read"] = x]
      BY <1>1 DEF AsyncRead, ReadStates, Reading
    <2>2. st["read"] \notin Suspended
      BY <1>1 DEF AsyncRead, MayStart, Suspended
    <2>3. ScalarTypes' /\ parked' = parked /\ w' = w
      BY <1>1, TypeInvScalars DEF AsyncRead, streamVars, ScalarTypes, WriteOp, Entries
    <2> QED
      BY <2>1, <2>2, <2>3, ReadMove
  <1>2. CASE ReadAborted
    BY <1>2, ReadUpcallTypeInv DEF ReadAborted, Suspended
  <1>3. CASE ReadError
    BY <1>3, ReadUpcallTypeInv DEF ReadError, Suspended, Reading
  <1>4. CASE ReadSendError
    BY <1>4, ReadUpcallTypeInv DEF ReadSendError, Suspended
  <1>5. CASE TeardownDone
    BY <1>0, <1>5, ReadUpcallTypeInv DEF TeardownDone, TearingDown, Suspended
  <1>6. CASE PongSent
    <2>1. st["read"] \notin Suspended /\ "do_read_fh" \in ReadStates
      BY <1>6 DEF PongSent, Suspended, ReadStates, Reading
    <2>2. ScalarTypes'
      BY <1>6, TypeInvScalars DEF PongSent, ScalarTypes, WriteOp, Entries
    <2> QED
      BY <1>6, <2>1, <2>2, ReadMove DEF PongSent
  <1>7. CASE CloseSent
    <2>1. st["read"] \notin Suspended /\ {"do_teardown+1", "do_fail+5"} = TearingDown
      BY <1>7 DEF CloseSent, Suspended, TearingDown
    <2> QED
      BY <1>0, <1>7, <2>1, StartTeardownTypeInv DEF CloseSent
  <1>8. CASE PongResumed
    <2>1. st["read"] \notin Suspended /\ {"do_read_fh", "do_pong+1"} \subseteq ReadStates
      BY <1>8 DEF PongResumed, Suspended, ReadStates, Reading
    <2>2. CASE ReadUpcall /\ UNCHANGED wire
      BY <1>0, <1>8, <2>1, <2>2, ReadUpcallTypeInv DEF PongResumed
    <2>3. CASE /\ wr_block_' = NoOp
               /\ ok' = (ok /\ wr_block_ \in {NoOp, "read"})
               /\ st' = [st EXCEPT !["read"] = "do_read_fh"]
               /\ UNCHANGED <<parked, wire>>
      <3>1. ScalarTypes'
        BY <1>8, <2>3, TypeInvScalars DEF PongResumed, ScalarTypes, WriteOp, Entries
      <3> QED
        BY <1>8, <2>1, <2>3, <3>1, ReadMove DEF PongResumed
    <2>4. CASE ReadWrites("pong", "do_pong+1")
      BY <1>0, <1>8, <2>1, <2>4, ReadWritesTypeInv DEF PongResumed
    <2> QED
      BY <1>8, <2>2, <2>3, <2>4 DEF PongResumed
  <1>9. CASE CloseResumed
    <2>1. st["read"] \notin Suspended /\ "do_teardown" \in ReadStates
      BY <1>9 DEF CloseResumed, Suspended, ReadStates
    <2>2. CASE ReadUpcall /\ UNCHANGED <<wr_close_, wire>>
      BY <1>0, <1>9, <2>1, <2>2, ReadUpcallTypeInv DEF CloseResumed
    <2>3. CASE ReadWrites("close", "do_teardown") /\ wr_close_' = TRUE
      BY <1>9, <2>1, <2>3, ReadWritesTypeInv DEF CloseResumed
    <2> QED
      BY <1>9, <2>2, <2>3 DEF CloseResumed
  <1>10. CASE FailResumed
    <2>1. st["read"] \notin Suspended
      BY <1>10 DEF FailResumed, Suspended
    <2>2. CASE ReadUpcall /\ UNCHANGED <<failed_, wr_close_, wire>>
      BY <1>0, <1>10, <2>1, <2>2, ReadUpcallTypeInv DEF FailResumed
    <2>3. CASE SendFail
      BY <1>10, <2>1, <2>3, SendFailTypeInv DEF FailResumed
    <2> QED
      BY <1>10, <2>2, <2>3 DEF FailResumed
  <1> QED
    BY <1>1, <1>2, <1>3, <1>4, <1>5, <1>6, <1>7, <1>8, <1>9, <1>10

\* The steps of the read operation on octets from the peer.
LEMMA ReceiveTypeInv ==
  ASSUME TypeInv, \/ \E k \in FrameKinds : ReadHeader(k)
                  \/ ReadPayload \/ InflatePayload \/ ReadControl
  PROVE  TypeInv'
  <1>0. failed_ \in BOOLEAN /\ wr_close_ \in BOOLEAN
    BY DEF TypeInv, TypeOK
  <1>1. st["read"] \notin Suspended
    BY DEF ReadHeader, ReadPayload, InflatePayload, ReadControl, Suspended
  <1>2. ASSUME NEW x \in ReadStates, st' = [st EXCEPT !["read"] = x],
               fh' \in {"ping", "pong", "close", NoOp}, failed_' \in BOOLEAN,
               UNCHANGED <<wr_close_, wr_block_, wr_cont, parked, w, torn, wire, ok>>
        PROVE  TypeInv'
    <2>1. ScalarTypes'
      BY <1>2, TypeInvScalars DEF ScalarTypes, WriteOp, Entries
    <2> QED
      BY <1>1, <1>2, <2>1, ReadMove
  <1>3. ASSUME NEW k \in FrameKinds, ReadHeader(k) PROVE TypeInv'
    <2>1. CASE k = "bad" /\ DoFail(failed_) /\ UNCHANGED fh
      BY <1>0, <1>1, <1>3, <2>1, DoFailTypeInv DEF ReadHeader
    <2>2. CASE /\ k \in {"ping", "pong", "close"} /\ fh' = k
               /\ st' = [st EXCEPT !["read"] = "do_control_payload"]
               /\ UNCHANGED <<failed_, wr_close_, wr_block_, parked, torn, wire, ok>>
      <3>1. "do_control_payload" \in ReadStates
        BY DEF ReadStates, Reading
      <3> QED
        BY <1>0, <1>2, <1>3, <2>2, <3>1 DEF ReadHeader
    <2>3. CASE /\ \E x \in PayloadStates : st' = [st EXCEPT !["read"] = x]
               /\ UNCHANGED <<failed_, wr_close_, wr_block_, parked, fh, torn, wire, ok>>
      <3>1. PayloadStates \subseteq ReadStates
        BY DEF PayloadStates, ReadStates, Reading
      <3>2. fh' \in {"ping", "pong", "close", NoOp}
        BY <2>3 DEF TypeInv, TypeOK
      <3> QED
        BY <1>0, <1>2, <1>3, <2>3, <3>1, <3>2 DEF ReadHeader
    <2>4. CASE ReadUpcall /\ UNCHANGED <<failed_, wr_close_, fh, torn, wire>>
      BY <1>0, <1>1, <1>3, <2>4, ReadUpcallTypeInv DEF ReadHeader
    <2>5. CASE Inflated /\ UNCHANGED fh
      BY <1>1, <1>3, <2>5, InflatedTypeInv DEF ReadHeader
    <2> QED
      BY <1>3, <2>1, <2>2, <2>3, <2>4, <2>5 DEF ReadHeader
  <1>4. CASE ReadPayload
    BY <1>0, <1>1, <1>4, ReadUpcallTypeInv, DoFailTypeInv DEF ReadPayload
  <1>5. CASE InflatePayload
    <2>1. CASE /\ failed_' = FALSE
               /\ UNCHANGED <<wr_close_, wr_block_, parked, st, torn, wire, ok>>
      <3>1. ScalarTypes'
        BY <1>5, <2>1, TypeInvScalars DEF InflatePayload, ScalarTypes, WriteOp, Entries
      <3>2. UNCHANGED <<w, parked, st>>
        BY <1>5, <2>1 DEF InflatePayload
      <3>3. OwnStates' /\ RemainPositive' /\ ParkedSuspended'
        BY <3>2 DEF TypeInv, OwnStates, RemainPositive, ParkedSuspended
      <3> QED
        BY <3>1, <3>2, <3>3 DEF TypeInv, TypeOK, ScalarTypes, WriteOp, Entries
    <2> QED
      BY <1>1, <1>5, <2>1, InflatedTypeInv DEF InflatePayload
  <1>6. CASE ReadControl
    <2>0. UNCHANGED <<wr_cont, fh, w>>
      BY <1>6 DEF ReadControl
    <2>1. CASE /\ st' = [st EXCEPT !["read"] = "do_read_fh"]
               /\ UNCHANGED <<failed_, wr_close_, wr_block_, parked, torn, wire, ok>>
      <3>1. "do_read_fh" \in ReadStates
        BY DEF ReadStates, Reading
      <3>2. fh' \in {"ping", "pong", "close", NoOp}
        BY <2>0 DEF TypeInv, TypeOK
      <3> QED
        BY <1>0, <1>2, <2>0, <2>1, <3>1, <3>2
    <2>2. CASE /\ \/ Emplace("read", "rd_op_", "do_pong_resume")
                  \/ Emplace("read", "rd_op_", "do_close_resume")
               /\ UNCHANGED <<failed_, wr_close_, wr_block_, torn, wire>>
      <3>1. "read" \in Ops /\ "rd_op_" \in Slots
        BY DEF Ops, Slots
      <3> QED
        BY <1>0, <2>0, <2>2, <3>1, EmplaceTypeInv
    <2>3. CASE /\ ReadWrites("pong", "do_pong+1")
               /\ UNCHANGED <<failed_, wr_close_, torn>>
      <3>1. "do_pong+1" \in ReadStates
        BY DEF ReadStates
      <3> QED
        BY <1>0, <1>1, <2>0, <2>3, <3>1, ReadWritesTypeInv
    <2>4. CASE DoFail(failed_)
      BY <1>0, <1>1, <2>0, <2>4, DoFailTypeInv
    <2>5. CASE StartTeardown("do_teardown+1") /\ UNCHANGED failed_
      BY <1>0, <1>1, <2>0, <2>5, StartTeardownTypeInv DEF TearingDown
    <2>6. CASE /\ ReadWrites("close", "do_teardown") /\ wr_close_' = TRUE
               /\ UNCHANGED <<failed_, torn>>
      <3>1. "do_teardown" \in ReadStates
        BY DEF ReadStates
      <3> QED
        BY <1>0, <1>1, <2>0, <2>6, <3>1, ReadWritesTypeInv
    <2> QED
      BY <1>6, <2>1, <2>2, <2>3, <2>4, <2>5, <2>6 DEF ReadControl
  <1> QED
    BY <1>3, <1>4, <1>5, <1>6

\* The steps of the write operation.
LEMMA WriteTypeInv ==
  ASSUME TypeInv,
         \/ \E fin \in BOOLEAN, e \in Entries, n \in 1 .. MaxWrites : AsyncWrite(fin, e, n)
         \/ WriteHandler
  PROVE  TypeInv'
  <1>0. failed_ \in BOOLEAN /\ wr_close_ \in BOOLEAN /\ w \in WriteOp
    BY DEF TypeInv, TypeOK, WriteOp
  <1>1. ASSUME st["write"] \notin Suspended, WriteUpcall, failed_' \in BOOLEAN,
               UNCHANGED <<wr_close_, wr_cont, fh, w, torn, wire>>
        PROVE  TypeInv'
    BY <1>1, UpcallTypeInv DEF WriteUpcall, Ops, Slots
  <1>2. ASSUME NEW fin \in BOOLEAN, NEW e \in Entries, NEW n \in 1 .. MaxWrites,
               AsyncWrite(fin, e, n)
        PROVE  TypeInv'
    <2>1. st["write"] \notin Suspended
      BY <1>2 DEF AsyncWrite, MayStart, Suspended
    <2>2. PICK v \in WriteOp : v.remain > 0 /\ MaybeSuspend(v)
      BY <1>2, ConstantsAssumption DEF AsyncWrite, WriteOp
    <2> QED
      BY <1>2, <2>1, <2>2, MaybeSuspendTypeInv DEF AsyncWrite
  <1>3. CASE WriteAborted
    BY <1>0, <1>1, <1>3 DEF WriteAborted, Suspended
  <1>4. CASE WriteYielded
    <2>1. st["write"] \notin Suspended /\ w.remain > 0
      BY <1>4 DEF WriteYielded, Suspended, Unfinished, TypeInv, RemainPositive
    <2>2. PICK v \in WriteOp : v.remain > 0 /\ MaybeSuspend(v)
      BY <1>0, <1>4, <2>1 DEF WriteYielded
    <2> QED
      BY <1>4, <2>1, <2>2, MaybeSuspendTypeInv DEF WriteYielded
  <1>5. CASE WriteResumed
    <2>1. st["write"] \notin Suspended /\ w.remain > 0
      BY <1>5 DEF WriteResumed, Suspended, Unfinished, TypeInv, RemainPositive
    <2>2. CASE WriteUpcall /\ UNCHANGED <<failed_, wr_cont, w, wire>>
      BY <1>0, <1>1, <1>5, <2>1, <2>2 DEF WriteResumed
    <2>3. CASE SendFrame(w) /\ ok' = (ok /\ OwnsBlock("write")) /\ UNCHANGED parked
      <3>1. PICK v \in WriteOp : v.remain > 0 /\ SendFrame(v)
        BY <1>0, <2>1, <2>3
      <3>2. ok' \in BOOLEAN
        BY <2>3 DEF TypeInv, TypeOK
      <3> QED
        BY <1>5, <2>1, <2>3, <3>1, <3>2, SendFrameTypeInv DEF WriteResumed
    <2> QED
      BY <1>5, <2>2, <2>3 DEF WriteResumed
  <1>6. CASE WriteError
    BY <1>1, <1>6 DEF WriteError, Writing, Suspended
  <1>7. CASE WriteDone
    BY <1>0, <1>1, <1>7 DEF WriteDone, Suspended
  <1>8. CASE WritePart
    <2>1. st["write"] \notin Suspended /\ w.remain > 0
      BY <1>8 DEF WritePart, Suspended, Unfinished, TypeInv, RemainPositive
    <2>2. w' \in WriteOp /\ w'.remain = w.remain - 1
      BY <1>0, <1>8, <2>1, ConstantsAssumption DEF WritePart, Fields, WriteOp
    <2>3. w' \in WriteOp
      BY <2>2
    <2>4. ScalarTypes'
      BY <1>8, <2>3, TypeInvScalars DEF WritePart, ScalarTypes, streamVars, WriteOp, Entries
    <2>5. parked' = parked
      BY <1>8 DEF WritePart
    <2>6. CASE w.remain = 1
      <3>1. st' = [st EXCEPT !["write"] = "do_upcall"]
        BY <1>8, <2>6 DEF WritePart
      <3>2. "do_upcall" \in WriteStates \ Unfinished
        BY DEF WriteStates, Unfinished
      <3> QED
        BY <2>1, <2>4, <2>5, <3>1, <3>2, WriteMove
    <2>7. CASE w.remain # 1
      <3>1. w'.remain > 0
        BY <1>0, <2>1, <2>2, <2>7 DEF WriteOp
      <3>2. st' = [st EXCEPT !["write"] = "do_mask_nofrag+2"]
        BY <1>8, <2>7 DEF WritePart, TypeInv, TypeOK
      <3>3. "do_mask_nofrag+2" \in WriteStates
        BY DEF WriteStates, Unfinished
      <3> QED
        BY <2>1, <2>4, <2>5, <3>1, <3>2, <3>3, WriteMove
    <2> QED
      BY <2>6, <2>7
  <1>9. CASE WriteBetween
    <2>1. st["write"] \notin Suspended /\ w.remain > 0
      BY <1>9 DEF WriteBetween, Suspended, Unfinished, TypeInv, RemainPositive
    <2>2. PICK v \in WriteOp : v = Fields(w, "cont", w.remain) /\ v.remain = w.remain
      <3>1. Fields(w, "cont", w.remain) \in WriteOp
        BY <1>0 DEF Fields, WriteOp
      <3> QED
        BY <3>1 DEF Fields
    <2>3. PICK blk \in Ops \cup {NoOp} :
            blk = IF w.entry = "nomask_frag" THEN Released("write") ELSE NoOp
      BY DEF Released, TypeInv, TypeOK
    <2>4. CASE FirstEngaged("rd_op_", "ping_op_") # NoOp
      <3>1. PICK s \in Slots : s = FirstEngaged("rd_op_", "ping_op_") /\ parked[s] # NoOp
        BY <2>4 DEF FirstEngaged, Slots
      <3>2. /\ Invoke(s, blk, "write", "do_maybe_suspend")
            /\ w' = v
            /\ UNCHANGED <<failed_, wr_cont, wire, wr_close_, fh, torn>>
        BY <1>9, <2>2, <2>3, <2>4, <3>1 DEF WriteBetween, Invoke
      <3>3. ok' \in BOOLEAN
        BY <1>9, <2>4 DEF WriteBetween, TypeInv, TypeOK
      <3>4. /\ parked' \in [Slots -> Ops \cup {NoOp}]
            /\ st' \in [Ops -> States]
            /\ wr_block_' \in Ops \cup {NoOp}
            /\ OwnStates'
            /\ ParkedSuspended'
        BY <2>1, <3>1, <3>2, InvokeType DEF Ops
      <3>5. RemainPositive'
        BY <2>1, <2>2, <3>2 DEF RemainPositive
      <3> QED
        BY <3>2, <3>3, <3>4, <3>5 DEF TypeInv, TypeOK, WriteOp, Entries
    <2>5. CASE FirstEngaged("rd_op_", "ping_op_") = NoOp
      <3>1. SendFrame(v) /\ UNCHANGED <<parked, wr_close_, fh, torn>>
        BY <1>9, <2>2, <2>5 DEF WriteBetween, SendFrame
      <3>2. ok' \in BOOLEAN
        BY <1>9, <2>5 DEF WriteBetween, TypeInv, TypeOK
      <3> QED
        BY <2>1, <2>2, <3>1, <3>2, SendFrameTypeInv
    <2> QED
      BY <2>4, <2>5
  <1> QED
    BY <1>2, <1>3, <1>4, <1>5, <1>6, <1>7, <1>8, <1>9 DEF WriteHandler

\* The steps of a ping or a close.
LEMMA ControlTypeInv ==
  ASSUME TypeInv, NEW o \in {"ping", "close"}, AsyncControl(o) \/ ControlHandler(o)
  PROVE  TypeInv'
  <1>0. failed_ \in BOOLEAN /\ wr_close_ \in BOOLEAN /\ o \in Ops
    BY DEF TypeInv, TypeOK, Ops
  <1>1. ASSUME st[o] \notin Suspended, ControlUpcall(o), failed_' \in BOOLEAN,
               UNCHANGED <<wr_close_, wr_cont, fh, w, torn, wire>>
        PROVE  TypeInv'
    BY <1>0, <1>1, UpcallTypeInv DEF ControlUpcall, PingUpcall, CloseUpcall, Slots
  <1>2. ASSUME st[o] \notin Suspended, SendControl(o), ok' \in BOOLEAN,
               UNCHANGED <<failed_, wr_cont, fh, w, torn>>
        PROVE  TypeInv'
    <2>1. wire' \in {"idle", "message", "closed", "broken"}
      BY <1>2 DEF SendControl, WireAfter, TypeInv, TypeOK
    <2>2. ScalarTypes'
      BY <1>0, <1>2, <2>1, TypeInvScalars DEF SendControl, ScalarTypes, WriteOp, Entries
    <2>3. "99" \in ControlStates /\ st' = [st EXCEPT ![o] = "99"] /\ parked' = parked
      BY <1>2 DEF SendControl, ControlStates
    <2> QED
      BY <1>2, <2>2, <2>3, ControlMove
  <1>3. CASE AsyncControl(o)
    <2>0. st[o] \notin Suspended /\ UNCHANGED <<failed_, wr_cont, fh, w, torn>>
      BY <1>3 DEF AsyncControl, MayStart, Suspended
    <2>1. CASE Emplace(o, ControlSlot(o), "2") /\ UNCHANGED <<wr_close_, wr_block_, wire>>
      <3>1. CASE o = "ping"
        BY <1>0, <2>0, <2>1, <3>1, EmplaceTypeInv DEF ControlSlot, Slots
      <3>2. CASE o = "close"
        BY <1>0, <2>0, <2>1, <3>2, EmplaceTypeInv DEF ControlSlot, Slots
      <3> QED
        BY <3>1, <3>2
    <2>2. CASE /\ st' = [st EXCEPT ![o] = "aborted"]
               /\ UNCHANGED <<wr_close_, wr_block_, parked, wire, ok>>
      <3>1. ScalarTypes'
        BY <2>0, <2>2, TypeInvScalars DEF ScalarTypes, WriteOp, Entries
      <3>2. "aborted" \in ControlStates
        BY DEF ControlStates
      <3> QED
        BY <2>0, <2>2, <3>1, <3>2, ControlMove
    <2>3. CASE SendControl(o) /\ UNCHANGED ok
      <3>1. ok' \in BOOLEAN
        BY <2>3 DEF TypeInv, TypeOK
      <3> QED
        BY <1>2, <2>0, <2>3, <3>1
    <2> QED
      BY <1>3, <2>1, <2>2, <2>3 DEF AsyncControl
  <1>4. CASE ControlResumed(o)
    <2>0. st[o] \notin Suspended /\ UNCHANGED <<failed_, wr_cont, fh, w, torn>>
      BY <1>4 DEF ControlResumed, Suspended
    <2>1. CASE ControlUpcall(o) /\ UNCHANGED <<wr_close_, wire>>
      BY <1>0, <1>1, <2>0, <2>1
    <2>2. CASE SendControl(o) /\ ok' = (ok /\ OwnsBlock(o))
      <3>1. ok' \in BOOLEAN
        BY <2>2 DEF TypeInv, TypeOK
      <3> QED
        BY <1>2, <2>0, <2>2, <3>1
    <2> QED
      BY <1>4, <2>1, <2>2 DEF ControlResumed
  <1>5. CASE ControlDone(o)
    BY <1>0, <1>1, <1>5 DEF ControlDone, Suspended
  <1>6. CASE ControlError(o)
    BY <1>1, <1>6 DEF ControlError, Suspended
  <1> QED
    BY <1>3, <1>4, <1>5, <1>6 DEF ControlHandler

\* TypeInv is an inductive invariant.
LEMMA TypeInvStep == TypeInv /\ [Next]_vars => TypeInv'
  <1> SUFFICES ASSUME TypeInv, [Next]_vars PROVE TypeInv'
    OBVIOUS
  <1>1. CASE Open
    <2>1. ScalarTypes'
      BY <1>1, TypeInvScalars DEF Open, ScalarTypes, WriteOp, Entries
    <2>2. OwnStates' /\ RemainPositive' /\ ParkedSuspended'
      BY <1>1 DEF Open, TypeInv, OwnStates, RemainPositive, ParkedSuspended
    <2> QED
      BY <1>1, <2>1, <2>2 DEF Open, TypeInv, TypeOK, ScalarTypes, WriteOp, Entries
  <1>2. CASE UNCHANGED vars
    <2>1. ScalarTypes'
      BY <1>2, TypeInvScalars DEF vars, streamVars, ScalarTypes, WriteOp, Entries
    <2>2. OwnStates' /\ RemainPositive' /\ ParkedSuspended'
      BY <1>2 DEF vars, TypeInv, OwnStates, RemainPositive, ParkedSuspended
    <2> QED
      BY <1>2, <2>1, <2>2 DEF vars, TypeInv, TypeOK, ScalarTypes, WriteOp, Entries
  <1> QED
    BY <1>1, <1>2, ReadStepTypeInv, ReceiveTypeInv, WriteTypeInv, ControlTypeInv
    DEF Next, ReadHandler, AsyncPing, PingHandler, AsyncClose, CloseHandler

\* The stream that open() leaves behind satisfies TypeInv.
LEMMA InitTypeInv == Init => TypeInv
  <1> SUFFICES ASSUME Init PROVE TypeInv
    OBVIOUS
  <1>1. w \in WriteOp
    BY ConstantsAssumption DEF Init, WriteOp
  <1>2. st \in [Ops -> States] /\ parked \in [Slots -> Ops \cup {NoOp}]
    BY DEF Init, States
  <1>3. OwnStates
    BY DEF Init, OwnStates, ReadStates, WriteStates, ControlStates, Ops
  <1>4. RemainPositive /\ ParkedSuspended
    BY DEF Init, RemainPositive, ParkedSuspended, Unfinished, Slots, Ops
  <1> QED
    BY <1>1, <1>2, <1>3, <1>4 DEF Init, TypeInv, TypeOK, WriteOp

\* Type correctness of the stream and its composed operations, whatever
\* operations the application starts together and whatever the peer sends.
THEOREM TypeCorrect == Spec => []TypeOK
  <1>1. TypeInv => TypeOK
    BY DEF TypeInv
  <1> QED
    BY <1>1, InitTypeInv, TypeInvStep, PTL DEF Spec
=============================================================================
