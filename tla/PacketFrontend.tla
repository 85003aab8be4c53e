--------------------------- MODULE PacketFrontend ---------------------------
(***************************************************************************)
(* The LSC-1 endpoint in RTL (asic_core/rtl/lsc1_packet_frontend.sv with   *)
(* its receiver, validator, alias checks, BLAKE3 lifecycle shell, payload  *)
(* mux and transmitter), at the granularity of the clock: one step is one  *)
(* rising edge, on which every register is updated from the values before  *)
(* the edge.  A pulse register raised on one edge is seen by the module it *)
(* drives on the next.                                                     *)
(*                                                                         *)
(* A frame is a record, not bytes; its framing and static defects are one  *)
(* status.  The multiplier and the encoder take any number of edges        *)
(* (StreamAlu is the byte-serial datapath below them), as does the host    *)
(* that drains a response.  Of the status registers only the fault pin is  *)
(* kept: last_status and last_fault are read by the STATUS reply alone     *)
(* (Lsc1Endpoint has them).  Values nothing can read any more (scratch     *)
(* outside a computation, what was staged for a transaction that is gone,  *)
(* a drained reply and its CRC) become None or 0.                          *)
(***************************************************************************)
EXTENDS Lsc1Transition

CONSTANTS Requests,       \* well-formed instruction frames
          TxnIds, ServiceIds, Digests, CrcWords,
          Crc(_),         \* CRC-32 of a response payload
          ServiceSeqMax,  \* 0xfffffffe in the code
          RetireSeqMax,   \* bound: retirements explored after a reset
          ServiceCells,   \* cells of a BLAKE3 request: eight in the code
          None

ASSUME FrontendBounds ==
    /\ ServiceSeqMax \in Nat
    /\ RetireSeqMax \in Nat

\* A frame the validator lets through: every operand is a number, and there is
\* a cell for each address the opcode touches, with no value when absent.
IsRequest(request) ==
    /\ request.opcode \in INSTRUCTION_OPCODES
    /\ request.pc \in Nat /\ request.fp \in Nat
    /\ request.opcode \in ScalarOpcodes =>
          \E n \in {1, 3} :
              /\ (n = 1) = (request.opcode = "SET_CONSTANT")
              /\ request.offsets \in [1..n -> Nat]
              /\ request.cells \in [1..n -> Cell]
    /\ request.opcode = "SET_CONSTANT" => request.constant \in Word
    /\ request.opcode \in {"DEREF_CELL", "DEREF_PC", "DEREF_FP"} => request.base \in Nat
    /\ request.opcode \in {"MUL_NATIVE", "JUMP"} => request.proposed_inverse \in Cell
    /\ request.opcode = "JUMP" =>
          request.taken \in BOOLEAN /\ request.dest_pc \in Nat /\ request.dest_fp \in Nat
    /\ request.opcode = "BLAKE3_REQUEST" =>
          /\ request.message_offsets \in Seq(Nat)
          /\ request.cv_offset \in Nat /\ request.out_offset \in Nat
          /\ request.cells \in [1..(Len(request.message_offsets) + 4) -> Cell]

ASSUME RequestAssumption == \A request \in Requests : IsRequest(request)

VARIABLES
    rx,             \* the receiver: state, and the status of a framing fault
    frame_opcode,   \* of the last frame received
    frame_payload,  \* the buffer; None once the next SOF has cleared it
    compute,        \* compute_state
    scratch,        \* the decoded request and what has been decided of it
    alu, encoder,   \* the two datapaths: phase and operands
    tx_start, tx,   \* the transmitter: start pulse; idle, active or done
    reply,          \* tx_external_kind, tx_status, short_txn_id, short_detail
    tx_crc,         \* tx_payload_crc
    result_pending, staged, staged_result_crc, capture_result_crc,
    blake_pulse,    \* the start, accept or discard pulse, or "none"
    blake_start,    \* blake_start_txn_id, next_pc, next_fp
    service,        \* staged_access, staged_out_*, staged_write_* (BLAKE3)
    life,           \* the registers of lsc1_blake3_lifecycle
    committed, state_valid, retire_seq, core_done_pulse,
    active_profile,
    fault,          \* the fault pin
    asked,          \* history: the request being decided or offered, the
                    \* verdict reached and the digest folded in
    owed            \* history: an accepted frame has not been answered

rxVars     == <<rx, frame_opcode, frame_payload>>
stageVars  == <<result_pending, staged, staged_result_crc, capture_result_crc>>
blakeVars  == <<blake_pulse, blake_start, service>>
commitVars == <<committed, state_valid, retire_seq, active_profile>>
vars == <<rxVars, compute, scratch, alu, encoder, tx_start, tx, reply, tx_crc,
          stageVars, blakeVars, life, commitVars, core_done_pulse,
          fault, asked, owed>>

C_IDLE == "C_IDLE"
Computing == {"C_VERIFY_INVERSE", "C_SOLVE", "C_FORWARD", "C_SET",
              "C_XOR_SOLVE", "C_DEREF_POINTER", "C_DEREF_VALUE",
              "C_JUMP_INVERSE", "C_JUMP_PC", "C_JUMP_FP"}

\* Status codes at or above 0x80.
FaultStatus ==
    {"BAD_SOF", "BAD_VERSION", "BAD_OPCODE", "BAD_LENGTH", "BAD_CRC",
     "BAD_FLAGS", "BAD_PROFILE", "BAD_STATE", "BAD_CELL", "U32_OVERFLOW",
     "BAD_POINTER", "BAD_INVERSE", "WRITE_CONFLICT", "DEREF_MISMATCH",
     "MUL_BACKSOLVE_ZERO", "BAD_BRANCH_PROPOSAL", "UNSUPPORTED_IN_PROFILE",
     "BAD_SERVICE", "RETIRE_MISMATCH", "ABORTED", "STATE_MISMATCH",
     "INDEX_RANGE", "ALIAS_INCONSISTENT"}
Status == {"OK", "SERVICE_REQUIRED", "RETIRED", "INFO"} \cup FaultStatus

\* Framing faults of lsc1_packet_rx, by the byte that raises them.
BodyFaults == {"BAD_LENGTH", "BAD_CRC", "BAD_VERSION", "BAD_FLAGS"}

\* Frames rejected on their contents alone, whatever is pending.
ContentFaults == {"BAD_OPCODE", "BAD_LENGTH", "BAD_PROFILE", "BAD_FLAGS",
                  "BAD_CELL", "BAD_BRANCH_PROPOSAL"}

AluIdle == [phase |-> "idle"]
EncoderIdle == [phase |-> "idle"]
NoReply == [kind |-> None]
Origin == [pc |-> 0, fp |-> 0]

\* The BLAKE3 staging arrays are not reset: they hold anything at first.
NoService == [access |-> [i \in 1..ServiceCells |-> None],
              out |-> <<ABSENT, ABSENT>>, writes |-> <<>>]

LifeReset == [service_pending |-> FALSE, result_pending |-> FALSE,
              txn_id |-> 0, service_id |-> 0, next_pc |-> 0, next_fp |-> 0,
              crc |-> 0, service_seq |-> 0, done_pulse |-> FALSE]

-----------------------------------------------------------------------------
(* The lane                                                                *)

\* Mutant: the lane opens while a response is being serialized.
LaneEnableWhileSending ==
    ~tx_start /\ compute = C_IDLE /\ alu.phase # "busy" /\ encoder.phase # "busy"

lane_enable ==
    /\ tx # "active"
    /\ ~tx_start
    /\ compute = C_IDLE
    /\ alu.phase # "busy"
    /\ encoder.phase # "busy"

event_ready == tx # "active" /\ ~tx_start /\ compute = C_IDLE

Received(status) == [state |-> IF status = "OK" THEN "frame" ELSE "fault",
                     status |-> status]

Waiting == rx.state \in {"frame", "fault"}

Frames ==
    Requests
    \cup [opcode : {"MALFORMED"}, status : ContentFaults]
    \cup [opcode : {"STATUS_QUERY"}]
    \cup [opcode : {"NEGOTIATE"}, profile : Profile, version_ok : BOOLEAN]
    \cup [opcode : {"RETIRE"}, txn_id : TxnIds, result_crc : CrcWords]
    \cup [opcode : {"SERVICE_RESPONSE"}, txn_id : TxnIds, service_id : ServiceIds,
          kind_ok : BOOLEAN, digest : Digests]

\* Nothing of the last instruction is staged or in flight.
NothingPending ==
    /\ ~result_pending
    /\ ~life.service_pending
    /\ ~life.result_pending
    /\ blake_pulse = "none"

\* The first byte of a frame clears the buffer, a start of frame or not.
RxStart ==
    /\ lane_enable
    /\ rx.state = "sof"
    /\ rx' \in {[state |-> "body", status |-> "OK"], Received("BAD_SOF")}
    /\ frame_payload' = None
    /\ UNCHANGED frame_opcode

RxFrame ==
    /\ lane_enable
    /\ rx.state = "body"
    /\ \E frame \in Frames :
          /\ frame.opcode = "RETIRE" => retire_seq < RetireSeqMax
          /\ frame_opcode' = frame.opcode
          /\ frame_payload' = frame
    /\ rx' = Received("OK")

RxFault ==
    /\ lane_enable
    /\ rx.state = "body"
    /\ \E status \in BodyFaults : rx' = Received(status)
    /\ UNCHANGED <<frame_opcode, frame_payload>>

\* No byte, or one in the middle of a frame; an event waits to be consumed.
RxIdle == UNCHANGED rxVars

RxConsumed ==
    /\ rx' = [state |-> "sof", status |-> "OK"]
    /\ UNCHANGED <<frame_opcode, frame_payload>>

-----------------------------------------------------------------------------
(* The transmitter and its payload mux                                     *)

\* What the payload mux reads, by kind, on every cycle of the response.
Payload ==
    CASE reply.kind = "service" ->
           [txn_id |-> life.txn_id, service_id |-> life.service_id,
            operands |-> IF frame_payload = None THEN None
                         ELSE [i \in 1..(Len(frame_payload.cells) - 2) |->
                                  frame_payload.cells[i].value]]
      [] reply.kind = "blake_result" ->
           [txn_id |-> life.txn_id, next_pc |-> life.next_pc,
            next_fp |-> life.next_fp, writes |-> service.writes,
            deferred |-> <<>>, accesses |-> service.access]
      [] reply.kind = "result" -> staged
      [] reply.kind = "info" ->
           [state |-> IF life.service_pending THEN 2
                      ELSE IF life.result_pending \/ result_pending THEN 1 ELSE 0,
            txn_id |-> reply.txn_id, retire_seq |-> retire_seq,
            committed |-> committed, state_valid |-> state_valid]
      [] reply.kind = "retired" ->
           [txn_id |-> reply.txn_id, retire_seq |-> retire_seq,
            committed |-> committed]
      [] OTHER -> reply

IsResult(kind) == kind \in {"result", "blake_result"}

\* The CRC of the payload bytes is ready with the last byte of the response.
TxEdge ==
    IF tx = "active"
    THEN \/ UNCHANGED <<tx, tx_crc>>
         \/ /\ tx' = "done"
            /\ tx_crc' = IF IsResult(reply.kind) THEN Crc(Payload) ELSE 0
    ELSE /\ tx' = IF tx_start THEN "active" ELSE "idle"
         /\ tx_crc' = 0

-----------------------------------------------------------------------------
(* lsc1_blake3_lifecycle                                                   *)

retire_match ==
    /\ life.result_pending
    /\ frame_payload.txn_id = life.txn_id
    /\ frame_payload.result_crc = life.crc

blake_retire_attempt ==
    /\ rx.state = "frame"
    /\ event_ready
    /\ frame_opcode = "RETIRE"
    /\ life.result_pending

LifeResultPending ==
    IF blake_retire_attempt THEN FALSE
    ELSE IF blake_pulse = "accept" THEN TRUE
    ELSE IF blake_pulse = "start" THEN FALSE
    ELSE life.result_pending

LifeDonePulse == blake_retire_attempt /\ retire_match

\* Pulses come registered, one edge late; a RETIRE is seen on the edge on
\* which the frontend consumes it.
LifeEdge ==
    LET starts == blake_pulse = "start"
        held   == IF life.service_pending \/ life.result_pending THEN life
                  ELSE [LifeReset EXCEPT !.service_seq = life.service_seq]
    IN  life' =
          [service_pending |->
              starts \/ (life.service_pending /\ blake_pulse \notin {"accept", "discard"}),
           result_pending |-> LifeResultPending,
           txn_id      |-> IF starts THEN blake_start.txn_id ELSE held.txn_id,
           service_id  |-> IF starts THEN life.service_seq + 1 ELSE held.service_id,
           next_pc     |-> IF starts THEN blake_start.next_pc ELSE held.next_pc,
           next_fp     |-> IF starts THEN blake_start.next_fp ELSE held.next_fp,
           crc         |-> IF tx = "done" /\ reply.kind = "blake_result"
                               /\ life.result_pending THEN tx_crc
                           ELSE IF blake_pulse \in {"start", "accept"} THEN 0
                           ELSE held.crc,
           service_seq |-> IF starts THEN life.service_seq + 1 ELSE life.service_seq,
           done_pulse  |-> LifeDonePulse]

-----------------------------------------------------------------------------
(* What one edge does to the frontend's own registers, by group            *)

\* The reply registers are loaded and tx_start pulses.
Say(kind, status, txn_id, detail) ==
    /\ tx_start' = TRUE
    /\ reply' = [kind |-> kind, status |-> status, txn_id |-> txn_id,
                 detail |-> detail]
    /\ fault' = (status \in FaultStatus)

Silent ==
    /\ tx_start' = FALSE
    /\ reply' = IF tx = "done" THEN NoReply ELSE reply
    /\ UNCHANGED fault

DatapathIdle ==
    /\ compute' = C_IDLE
    /\ scratch' = None
    /\ alu' = AluIdle
    /\ encoder' = EncoderIdle

\* The CRC of the scalar result is latched when its response has drained.
CaptureEdge ==
    IF tx = "done" /\ capture_result_crc
    THEN staged_result_crc' = tx_crc /\ capture_result_crc' = FALSE
    ELSE UNCHANGED <<staged_result_crc, capture_result_crc>>

\* The staged result is abandoned or retired.
Withdraw ==
    /\ result_pending' = FALSE
    /\ staged' = None
    /\ staged_result_crc' = 0
    /\ capture_result_crc' = FALSE

KeepStaged == CaptureEdge /\ UNCHANGED <<result_pending, staged>>

Add32(left, right) == (left + right) % (U32_MAX + 1)

\* staged_access[5] and [7], one edge after the bases.
Companions(access) ==
    LET n == Len(access) IN
    [access EXCEPT ![n - 2] = Add32(access[n - 3], 1), ![n] = Add32(access[n - 1], 1)]

KeepBlake ==
    /\ blake_pulse' = "none"
    /\ blake_start' = None
    /\ service' = IF blake_pulse = "start"
                  THEN [service EXCEPT !.access = Companions(service.access)]
                  ELSE IF life.service_pending \/ life.result_pending THEN service
                  ELSE NoService

KeepCommitted == core_done_pulse' = FALSE /\ UNCHANGED commitVars

Asked(request, verdict) == [request |-> request, verdict |-> verdict, digest |-> None]

emit_fault(status, txn_id) ==
    /\ Say("fault", status, txn_id, None)
    /\ DatapathIdle
    /\ KeepStaged /\ KeepBlake /\ KeepCommitted

\* A decided instruction that faults.
Refuse(request, status) ==
    /\ emit_fault(status, request.txn_id)
    /\ asked' = Asked(request, "FAULT")

\* The result is staged and offered; its CRC is not known yet.
emit_result(decided) ==
    /\ Say("result", "OK", None, None)
    /\ DatapathIdle
    /\ result_pending' = TRUE
    /\ staged' = [txn_id |-> decided.request.txn_id, next_pc |-> decided.next_pc,
                  next_fp |-> decided.next_fp, writes |-> decided.writes,
                  deferred |-> decided.deferred, accesses |-> decided.accesses]
    /\ staged_result_crc' = 0
    /\ capture_result_crc' = TRUE
    /\ KeepBlake /\ KeepCommitted
    /\ asked' = Asked(decided.request, "OK")

\* The datapaths: operands are latched with the start pulse.
StartAlu(operation, left, right, next, decided) ==
    /\ Silent
    /\ compute' = next
    /\ scratch' = decided
    /\ alu' = [phase |-> "start", operation |-> operation, a |-> left, b |-> right]
    /\ encoder' = EncoderIdle
    /\ KeepStaged /\ KeepBlake /\ KeepCommitted
    /\ asked' = Asked(decided.request, "open")

\* Mutant: the start pulse is forgotten.
StartEncoderNoPulse(index, next, decided) ==
    /\ Silent
    /\ compute' = next
    /\ scratch' = decided
    /\ encoder' = EncoderIdle
    /\ alu' = AluIdle
    /\ KeepStaged /\ KeepBlake /\ KeepCommitted
    /\ asked' = Asked(decided.request, "open")

StartEncoder(index, next, decided) ==
    /\ Silent
    /\ compute' = next
    /\ scratch' = decided
    /\ encoder' = [phase |-> "start", index |-> index]
    /\ alu' = AluIdle
    /\ KeepStaged /\ KeepBlake /\ KeepCommitted
    /\ asked' = Asked(decided.request, "open")

\* The three operations raise no fault in the stream ALU, so alu_fault and
\* encoder_fault are down whenever a result is read.
alu_result ==
    IF alu.operation = "SET" THEN alu.a
    ELSE IF alu.operation = "XOR" THEN Xor(alu.a, alu.b)
    ELSE field_mul(alu.a, alu.b)

encoder_result == field_encode(encoder.index)

AluEdge ==
    CASE alu.phase = "start" -> alu' = [alu EXCEPT !.phase = "busy"]
      [] alu.phase = "busy"  -> alu' \in {alu, [alu EXCEPT !.phase = "done"]}
      [] OTHER -> alu' = AluIdle

EncoderEdge ==
    CASE encoder.phase = "start" -> encoder' = [encoder EXCEPT !.phase = "busy"]
      [] encoder.phase = "busy"  ->
            encoder' \in {encoder, [encoder EXCEPT !.phase = "done"]}
      [] OTHER -> encoder' = EncoderIdle

-----------------------------------------------------------------------------
(* Decode: an instruction frame that passed the validator                  *)

GuardFault(request) ==
    IF request.profile # active_profile THEN "BAD_PROFILE"
    ELSE IF state_valid /\ <<request.pc, request.fp>> # <<committed.pc, committed.fp>>
         THEN "STATE_MISMATCH"
    ELSE IF request.pc >= INDEX_LIMIT \/ request.fp >= INDEX_LIMIT
         THEN "INDEX_RANGE"
    ELSE "OK"

OverflowsBy(base, offset) == offset > U32_MAX - base

\* lsc1_cell_alias_check on wrapped addresses.
CellAliasInconsistent(addresses, cells) ==
    \E i, j \in DOMAIN addresses :
        i < j /\ addresses[i] = addresses[j] /\ cells[i] # cells[j]

\* The scratch registers of a request, before anything is decided.
Scratch(request, accesses) ==
    [request |-> request, next_pc |-> request.pc + 1, next_fp |-> request.fp,
     writes |-> <<>>, deferred |-> <<>>, accesses |-> accesses]

WriteOf(address, value) == <<[address |-> address, value |-> value]>>

DecodeSet(request) ==
    LET address == Add32(request.fp, request.offsets[1])
        held    == request.cells[1]
        decided == Scratch(request, <<address>>)
    IN  IF OverflowsBy(request.fp, request.offsets[1])
        THEN Refuse(request, "U32_OVERFLOW")
        ELSE IF held.present /\ held.value # request.constant
        THEN Refuse(request, "WRITE_CONFLICT")
        ELSE StartAlu("SET", request.constant, Zero, "C_SET",
                      IF held.present THEN decided
                      ELSE [decided EXCEPT !.writes = WriteOf(address, request.constant)])

DecodeBinary(request) ==
    LET addresses == [i \in 1..3 |-> Add32(request.fp, request.offsets[i])]
        decided   == Scratch(request, addresses)
        a == request.cells[1]
        b == request.cells[2]
        c == request.cells[3]
        known   == IF a.present THEN a.value ELSE b.value
        inverse == request.proposed_inverse
        solves  == c.present /\ a.present # b.present
        xor     == request.opcode = "XOR"
        operation == IF xor THEN "XOR" ELSE "MUL"
    IN  IF \E i \in 1..3 : OverflowsBy(request.fp, request.offsets[i])
        THEN Refuse(request, "U32_OVERFLOW")
        ELSE IF CellAliasInconsistent(addresses, request.cells)
        THEN Refuse(request, "ALIAS_INCONSISTENT")
        ELSE IF ~solves
        THEN StartAlu(operation, a.value, b.value, "C_FORWARD", decided)
        ELSE IF xor THEN StartAlu("XOR", c.value, known, "C_XOR_SOLVE", decided)
        ELSE IF known = Zero THEN Refuse(request, "MUL_BACKSOLVE_ZERO")
        ELSE IF ~inverse.present THEN Refuse(request, "BAD_INVERSE")
        ELSE StartAlu("MUL", known, inverse.value, "C_VERIFY_INVERSE", decided)

\* Mutant: the room pc + 2 needs in the index space is off by one.
DerefRangeFaultOffByOne(request) ==
    \/ request.base >= INDEX_LIMIT
    \/ request.opcode = "DEREF_PC" /\ request.pc > INDEX_LIMIT - 2

DerefRangeFault(request) ==
    \/ request.base >= INDEX_LIMIT
    \/ request.opcode = "DEREF_PC" /\ request.pc > INDEX_LIMIT - 3

\* Overflow, range and aliases are settled before the pointer is encoded.
DecodeDeref(request) ==
    LET addresses == <<Add32(request.fp, request.offsets[1]),
                       Add32(request.base, request.offsets[2]),
                       Add32(request.fp, request.offsets[3])>>
    IN  IF \/ OverflowsBy(request.fp, request.offsets[1])
           \/ OverflowsBy(request.fp, request.offsets[3])
           \/ OverflowsBy(request.base, request.offsets[2])
        THEN Refuse(request, "U32_OVERFLOW")
        ELSE IF DerefRangeFault(request) THEN Refuse(request, "INDEX_RANGE")
        ELSE IF CellAliasInconsistent(addresses, request.cells)
        THEN Refuse(request, "ALIAS_INCONSISTENT")
        ELSE StartEncoder(request.base % INDEX_LIMIT, "C_DEREF_POINTER",
                          Scratch(request, addresses))

DecodeJump(request) ==
    LET addresses == [i \in 1..3 |-> Add32(request.fp, request.offsets[i])]
        condition == request.cells[1].value
        inverse   == request.proposed_inverse
    IN  IF \E i \in 1..3 : OverflowsBy(request.fp, request.offsets[i])
        THEN Refuse(request, "U32_OVERFLOW")
        ELSE IF CellAliasInconsistent(addresses, request.cells)
        THEN Refuse(request, "ALIAS_INCONSISTENT")
        ELSE IF request.taken # (condition # Zero)
        THEN Refuse(request, "BAD_BRANCH_PROPOSAL")
        ELSE IF request.taken
        THEN IF request.dest_pc >= INDEX_LIMIT \/ request.dest_fp >= INDEX_LIMIT
             THEN Refuse(request, "INDEX_RANGE")
             ELSE IF ~inverse.present THEN Refuse(request, "BAD_INVERSE")
             ELSE StartAlu("MUL", condition, inverse.value, "C_JUMP_INVERSE",
                           Scratch(request, addresses))
        ELSE IF inverse.present /\ inverse.value # Zero
        THEN Refuse(request, "BAD_INVERSE")
        ELSE IF request.dest_pc # 0 \/ request.dest_fp # 0
        THEN Refuse(request, "BAD_BRANCH_PROPOSAL")
        ELSE emit_result(Scratch(request, addresses))

\* The bases of the service cells; the companions follow one edge later.
ServiceBases(request) ==
    LET n == Len(request.message_offsets) IN
    [i \in 1..(n + 4) |->
        CASE i <= n     -> Add32(request.fp, request.message_offsets[i])
          [] i = n + 1  -> Add32(request.fp, request.cv_offset)
          [] i = n + 3  -> Add32(request.fp, request.out_offset)
          [] OTHER      -> service.access[i]]

\* lsc1_blake3_alias_check compares offsets: the common base cancels.
BlakeAliasInconsistent(request) ==
    LET offsets == request.message_offsets
                     \o <<request.cv_offset, Add32(request.cv_offset, 1),
                          request.out_offset, Add32(request.out_offset, 1)>>
    IN  CellAliasInconsistent(offsets, request.cells)

BlakeFault(request) ==
    LET room == U32_MAX - request.fp IN
    IF life.service_seq >= ServiceSeqMax THEN "BAD_SERVICE"
    ELSE IF ~request.metadata_valid THEN "BAD_SERVICE"
    ELSE IF \/ \E i \in DOMAIN request.message_offsets :
                  request.message_offsets[i] > room
            \/ request.cv_offset >= room
            \/ request.out_offset >= room
         THEN "U32_OVERFLOW"
    ELSE IF BlakeAliasInconsistent(request) THEN "ALIAS_INCONSISTENT"
    ELSE IF request.pc = INDEX_LIMIT - 1 THEN "INDEX_RANGE"
    ELSE "OK"

\* The staged addresses are overwritten even when the request is refused.
DecodeBlake3(request) ==
    LET status == BlakeFault(request)
        n      == Len(request.cells)
    IN  /\ DatapathIdle /\ KeepStaged /\ KeepCommitted
        /\ \/ /\ status # "OK"
              /\ Say("fault", status, request.txn_id, None)
              /\ service' = [service EXCEPT !.access = ServiceBases(request)]
              /\ blake_pulse' = "none"
              /\ blake_start' = None
              /\ asked' = IF life.service_seq >= ServiceSeqMax THEN None
                          ELSE Asked(request, "FAULT")
           \/ /\ status = "OK"
              /\ Say("service", "SERVICE_REQUIRED", None, None)
              /\ service' = [service EXCEPT
                               !.access = ServiceBases(request),
                               !.out = <<request.cells[n - 1], request.cells[n]>>]
              /\ blake_pulse' = "start"
              /\ blake_start' = [txn_id |-> request.txn_id,
                                 next_pc |-> request.pc + 1, next_fp |-> request.fp]
              /\ asked' = Asked(request, "SERVICE")

Decode(request) ==
    IF request.opcode = "SET_CONSTANT" THEN DecodeSet(request)
    ELSE IF request.opcode \in {"DEREF_CELL", "DEREF_PC", "DEREF_FP"}
         THEN DecodeDeref(request)
    ELSE IF request.opcode = "JUMP" THEN DecodeJump(request)
    ELSE IF request.opcode = "BLAKE3_REQUEST" THEN DecodeBlake3(request)
    ELSE DecodeBinary(request)

-----------------------------------------------------------------------------
(* A datapath is done: the arms of the ladder above the frame events       *)

\* The equality of DEREF_CELL once the pointer is verified.
ReconcileCells(decided) ==
    LET target == decided.request.cells[2]
        local  == decided.request.cells[3]
    IN  IF decided.request.profile = FORWARD_ONLY /\ ~local.present
        THEN Refuse(decided.request, "UNSUPPORTED_IN_PROFILE")
        ELSE IF target.present /\ local.present /\ target.value # local.value
        THEN Refuse(decided.request, "DEREF_MISMATCH")
        ELSE emit_result(
               IF target.present /\ ~local.present
               THEN [decided EXCEPT !.writes = WriteOf(decided.accesses[3], target.value)]
               ELSE IF local.present /\ ~target.present
               THEN [decided EXCEPT !.writes = WriteOf(decided.accesses[2], local.value)]
               ELSE IF ~local.present
               THEN [decided EXCEPT !.deferred = <<[target |-> decided.accesses[2],
                                                    local |-> decided.accesses[3]]>>]
               ELSE decided)

\* The opcode is read from the receiver, the rest from the scratch registers.
finish_deref_pointer ==
    /\ compute = "C_DEREF_POINTER"
    /\ encoder.phase = "done"
    /\ LET request == scratch.request IN
       IF encoder_result # request.cells[1].value
       THEN Refuse(request, "BAD_POINTER")
       ELSE IF frame_opcode = "DEREF_CELL" THEN ReconcileCells(scratch)
       ELSE StartEncoder(IF frame_opcode = "DEREF_PC"
                         THEN (request.pc + 2) % INDEX_LIMIT
                         ELSE request.fp % INDEX_LIMIT,
                         "C_DEREF_VALUE", scratch)

DerefValueDone ==
    /\ compute = "C_DEREF_VALUE"
    /\ encoder.phase = "done"
    /\ LET target == scratch.request.cells[2] IN
       IF target.present /\ target.value # encoder_result
       THEN Refuse(scratch.request, "WRITE_CONFLICT")
       ELSE emit_result(IF target.present THEN scratch
                        ELSE [scratch EXCEPT
                                !.writes = WriteOf(scratch.accesses[2], encoder_result)])

JumpPcDone ==
    /\ compute = "C_JUMP_PC"
    /\ encoder.phase = "done"
    /\ IF encoder_result # scratch.request.cells[2].value
       THEN Refuse(scratch.request, "BAD_POINTER")
       ELSE StartEncoder(scratch.request.dest_fp % INDEX_LIMIT, "C_JUMP_FP", scratch)

JumpFpDone ==
    /\ compute = "C_JUMP_FP"
    /\ encoder.phase = "done"
    /\ IF encoder_result # scratch.request.cells[3].value
       THEN Refuse(scratch.request, "BAD_POINTER")
       ELSE emit_result([scratch EXCEPT !.next_pc = scratch.request.dest_pc,
                                        !.next_fp = scratch.request.dest_fp])

JumpInverseDone ==
    /\ compute = "C_JUMP_INVERSE"
    /\ alu.phase = "done"
    /\ IF alu_result # One
       THEN Refuse(scratch.request, "BAD_INVERSE")
       ELSE StartEncoder(scratch.request.dest_pc % INDEX_LIMIT, "C_JUMP_PC", scratch)

SetDone ==
    /\ compute = "C_SET"
    /\ alu.phase = "done"
    /\ IF alu_result # scratch.request.constant
       THEN Refuse(scratch.request, "BAD_STATE")
       ELSE emit_result(scratch)

\* The missing operand is written, and the result is computed forward again.
Solved(operation, left, right) ==
    LET missing == IF scratch.request.cells[1].present THEN 2 ELSE 1 IN
    StartAlu(operation, left, right, "C_FORWARD",
             [scratch EXCEPT !.writes = WriteOf(scratch.accesses[missing], alu_result)])

XorSolveDone ==
    /\ compute = "C_XOR_SOLVE"
    /\ alu.phase = "done"
    /\ IF scratch.request.cells[1].present
       THEN Solved("XOR", scratch.request.cells[1].value, alu_result)
       ELSE Solved("XOR", alu_result, scratch.request.cells[2].value)

VerifyInverseDone ==
    /\ compute = "C_VERIFY_INVERSE"
    /\ alu.phase = "done"
    /\ IF alu_result # One
       THEN Refuse(scratch.request, "BAD_INVERSE")
       ELSE StartAlu("MUL", scratch.request.cells[3].value,
                     scratch.request.proposed_inverse.value, "C_SOLVE", scratch)

SolveDone ==
    /\ compute = "C_SOLVE"
    /\ alu.phase = "done"
    /\ LET a == scratch.request.cells[1]
           b == scratch.request.cells[2]
       IN  Solved("MUL", alu_result, IF a.present THEN a.value ELSE b.value)

\* finish_binary.
ForwardDone ==
    /\ compute = "C_FORWARD"
    /\ alu.phase = "done"
    /\ LET c == scratch.request.cells[3] IN
       IF c.present /\ c.value # alu_result
       THEN Refuse(scratch.request, "WRITE_CONFLICT")
       ELSE emit_result(IF c.present THEN scratch
                        ELSE [scratch EXCEPT
                                !.writes = WriteOf(scratch.accesses[3], alu_result)])

DatapathDone ==
    \/ finish_deref_pointer \/ DerefValueDone
    \/ JumpPcDone \/ JumpFpDone \/ JumpInverseDone
    \/ SetDone \/ XorSolveDone
    \/ VerifyInverseDone \/ SolveDone \/ ForwardDone

-----------------------------------------------------------------------------
(* Frame events                                                            *)

Pending == result_pending \/ life.result_pending \/ life.service_pending

Reject(status, txn_id) == emit_fault(status, txn_id) /\ UNCHANGED asked

\* A framing fault, or a frame its contents condemn.
DefectEvent ==
    \/ /\ rx.state = "fault"
       /\ Reject(rx.status, 0)
    \/ /\ rx.state = "frame"
       /\ frame_opcode = "MALFORMED"
       /\ Reject(frame_payload.status, 0)

\* A short reply that changes nothing but the status registers.
Inform(kind, status, txn_id, detail) ==
    /\ Say(kind, status, txn_id, detail)
    /\ DatapathIdle
    /\ KeepStaged /\ KeepBlake
    /\ core_done_pulse' = FALSE
    /\ UNCHANGED <<committed, state_valid, retire_seq, asked>>

StatusEvent ==
    /\ rx.state = "frame"
    /\ frame_opcode = "STATUS_QUERY"
    /\ Inform("info", "INFO",
              IF life.result_pending \/ life.service_pending THEN life.txn_id
              ELSE IF result_pending THEN staged.txn_id ELSE 0,
              None)
    /\ UNCHANGED active_profile

\* Only interpreter-compatible reconciliation is implemented.
NegotiateEvent ==
    /\ rx.state = "frame"
    /\ frame_opcode = "NEGOTIATE"
    /\ IF Pending THEN Reject("BAD_STATE", 0)
       ELSE IF ~frame_payload.version_ok THEN Reject("BAD_VERSION", 0)
       ELSE IF frame_payload.profile # INTERPRETER_COMPAT THEN Reject("BAD_PROFILE", 0)
       ELSE /\ Inform("profile", "OK", None, frame_payload.profile)
            /\ active_profile' = frame_payload.profile

\* Architectural commit: the only assignment to the committed state.
CommitTo(pc, fp) ==
    /\ Say("retired", "RETIRED", frame_payload.txn_id, None)
    /\ DatapathIdle
    /\ KeepBlake
    /\ committed' = [pc |-> pc, fp |-> fp]
    /\ state_valid' = TRUE
    /\ retire_seq' = retire_seq + 1
    /\ UNCHANGED <<active_profile, asked>>

\* The lifecycle shell withdraws or retires its result on this same edge.
BlakeRetireEvent ==
    /\ rx.state = "frame"
    /\ frame_opcode = "RETIRE"
    /\ life.result_pending
    /\ IF retire_match
       THEN /\ CommitTo(life.next_pc, life.next_fp)
            /\ KeepStaged
            /\ core_done_pulse' = FALSE
       ELSE Reject("RETIRE_MISMATCH", frame_payload.txn_id)

\* Mutant: the commit leaves the result pending, to be retired again.
ScalarRetireKeeps ==
    /\ frame_payload.txn_id = staged.txn_id
    /\ frame_payload.result_crc = staged_result_crc
    /\ CommitTo(staged.next_pc, staged.next_fp)
    /\ core_done_pulse' = TRUE
    /\ KeepStaged

ScalarRetire ==
    /\ frame_payload.txn_id = staged.txn_id
    /\ frame_payload.result_crc = staged_result_crc
    /\ CommitTo(staged.next_pc, staged.next_fp)
    /\ core_done_pulse' = TRUE
    /\ Withdraw

RetireMismatch ==
    /\ \/ frame_payload.txn_id # staged.txn_id
       \/ frame_payload.result_crc # staged_result_crc
    /\ Say("fault", "RETIRE_MISMATCH", frame_payload.txn_id, None)
    /\ DatapathIdle /\ KeepBlake /\ KeepCommitted
    /\ Withdraw
    /\ UNCHANGED asked

RetireEvent ==
    /\ rx.state = "frame"
    /\ frame_opcode = "RETIRE"
    /\ ~life.result_pending
    /\ \/ ~result_pending /\ Reject("BAD_STATE", frame_payload.txn_id)
       \/ result_pending /\ (ScalarRetire \/ RetireMismatch)

ServiceFault ==
    IF ~life.service_pending THEN "BAD_STATE"
    ELSE IF \/ frame_payload.txn_id # life.txn_id
            \/ frame_payload.service_id # life.service_id
            \/ ~frame_payload.kind_ok
         THEN "BAD_SERVICE"
    ELSE "OK"

\* The two output addresses, the second of them a companion.
Out0 == service.access[Len(service.access) - 1]
Out1 == service.access[Len(service.access)]

OutputConflict(digest) ==
    \/ service.out[1].present /\ service.out[1].value # digest[1]
    \/ service.out[2].present /\ service.out[2].value # digest[2]
    \/ Out0 = Out1 /\ digest[1] # digest[2]

OutputWrites(digest) ==
    (IF service.out[1].present THEN <<>> ELSE WriteOf(Out0, digest[1]))
    \o (IF service.out[2].present \/ Out0 = Out1 THEN <<>> ELSE WriteOf(Out1, digest[2]))

\* The digest is folded in, or the service discarded by a pulse.
ServiceEvent ==
    /\ rx.state = "frame"
    /\ frame_opcode = "SERVICE_RESPONSE"
    /\ LET digest == frame_payload.digest IN
       IF ServiceFault # "OK" THEN Reject(ServiceFault, frame_payload.txn_id)
       ELSE /\ DatapathIdle /\ KeepStaged /\ KeepCommitted
            /\ blake_start' = None
            /\ \/ /\ OutputConflict(digest)
                  /\ Say("fault", "WRITE_CONFLICT", frame_payload.txn_id, None)
                  /\ blake_pulse' = "discard"
                  /\ service' = service
                  /\ asked' = [asked EXCEPT !.verdict = "FAULT", !.digest = digest]
               \/ /\ ~OutputConflict(digest)
                  /\ Say("blake_result", "OK", None, None)
                  /\ blake_pulse' = "accept"
                  /\ service' = [service EXCEPT !.writes = OutputWrites(digest)]
                  /\ asked' = [asked EXCEPT !.verdict = "OK", !.digest = digest]

InstructionEvent ==
    /\ rx.state = "frame"
    /\ frame_opcode \in INSTRUCTION_OPCODES
    /\ IF Pending THEN Reject("BAD_STATE", frame_payload.txn_id)
       ELSE IF GuardFault(frame_payload) # "OK"
       THEN Reject(GuardFault(frame_payload), frame_payload.txn_id)
       ELSE Decode(frame_payload)

FrameEvent ==
    /\ event_ready
    /\ \/ DefectEvent \/ StatusEvent \/ NegotiateEvent
       \/ BlakeRetireEvent \/ RetireEvent
       \/ ServiceEvent \/ InstructionEvent

-----------------------------------------------------------------------------
(* The clock, ABORT and reset                                              *)

\* Nothing to handle: the datapaths advance and pulses fall.
Quiet ==
    /\ ~(alu.phase = "done" \/ encoder.phase = "done")
    /\ ~(Waiting /\ event_ready)
    /\ Silent
    /\ UNCHANGED <<compute, scratch>>
    /\ AluEdge
    /\ EncoderEdge
    /\ KeepStaged /\ KeepBlake /\ KeepCommitted
    /\ asked' = IF rx.state = "sof" /\ rx'.state # "sof" /\ NothingPending
                THEN None ELSE asked

\* The frame on the lane is owed an answer until the transmitter is started.
OwedEdge ==
    owed' = (~tx_start' /\ (owed \/ (rx'.state # rx.state /\ rx'.state # "sof"
                                     /\ rx'.state # "body")))

RxEdge == RxStart \/ RxFrame \/ RxFault \/ RxIdle

Edge ==
    /\ TxEdge
    /\ LifeEdge
    /\ \/ RxEdge /\ Quiet
       \/ RxEdge /\ DatapathDone
       \/ RxConsumed /\ FrameEvent
    /\ OwedEdge

\* What ABORT and reset have in common: nothing is left in flight.
Quiesce ==
    /\ rx' = [state |-> "sof", status |-> "OK"]
    /\ frame_opcode' = None
    /\ frame_payload' = None
    /\ DatapathIdle
    /\ tx_start' = FALSE
    /\ tx' = "idle"
    /\ reply' = NoReply
    /\ tx_crc' = 0
    /\ Withdraw
    /\ blake_pulse' = "none"
    /\ blake_start' = None
    /\ service' = NoService
    /\ core_done_pulse' = FALSE
    /\ asked' = None
    /\ owed' = FALSE

\* The identifiers and the service counter survive.
LifeAbort ==
    life' = [life EXCEPT !.service_pending = FALSE, !.result_pending = FALSE,
                         !.crc = 0, !.done_pulse = FALSE]

\* ABORT on a clock edge drops everything in flight in every module; the
\* committed state, the counters and the profile survive.
Abort ==
    /\ Quiesce
    /\ LifeAbort
    /\ fault' = TRUE
    /\ UNCHANGED commitVars

\* The registers out of reset.
Init ==
    /\ rx = [state |-> "sof", status |-> "OK"]
    /\ frame_opcode = None
    /\ frame_payload = None
    /\ compute = C_IDLE
    /\ scratch = None
    /\ alu = AluIdle
    /\ encoder = EncoderIdle
    /\ tx_start = FALSE
    /\ tx = "idle"
    /\ reply = NoReply
    /\ tx_crc = 0
    /\ result_pending = FALSE
    /\ staged = None
    /\ staged_result_crc = 0
    /\ capture_result_crc = FALSE
    /\ blake_pulse = "none"
    /\ blake_start = None
    /\ service = NoService
    /\ life = LifeReset
    /\ committed = Origin
    /\ state_valid = FALSE
    /\ retire_seq = 0
    /\ core_done_pulse = FALSE
    /\ active_profile = INTERPRETER_COMPAT
    /\ fault = FALSE
    /\ asked = None
    /\ owed = FALSE

Reset ==
    /\ Quiesce
    /\ life' = LifeReset
    /\ committed' = Origin
    /\ state_valid' = FALSE
    /\ retire_seq' = 0
    /\ active_profile' = INTERPRETER_COMPAT
    /\ fault' = FALSE

Next == Edge \/ Abort \/ Reset

\* Work that needs no byte from the host: the clock runs, the datapaths
\* finish and the host drains what is sent to it.
Working == Waiting \/ ~lane_enable

Spec == Init /\ [][Next]_vars /\ WF_vars(Working /\ Edge)

-----------------------------------------------------------------------------
(* Properties                                                              *)

ScalarState == [pc : 0..INDEX_LIMIT, fp : 0..(INDEX_LIMIT - 1)]

\* What a decided or a suspended computation carries.
Decisions ==
    [request : Requests, next_pc : 0..INDEX_LIMIT, next_fp : 0..(INDEX_LIMIT - 1),
     writes : Seq([address : 0..U32_MAX, value : Word]),
     deferred : Seq([target : 0..U32_MAX, local : 0..U32_MAX]),
     accesses : Seq(0..U32_MAX)]

StagedResults ==
    [txn_id : {request.txn_id : request \in Requests},
     next_pc : 0..INDEX_LIMIT, next_fp : 0..(INDEX_LIMIT - 1),
     writes : Seq([address : 0..U32_MAX, value : Word]),
     deferred : Seq([target : 0..U32_MAX, local : 0..U32_MAX]),
     accesses : Seq(0..U32_MAX)]

Questions == [request : Requests, verdict : {"open", "OK", "FAULT", "SERVICE"},
              digest : Digests \cup {None}]

ReplyKinds == {"fault", "result", "service", "blake_result", "info", "profile",
               "retired"}

\* None is not mistaken for a register's contents.
ASSUME NoneAssumption ==
    /\ None \notin Requests /\ None \notin Digests /\ None \notin ReplyKinds
    /\ None \notin Decisions /\ None \notin StagedResults /\ None \notin Questions
    /\ None \notin [from : ScalarState, to : ScalarState]

\* Every register keeps its type.
TypeOK ==
    /\ rx.state \in {"sof", "body", "frame", "fault"}
    /\ compute \in Computing \cup {C_IDLE}
    /\ (compute = C_IDLE) = (scratch = None)
    /\ alu.phase \in {"idle", "start", "busy", "done"}
    /\ encoder.phase = "idle" \/ encoder.index \in 0..(INDEX_LIMIT - 1)
    /\ tx \in {"idle", "active", "done"}
    /\ tx_start \in BOOLEAN
    /\ result_pending = (staged # None)
    /\ blake_pulse \in {"none", "start", "accept", "discard"}
    /\ life.service_seq \in 0..ServiceSeqMax
    /\ committed \in ScalarState
    /\ retire_seq \in 0..RetireSeqMax
    /\ active_profile \in Profile
    /\ fault \in BOOLEAN

\* The frontend holds at most one transaction, in one place: a scalar
\* result, a BLAKE3 service or a BLAKE3 result, pulses in flight to the
\* lifecycle shell included, and none while an instruction is computed
\* (the validator's bad_state and the registered blake_service_* pulses).
OneTransaction ==
    /\ ~(life.service_pending /\ life.result_pending)
    /\ result_pending \/ compute # C_IDLE =>
          ~life.service_pending /\ ~life.result_pending /\ blake_pulse = "none"
    /\ ~(result_pending /\ compute # C_IDLE)
    /\ blake_pulse = "start" => ~life.service_pending /\ ~life.result_pending
    /\ blake_pulse \in {"accept", "discard"} =>
          life.service_pending /\ ~life.result_pending

Verdicts(request) ==
    IF execute(request).status \in FaultStatus THEN "FAULT"
    ELSE IF execute(request).status = "OK" THEN "OK" ELSE "SERVICE"

\* Whatever the sequence of datapath steps, the frontend decides what the
\* executable model's transition rules decide for the same request: it
\* faults exactly when they fault, and the result it stages, with its
\* writes, deferred equality and access list, is theirs.
ScalarResultIsTheModels ==
    (asked # None /\ asked.request.opcode # "BLAKE3_REQUEST"
                  /\ asked.verdict # "open") =>
        /\ asked.verdict = Verdicts(asked.request)
        /\ result_pending =>
              LET decided == execute(asked.request) IN
              staged = [txn_id |-> asked.request.txn_id,
                        next_pc |-> decided.next_pc, next_fp |-> decided.next_fp,
                        writes |-> decided.writes, deferred |-> decided.deferred,
                        accesses |-> decided.accesses]

\* The operands of a service go out, and the digest comes back, as in the
\* executable model: the request buffer still holds the operands while they
\* are sent, the companion addresses are in place, and the result offered
\* has the model's writes.
ServiceIsTheModels ==
    (asked # None /\ asked.request.opcode = "BLAKE3_REQUEST") =>
        LET suspended == execute(asked.request)
            resumed   == resume_blake3(suspended.frame, suspended.accesses, asked.digest)
        IN  IF asked.digest = None
            THEN /\ asked.verdict = Verdicts(asked.request)
                 /\ tx = "active" /\ reply.kind = "service" =>
                       Payload = [txn_id |-> asked.request.txn_id,
                                  service_id |-> life.service_seq,
                                  operands |-> suspended.operands]
            ELSE /\ (asked.verdict = "FAULT") = (resumed.status \in FaultStatus)
                 /\ life.result_pending /\ reply.kind = "blake_result" =>
                       Payload = [txn_id |-> asked.request.txn_id,
                                  next_pc |-> suspended.next_pc,
                                  next_fp |-> suspended.next_fp,
                                  writes |-> resumed.writes, deferred |-> <<>>,
                                  accesses |-> suspended.accesses]

\* The contract of lsc1_packet_tx: while a response is serialized, what the
\* mux reads does not change, however long the host stalls; no frame
\* overwrites the buffer and no late pulse a staged register under it.
StableStep == tx = "active" /\ tx' = "active" => Payload' = Payload

\* Once a result has drained, the CRC a RETIRE is compared with is the CRC
\* of the payload that was sent, in both places a result can be pending: a
\* host that hashes what it read always names what is staged
\* (capture_result_crc and the shell's result_tx_done).
DrainedResultRetires ==
    /\ (result_pending /\ ~capture_result_crc) => staged_result_crc = Crc(staged)
    /\ (result_pending /\ capture_result_crc) => ~lane_enable \/ tx = "done"
    /\ (life.result_pending /\ lane_enable /\ tx # "done") =>
          life.crc = Crc([txn_id |-> life.txn_id, next_pc |-> life.next_pc,
                          next_fp |-> life.next_fp, writes |-> service.writes,
                          deferred |-> <<>>, accesses |-> service.access])

done_pulse == core_done_pulse \/ life.done_pulse

\* DONE pulses for exactly the edges on which the committed state moves,
\* whether the frontend or the lifecycle shell retires: the comment on
\* blake_retire_attempt asks for the same edge.
DoneStep == done_pulse' = (retire_seq' = retire_seq + 1)

\* What a fault does to a transaction already held: RETIRE_MISMATCH and a
\* digest WRITE_CONFLICT discard it wherever it is held, before their answer
\* is on the wire; every other fault leaves it, and none commits (the
\* frontend's result_pending and the shell's two flags act together).
DiscardingFaults == {"RETIRE_MISMATCH", "WRITE_CONFLICT"}
FaultStep ==
    reply'.kind = "fault" =>
        /\ (tx_start' /\ reply'.status \notin DiscardingFaults) =>
              UNCHANGED <<result_pending, staged, life.service_pending,
                          life.result_pending>>
        /\ (tx' = "active" /\ reply'.status \in DiscardingFaults) => NothingPending'
        /\ UNCHANGED committed

\* Every edge keeps the three rules above.
EdgesAreSound == [][StableStep /\ DoneStep /\ FaultStep]_vars

Offer ==
    IF result_pending
    THEN [from |-> [pc |-> asked.request.pc, fp |-> asked.request.fp],
          to   |-> [pc |-> staged.next_pc, fp |-> staged.next_fp]]
    ELSE IF life.result_pending
    THEN [from |-> [pc |-> asked.request.pc, fp |-> asked.request.fp],
          to   |-> [pc |-> life.next_pc, fp |-> life.next_fp]]
    ELSE None

Ledger == INSTANCE Retirement
            WITH NoOffer <- None, current <- committed, valid <- state_valid,
                 retired <- retire_seq, offer <- Offer

\* The clocked frontend implements the same retirement ledger as the
\* executable model: on every edge, ABORT and reset included, committed state
\* moves only by retiring the one transition on offer, which continues it.
ImplementsRetirement == Ledger!LedgerSpec

\* Every frame the lane accepts is answered, unless ABORT or reset comes
\* first, and the lane always opens again for the next one: no arm of the
\* ladder and no datapath state ends without starting the transmitter.
EveryFrameIsAnswered == (owed ~> ~owed) /\ []<>lane_enable

\* What the frontend holds, decides and offers is what the executable model
\* would, for scalar instructions and for the service.
FrontendIsTheModel ==
    /\ TypeOK /\ OneTransaction /\ ScalarResultIsTheModels /\ ServiceIsTheModels
    /\ DrainedResultRetires
=============================================================================
