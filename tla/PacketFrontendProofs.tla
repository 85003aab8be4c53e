------------------------ MODULE PacketFrontendProofs ------------------------
(***************************************************************************)
(* The clocked frontend does what the executable model's transition rules  *)
(* do.  The invariant IInv follows one request through the registers:      *)
(* while it is computed, what the compute state, the latched operands and  *)
(* scratch have left to decide (Remaining) is what execute decides; once   *)
(* decided, the staged result, or the lifecycle shell with the service     *)
(* arrays, holds execute's result.  It is preserved by each kind of edge:  *)
(* an instruction is refused, launched or emitted (Settles), a frame event *)
(* is handled at rest (Eventful), and a quiet edge advances the            *)
(* transmitter, the datapaths and the shell.                               *)
(***************************************************************************)
EXTENDS PacketFrontend, Lsc1TransitionProofs

-----------------------------------------------------------------------------
(* What a computation in flight has left to decide                         *)

\* A decision, in the words of the transition rules.
Outcome(decided) ==
    Decided(decided.next_pc, decided.next_fp, decided.writes, decided.deferred,
            decided.accesses)

\* finish_binary, given the forward result.
Forwarded(decided, value) ==
    LET c == decided.request.cells[3] IN
    IF c.present /\ c.value # value THEN Fault("WRITE_CONFLICT")
    ELSE Outcome(IF c.present THEN decided
                 ELSE [decided EXCEPT !.writes = WriteOf(decided.accesses[3], value)])

\* The missing operand of a back-solve is known.
SolvedWith(decided, value) ==
    LET missing == IF decided.request.cells[1].present THEN 2 ELSE 1 IN
    [decided EXCEPT !.writes = WriteOf(decided.accesses[missing], value)]

\* The operand of a back-solve that is present.
KnownOf(request) ==
    IF request.cells[1].present THEN request.cells[1].value ELSE request.cells[2].value

\* The product is verified forward, solved operand first.
MulSolved(decided, value) ==
    Forwarded(SolvedWith(decided, value), field_mul(value, KnownOf(decided.request)))

\* XOR is verified forward too, its operands in order.
XorSolved(decided, value) ==
    Forwarded(SolvedWith(decided, value),
              IF decided.request.cells[1].present
              THEN Xor(decided.request.cells[1].value, value)
              ELSE Xor(value, decided.request.cells[2].value))

\* The inverse offered is checked before it is multiplied in.
InverseVerified(decided, value) ==
    IF value # One THEN Fault("BAD_INVERSE")
    ELSE MulSolved(decided, field_mul(decided.request.cells[3].value,
                                      decided.request.proposed_inverse.value))

\* DEREF_CELL with a good pointer.
Reconciled(decided) ==
    LET target == decided.request.cells[2]
        local  == decided.request.cells[3]
    IN  IF target.present /\ local.present /\ target.value # local.value
        THEN Fault("DEREF_MISMATCH")
        ELSE Outcome(
               IF target.present /\ ~local.present
               THEN [decided EXCEPT !.writes = WriteOf(decided.accesses[3], target.value)]
               ELSE IF local.present /\ ~target.present
               THEN [decided EXCEPT !.writes = WriteOf(decided.accesses[2], local.value)]
               ELSE IF ~local.present
               THEN [decided EXCEPT !.deferred = <<[target |-> decided.accesses[2],
                                                    local |-> decided.accesses[3]]>>]
               ELSE decided)

\* DEREF_PC and DEREF_FP with the encoding of the index they store.
ValueStored(decided, value) ==
    LET target == decided.request.cells[2] IN
    IF target.present /\ target.value # value THEN Fault("WRITE_CONFLICT")
    ELSE Outcome(IF target.present THEN decided
                 ELSE [decided EXCEPT !.writes = WriteOf(decided.accesses[2], value)])

\* The pointer a DEREF follows is the encoding of its base.
PointerEncoded(decided, value) ==
    IF value # decided.request.cells[1].value THEN Fault("BAD_POINTER")
    ELSE IF decided.request.opcode = "DEREF_CELL" THEN Reconciled(decided)
    ELSE ValueStored(decided, field_encode(DerefIndex(decided.request)))

\* JUMP, from the frame pointer's encoding back to the inverse's product.
FrameEncoded(decided, value) ==
    IF value # decided.request.cells[3].value THEN Fault("BAD_POINTER")
    ELSE Outcome([decided EXCEPT !.next_pc = decided.request.dest_pc,
                                 !.next_fp = decided.request.dest_fp])

\* The same for the destination, which comes first.
DestinationEncoded(decided, value) ==
    IF value # decided.request.cells[2].value THEN Fault("BAD_POINTER")
    ELSE FrameEncoded(decided, field_encode(decided.request.dest_fp))

\* And for the condition's inverse, before both.
JumpVerified(decided, value) ==
    IF value # One THEN Fault("BAD_INVERSE")
    ELSE DestinationEncoded(decided, field_encode(decided.request.dest_pc))

\* What the datapath in use will make of the request.
Remaining(decided) ==
    CASE compute = "C_SET"            -> Outcome(decided)
      [] compute = "C_FORWARD"        -> Forwarded(decided, alu_result)
      [] compute = "C_XOR_SOLVE"      -> XorSolved(decided, alu_result)
      [] compute = "C_VERIFY_INVERSE" -> InverseVerified(decided, alu_result)
      [] compute = "C_SOLVE"          -> MulSolved(decided, alu_result)
      [] compute = "C_DEREF_POINTER"  -> PointerEncoded(decided, encoder_result)
      [] compute = "C_DEREF_VALUE"    -> ValueStored(decided, encoder_result)
      [] compute = "C_JUMP_INVERSE"   -> JumpVerified(decided, alu_result)
      [] compute = "C_JUMP_PC"        -> DestinationEncoded(decided, encoder_result)
      [] compute = "C_JUMP_FP"        -> FrameEncoded(decided, encoder_result)

-----------------------------------------------------------------------------
(* The inductive invariant                                                 *)

\* The states that wait for each datapath, and what it then holds.
AluStates == {"C_VERIFY_INVERSE", "C_SOLVE", "C_FORWARD", "C_SET", "C_XOR_SOLVE",
              "C_JUMP_INVERSE"}

\* The states that wait for the encoder.
EncoderStates == {"C_DEREF_POINTER", "C_DEREF_VALUE", "C_JUMP_PC", "C_JUMP_FP"}

\* A datapath in use: what it was given, and how far it is.
AluRecord == [phase : {"start", "busy", "done"}, operation : {"SET", "XOR", "MUL"},
              a : Word, b : Word]

\* The encoder turns an index into the field element that stands for it.
EncoderRecord == [phase : {"start", "busy", "done"}, index : 0..(INDEX_LIMIT - 1)]

\* A response is due, on the wire, or just drained.
Responding == tx_start \/ tx # "idle"

\* The receiver: a waiting frame is whole, and none arrives while a request
\* is computed or answered.
ReceiverInv ==
    /\ rx.state \in {"sof", "body", "frame", "fault"}
    /\ rx.state = "frame" => /\ frame_payload \in Frames
                             /\ frame_opcode = frame_payload.opcode
    /\ rx.state = "frame" /\ frame_opcode = "RETIRE" => retire_seq < RetireSeqMax
    /\ rx.state = "fault" => rx.status \in BodyFaults \cup {"BAD_SOF"}
    /\ (compute # C_IDLE \/ Responding) => rx.state = "sof"
    /\ compute # C_IDLE => frame_opcode = scratch.request.opcode

\* The transmitter: a reply is loaded exactly while one is due.
TransmitterInv ==
    /\ tx \in {"idle", "active", "done"}
    /\ tx_start \in BOOLEAN
    /\ compute # C_IDLE => ~Responding
    /\ tx_start => tx = "idle"
    /\ ~Responding => reply = NoReply
    /\ Responding => reply.kind \in ReplyKinds
    /\ fault \in BOOLEAN

\* The datapath a compute state waits for, and only it, is in use.
DatapathInv ==
    /\ compute \in AluStates \cup EncoderStates \cup {C_IDLE}
    /\ IF compute \in AluStates THEN alu \in AluRecord ELSE alu = AluIdle
    /\ IF compute \in EncoderStates THEN encoder \in EncoderRecord
       ELSE encoder = EncoderIdle

\* What is left to decide is what the transition rules decide.
ScratchInv ==
    IF compute = C_IDLE THEN scratch = None
    ELSE /\ scratch \in Decisions
         /\ asked = Asked(scratch.request, "open")
         /\ scratch.request.opcode \in ScalarOpcodes
         /\ scratch.request.profile = INTERPRETER_COMPAT
         /\ execute(scratch.request) = Remaining(scratch)
         /\ compute = "C_SET" =>
               alu.operation = "SET" /\ alu.a = scratch.request.constant
         /\ compute \in {"C_FORWARD", "C_XOR_SOLVE", "C_VERIFY_INVERSE", "C_SOLVE"} =>
               scratch.request.opcode \in {"XOR", "MUL_NATIVE"} /\ Len(scratch.accesses) = 3
         /\ compute = "C_XOR_SOLVE" => scratch.request.opcode = "XOR"
         /\ compute \in {"C_VERIFY_INVERSE", "C_SOLVE"} =>
               scratch.request.opcode = "MUL_NATIVE"
         /\ compute \in {"C_DEREF_POINTER", "C_DEREF_VALUE"} =>
               /\ scratch.request.opcode \in {"DEREF_CELL", "DEREF_PC", "DEREF_FP"}
               /\ Len(scratch.accesses) = 3
         /\ compute = "C_DEREF_POINTER" /\ scratch.request.opcode # "DEREF_CELL" =>
               DerefIndex(scratch.request) < INDEX_LIMIT
         /\ compute \in {"C_JUMP_INVERSE", "C_JUMP_PC", "C_JUMP_FP"} =>
               /\ scratch.request.opcode = "JUMP"
               /\ scratch.request.dest_pc < INDEX_LIMIT
               /\ scratch.request.dest_fp < INDEX_LIMIT

\* What is committed, and the profile negotiated.
CommittedInv ==
    /\ committed \in ScalarState
    /\ state_valid \in BOOLEAN
    /\ retire_seq \in 0..RetireSeqMax
    /\ active_profile = INTERPRETER_COMPAT

\* The shell's registers.
LifeInv ==
    /\ life = [service_pending |-> life.service_pending,
               result_pending |-> life.result_pending, txn_id |-> life.txn_id,
               service_id |-> life.service_id, next_pc |-> life.next_pc,
               next_fp |-> life.next_fp, crc |-> life.crc,
               service_seq |-> life.service_seq, done_pulse |-> life.done_pulse]
    /\ life.service_pending \in BOOLEAN
    /\ life.result_pending \in BOOLEAN
    /\ life.service_seq \in 0..ServiceSeqMax
    /\ service = [access |-> service.access, out |-> service.out,
                  writes |-> service.writes]

\* A pulse lasts for the edge on which its response starts.
PulseInv ==
    /\ blake_pulse \in {"none", "start", "accept", "discard"}
    /\ blake_pulse # "none" => tx_start
    /\ blake_pulse = "start" => reply.kind = "service" /\ life.service_seq < ServiceSeqMax
    /\ blake_pulse = "accept" => reply.kind = "blake_result"
    /\ blake_pulse = "discard" => reply.kind = "fault"
    /\ reply.kind = "blake_result" => blake_pulse = "accept" \/ life.result_pending
    /\ reply.kind = "service" => blake_pulse = "start" \/ life.service_pending
    /\ reply.kind = "result" => result_pending

\* What the guard on a request leaves of its position.
Placed(request) ==
    /\ request \in Requests
    /\ request.pc \in 0..(INDEX_LIMIT - 1)
    /\ request.fp \in 0..(INDEX_LIMIT - 1)
    /\ request.profile = INTERPRETER_COMPAT

\* A transaction held or being decided is the one asked, from the committed
\* state.
ServiceHeld == blake_pulse # "none" \/ life.service_pending \/ life.result_pending

\* The one transaction there may be, wherever it is.
Holding == compute # C_IDLE \/ result_pending \/ ServiceHeld

\* It is the one asked, placed where the committed state is.
HoldingInv ==
    /\ asked = None \/ asked \in Questions
    /\ Holding =>
          /\ asked # None
          /\ Placed(asked.request)
          /\ state_valid => committed = [pc |-> asked.request.pc, fp |-> asked.request.fp]
    /\ ServiceHeld => asked.request.opcode = "BLAKE3_REQUEST"

\* A result on offer is the rules'.
ResultOf(request) ==
    LET decided == execute(request) IN
    [txn_id |-> request.txn_id, next_pc |-> decided.next_pc,
     next_fp |-> decided.next_fp, writes |-> decided.writes,
     deferred |-> decided.deferred, accesses |-> decided.accesses]

\* A scalar result is staged exactly while one is pending.
StagedInv ==
    /\ result_pending \in BOOLEAN
    /\ ~result_pending => staged = None
    /\ result_pending => /\ asked.verdict = "OK"
                         /\ asked.request.opcode # "BLAKE3_REQUEST"
                         /\ staged \in StagedResults
                         /\ staged = ResultOf(asked.request)

\* A question whose digest has come, in the words of the transition rules.
Resumed(question) ==
    LET suspended == execute(question.request)
    IN  resume_blake3(suspended.frame, suspended.accesses, question.digest)

\* The verdict reached is the rules'.
VerdictOf(question) ==
    IF question.request.opcode # "BLAKE3_REQUEST"
    THEN question.verdict # "open" => question.verdict = Verdicts(question.request)
    ELSE IF question.digest = None THEN question.verdict = Verdicts(question.request)
    ELSE (question.verdict = "FAULT") = (Resumed(question).status \in FaultStatus)

\* So it is of the question asked.
VerdictInv == asked # None => VerdictOf(asked)

\* A service held is the suspended transition of the rules.
SuspendedInv ==
    LET suspended == execute(asked.request)
    IN  /\ ServiceHeld => suspended.status = "SERVICE_REQUIRED"
        /\ blake_pulse = "start" =>
              /\ blake_start = [txn_id |-> asked.request.txn_id,
                                next_pc |-> suspended.next_pc, next_fp |-> suspended.next_fp]
              /\ Companions(service.access) = suspended.accesses
        /\ life.service_pending \/ life.result_pending =>
              /\ life.txn_id = asked.request.txn_id
              /\ life.next_pc = suspended.next_pc
              /\ life.next_fp = suspended.next_fp
              /\ service.access = suspended.accesses
        /\ life.service_pending => life.service_id = life.service_seq
        /\ blake_pulse = "start" \/ life.service_pending =>
              service.out = <<asked.request.cells[Len(asked.request.cells) - 1],
                              asked.request.cells[Len(asked.request.cells)]>>
        /\ reply.kind = "service" => frame_payload = asked.request
        /\ blake_pulse = "start" \/ (life.service_pending /\ blake_pulse = "none") =>
              asked.digest = None
        /\ blake_pulse \in {"accept", "discard"} \/ life.result_pending =>
              asked.digest # None
        /\ blake_pulse = "accept" \/ life.result_pending =>
              service.writes = Resumed(asked).writes

\* The payload of a BLAKE3 result.
ServicePayload ==
    [txn_id |-> life.txn_id, next_pc |-> life.next_pc, next_fp |-> life.next_fp,
     writes |-> service.writes, deferred |-> <<>>, accesses |-> service.access]

\* The CRC of a result is that of what was sent, once it was sent.
CrcInv ==
    /\ capture_result_crc \in BOOLEAN
    /\ capture_result_crc =>
          /\ result_pending
          /\ Responding
          /\ reply.kind = "result"
    /\ result_pending /\ ~capture_result_crc => staged_result_crc = Crc(staged)
    /\ tx = "done" /\ reply.kind = "result" => tx_crc = Crc(staged)
    /\ tx = "done" /\ reply.kind = "blake_result" => tx_crc = Crc(ServicePayload)
    /\ life.result_pending =>
          \/ life.crc = Crc(ServicePayload)
          \/ reply.kind = "blake_result" /\ tx # "idle"

\* A fault that discards leaves nothing pending.
DiscardInv ==
    (reply.kind = "fault" /\ reply.status \in DiscardingFaults) =>
        /\ ~result_pending /\ ~life.result_pending
        /\ blake_pulse \in {"none", "discard"}
        /\ life.service_pending => blake_pulse = "discard"

\* What is held, and where.
HeldInv ==
    /\ DatapathInv /\ ScratchInv /\ LifeInv /\ PulseInv /\ OneTransaction
    /\ HoldingInv /\ StagedInv /\ VerdictInv /\ SuspendedInv /\ CrcInv /\ DiscardInv

\* The inductive invariant.
IInv == ReceiverInv /\ TransmitterInv /\ CommittedInv /\ HeldInv
-----------------------------------------------------------------------------
(* The rules, with the frame of cells read away                            *)

\* What the validator says of a scalar instruction with three cells.
LEMMA TripleShape ==
  ASSUME NEW request, IsRequest(request),
         request.opcode \in ScalarOpcodes \ {"SET_CONSTANT"}
  PROVE  request.offsets \in [1..3 -> Nat] /\ request.cells \in [1..3 -> Cell]
<1>1. PICK n \in {1, 3} : /\ (n = 1) = (request.opcode = "SET_CONSTANT")
                          /\ request.offsets \in [1..n -> Nat]
                          /\ request.cells \in [1..n -> Cell]
  BY DEF IsRequest
<1>2. n = 3
  BY <1>1
<1> QED
  BY <1>1, <1>2

\* What it says of SET_CONSTANT.
LEMMA SingleShape ==
  ASSUME NEW request, IsRequest(request), request.opcode = "SET_CONSTANT"
  PROVE  request.offsets \in [1..1 -> Nat] /\ request.cells \in [1..1 -> Cell]
<1>1. PICK n \in {1, 3} : /\ (n = 1) = (request.opcode = "SET_CONSTANT")
                          /\ request.offsets \in [1..n -> Nat]
                          /\ request.cells \in [1..n -> Cell]
  BY DEF IsRequest, ScalarOpcodes
<1>2. n = 1
  BY <1>1
<1> QED
  BY <1>1, <1>2

\* An address seen with one cell is read as that cell.
LEMMA FrameAt ==
  ASSUME NEW addresses, NEW cells, ~AliasInconsistent(addresses, cells),
         NEW i \in DOMAIN addresses
  PROVE  Frame(addresses, cells)[addresses[i]] = cells[i]
<1> DEFINE j == CHOOSE k \in DOMAIN addresses : addresses[k] = addresses[i]
<1>1. j \in DOMAIN addresses /\ addresses[j] = addresses[i]
  BY Zenon
<1>2. Frame(addresses, cells)[addresses[i]] = cells[j]
  BY Zenon DEF Frame
<1> HIDE DEF j
<1>3. cells[j] = cells[i]
  BY <1>1, Zenon DEF AliasInconsistent
<1> QED
  BY <1>2, <1>3

\* A cell reads as its value, present or not.
LEMMA CellRead ==
  ASSUME NEW frame, NEW address, NEW cell \in Cell, frame[address] = cell
  PROVE  Read(frame, address) = cell.value
<1>1. ~cell.present => cell.value = Zero
  <2>1. ABSENT.value = Zero
    BY DEF ABSENT
  <2> QED
    BY <2>1, CellType
<1> QED
  BY <1>1, Zenon DEF Read

\* Comparing the pairs in one order is comparing all pairs.
LEMMA AliasCheck ==
  ASSUME NEW n \in Nat, NEW addresses, NEW cells, DOMAIN addresses = 1..n
  PROVE  CellAliasInconsistent(addresses, cells) <=> AliasInconsistent(addresses, cells)
<1>1. ASSUME AliasInconsistent(addresses, cells)
      PROVE  CellAliasInconsistent(addresses, cells)
  <2>1. PICK i \in 1..n, j \in 1..n : addresses[i] = addresses[j] /\ cells[i] # cells[j]
    BY <1>1 DEF AliasInconsistent
  <2>2. i < j \/ j < i
    BY <2>1
  <2> QED
    BY <2>1, <2>2 DEF CellAliasInconsistent
<1>2. CellAliasInconsistent(addresses, cells) => AliasInconsistent(addresses, cells)
  BY Zenon DEF CellAliasInconsistent, AliasInconsistent
<1> QED
  BY <1>1, <1>2

\* An address that does not overflow is not wrapped.
LEMMA AddressSum ==
  ASSUME NEW base \in Nat, NEW offset \in Nat
  PROVE  /\ OverflowsBy(base, offset) <=> base + offset > U32_MAX
         /\ ~OverflowsBy(base, offset) =>
               /\ Add32(base, offset) = base + offset
               /\ base + offset \in 0..U32_MAX
  BY U32Assumption DEF OverflowsBy, Add32

\* The three addresses of an instruction in the frame of fp.
LEMMA AddressTriple ==
  ASSUME NEW fp \in Nat, NEW offsets \in [1..3 -> Nat]
  PROVE  LET wrapped == [i \in 1..3 |-> Add32(fp, offsets[i])] IN
         /\ (\E i \in 1..3 : OverflowsBy(fp, offsets[i])) <=> Overflows(Addresses(fp, offsets))
         /\ ~Overflows(Addresses(fp, offsets)) =>
               /\ wrapped = Addresses(fp, offsets)
               /\ wrapped \in Seq(0..U32_MAX) /\ Len(wrapped) = 3
<1> DEFINE wrapped == [i \in 1..3 |-> Add32(fp, offsets[i])]
           plain   == Addresses(fp, offsets)
<1>1. DOMAIN offsets = 1..3 /\ \A i \in 1..3 : offsets[i] \in Nat
  OBVIOUS
<1>2. plain = [i \in 1..3 |-> fp + offsets[i]]
  BY <1>1, Zenon DEF Addresses
<1>3. (\E i \in 1..3 : OverflowsBy(fp, offsets[i])) <=> Overflows(plain)
  <2>1. DOMAIN plain = 1..3 /\ \A i \in 1..3 : plain[i] = fp + offsets[i]
    BY <1>2
  <2> HIDE DEF plain
  <2> QED
    BY <1>1, <2>1, AddressSum, Zenon DEF Overflows
<1>4. ASSUME ~Overflows(plain)
      PROVE  wrapped = plain /\ wrapped \in Seq(0..U32_MAX) /\ Len(wrapped) = 3
  <2>1. \A i \in 1..3 : ~OverflowsBy(fp, offsets[i])
    BY <1>3, <1>4, Zenon
  <2>2. \A i \in 1..3 : Add32(fp, offsets[i]) = fp + offsets[i]
                        /\ Add32(fp, offsets[i]) \in 0..U32_MAX
    BY <1>1, <2>1, AddressSum, Zenon
  <2>3. wrapped \in [1..3 -> 0..U32_MAX]
    BY <2>2
  <2>4. wrapped = plain
    BY <1>2, <2>2
  <2>5. 3 \in Nat
    OBVIOUS
  <2> HIDE DEF wrapped
  <2>6. wrapped \in Seq(0..U32_MAX) /\ Len(wrapped) = 3
    <3>1. \A S : wrapped \in [1..3 -> S] => wrapped \in Seq(S) /\ Len(wrapped) = 3
      BY <2>5, SeqOfFunction
    <3> QED
      BY <2>3, <3>1, Zenon
  <2> QED
    BY <2>4, <2>6
<1> QED
  BY <1>3, <1>4

\* Adding nothing to a sequence of one.
LEMMA SingleWrite ==
  ASSUME NEW write
  PROVE  <<write>> \o <<>> = <<write>> /\ <<>> \o <<write>> = <<write>>
         /\ <<>> \o <<>> = <<>>
  OBVIOUS

\* XOR and MUL_NATIVE without overflow or aliases (_execute_binary).
LEMMA BinaryRule ==
  ASSUME NEW request, IsRequest(request), request.opcode \in {"XOR", "MUL_NATIVE"},
         request.profile = INTERPRETER_COMPAT,
         NEW addresses, addresses = Addresses(request.fp, request.offsets),
         ~Overflows(addresses), ~AliasInconsistent(addresses, request.cells)
  PROVE  LET a == request.cells[1]
             b == request.cells[2]
             c == request.cells[3]
             decided == Scratch(request, addresses)
             known   == KnownOf(request)
             witness == request.proposed_inverse
         IN  execute(request) =
               IF ~(c.present /\ a.present # b.present)
               THEN Forwarded(decided, Combine(request.opcode, a.value, b.value))
               ELSE IF request.opcode = "XOR"
               THEN XorSolved(decided, Xor(c.value, known))
               ELSE IF known = Zero THEN Fault("MUL_BACKSOLVE_ZERO")
               ELSE IF ~witness.present THEN Fault("BAD_INVERSE")
               ELSE InverseVerified(decided, field_mul(known, witness.value))
<1> DEFINE frame   == Frame(addresses, request.cells)
           cellA   == request.cells[1]
           cellB   == request.cells[2]
           cellC   == request.cells[3]
           a == addresses[1]
           b == addresses[2]
           c == addresses[3]
           absentA == ~frame[a].present
           absentB == ~frame[b].present
           backSolve == /\ request.profile = INTERPRETER_COMPAT
                        /\ frame[c].present
                        /\ absentA # absentB
           missing == IF absentA THEN a ELSE b
           known   == Read(frame, IF absentA THEN b ELSE a)
           witness == request.proposed_inverse
           solved  == BackSolved(request, Read(frame, c), known)
           filled  == IF backSolve THEN WriteOnce(frame, missing, solved) ELSE frame
           solving == IF backSolve THEN NewWrites(frame, missing, solved) ELSE <<>>
           result  == Combine(request.opcode, Read(filled, a), Read(filled, b))
           mulBack == backSolve /\ request.opcode = "MUL_NATIVE"
           decided == Scratch(request, addresses)
<1>1. /\ request.offsets \in [1..3 -> Nat] /\ request.cells \in [1..3 -> Cell]
      /\ DOMAIN addresses = 1..3
  <2>1. request.opcode \in ScalarOpcodes \ {"SET_CONSTANT"}
    BY DEF ScalarOpcodes
  <2>2. request.offsets \in [1..3 -> Nat] /\ request.cells \in [1..3 -> Cell]
    BY <2>1, TripleShape
  <2> QED
    BY <2>2 DEF Addresses
<1>2. cellA \in Cell /\ cellB \in Cell /\ cellC \in Cell
  BY <1>1
<1>3. /\ frame[a] = cellA /\ frame[b] = cellB /\ frame[c] = cellC
      /\ a \in DOMAIN frame /\ b \in DOMAIN frame /\ c \in DOMAIN frame
  <2>1. 1 \in DOMAIN addresses /\ 2 \in DOMAIN addresses /\ 3 \in DOMAIN addresses
    BY <1>1
  <2>2. DOMAIN frame = {addresses[i] : i \in DOMAIN addresses}
    BY Zenon DEF Frame
  <2> HIDE DEF frame
  <2>3. a \in DOMAIN frame /\ b \in DOMAIN frame /\ c \in DOMAIN frame
    BY <2>1, <2>2, Zenon
  <2>4. \A i \in DOMAIN addresses : frame[addresses[i]] = request.cells[i]
    BY FrameAt, Zenon DEF frame
  <2> QED
    BY <2>1, <2>3, <2>4, Zenon
<1> HIDE DEF frame, cellA, cellB, cellC, a, b, c
<1>4. /\ Read(frame, a) = cellA.value /\ Read(frame, b) = cellB.value
      /\ Read(frame, c) = cellC.value
  BY <1>2, <1>3, CellRead, Zenon
<1>5. /\ cellA.present \in BOOLEAN /\ cellB.present \in BOOLEAN /\ cellC.present \in BOOLEAN
  BY <1>2, CellType, Zenon
<1>6. INTERPRETER_COMPAT # FORWARD_ONLY
  BY DEF INTERPRETER_COMPAT, FORWARD_ONLY
<1>7. /\ decided.request = request /\ decided.next_pc = request.pc + 1
      /\ decided.next_fp = request.fp /\ decided.writes = <<>> /\ decided.deferred = <<>>
      /\ decided.accesses = addresses
      /\ decided = [request |-> request, next_pc |-> request.pc + 1,
                    next_fp |-> request.fp, writes |-> <<>>, deferred |-> <<>>,
                    accesses |-> addresses]
  BY DEF Scratch
<1> HIDE DEF decided
<1>8. execute(request) = execute_binary(request)
  BY Zenon DEF execute
<1>9. KnownOf(request) = IF cellA.present THEN cellA.value ELSE cellB.value
  BY Zenon DEF KnownOf, cellA, cellB
<1>10. ASSUME ~(cellC.present /\ cellA.present # cellB.present)
       PROVE  execute(request)
                = Forwarded(decided, Combine(request.opcode, cellA.value, cellB.value))
  <2>1. ~backSolve
    BY <1>3, <1>5, <1>10
  <2>2. filled = frame /\ solving = <<>> /\ ~mulBack
    BY <2>1, Zenon
  <2>3. result = Combine(request.opcode, cellA.value, cellB.value)
    BY <2>2, <1>4, Zenon
  <2> DEFINE value == Combine(request.opcode, cellA.value, cellB.value)
  <2>4. execute_binary(request)
          = IF WriteConflicts(frame, c, value) THEN Fault("WRITE_CONFLICT")
            ELSE Decided(request.pc + 1, request.fp,
                         <<>> \o NewWrites(frame, c, value), <<>>, addresses)
    BY <2>2, <2>3, <1>6, Zenon DEF execute_binary, frame, a, b, c
  <2> HIDE DEF value
  <2>5. CASE cellC.present
    <3>1. NewWrites(frame, c, value) = <<>>
      BY <1>3, <2>5, Zenon DEF NewWrites
    <3>2. Forwarded(decided, value)
            = IF cellC.value # value THEN Fault("WRITE_CONFLICT")
              ELSE Decided(request.pc + 1, request.fp, <<>>, <<>>, addresses)
      BY <1>7, <2>5, Zenon DEF Forwarded, Outcome, cellC
    <3> QED
      BY <3>1, <3>2, <2>4, <2>5, <1>3, <1>8, SingleWrite, Zenon DEF WriteConflicts, value
  <2>6. CASE ~cellC.present
    <3>1. NewWrites(frame, c, value) = WriteOf(c, value)
      BY <1>3, <2>6, Zenon DEF NewWrites, WriteOf
    <3>2. Forwarded(decided, value)
            = Decided(request.pc + 1, request.fp, WriteOf(c, value), <<>>, addresses)
      <4>1. Forwarded(decided, value)
              = Outcome([decided EXCEPT !.writes = WriteOf(c, value)])
        BY <1>7, <2>6, Zenon DEF Forwarded, cellC, c
      <4>2. LET e == [decided EXCEPT !.writes = WriteOf(c, value)] IN
            /\ e.next_pc = request.pc + 1 /\ e.next_fp = request.fp
            /\ e.writes = WriteOf(c, value) /\ e.deferred = <<>> /\ e.accesses = addresses
        BY <1>7
      <4> QED
        BY <4>1, <4>2, Zenon DEF Outcome
    <3>3. <<>> \o WriteOf(c, value) = WriteOf(c, value)
      BY SingleWrite DEF WriteOf
    <3> QED
      BY <3>1, <3>2, <3>3, <2>4, <2>6, <1>3, <1>8, Zenon DEF WriteConflicts, value
  <2> QED
    BY <2>5, <2>6 DEF value
<1>11. ASSUME cellC.present, cellA.present # cellB.present,
              request.opcode = "MUL_NATIVE" => /\ KnownOf(request) # Zero
                                               /\ witness.present
                                               /\ field_mul(KnownOf(request), witness.value) = One
       PROVE  execute(request)
                = IF request.opcode = "XOR"
                  THEN XorSolved(decided, Xor(cellC.value, KnownOf(request)))
                  ELSE MulSolved(decided, field_mul(cellC.value, witness.value))
  <2>1. backSolve
    BY <1>3, <1>5, <1>11
  <2>2. known = KnownOf(request)
    BY <1>3, <1>4, <1>5, <1>9, <1>11
  <2>3. /\ missing = IF cellA.present THEN b ELSE a
        /\ missing # c /\ missing \in DOMAIN frame /\ ~frame[missing].present
    BY <1>3, <1>5, <1>11
  <2> HIDE DEF known, missing
  <2>4. solved = IF request.opcode = "XOR" THEN Xor(cellC.value, KnownOf(request))
                 ELSE field_mul(cellC.value, witness.value)
    BY <1>4, <2>2, Zenon DEF BackSolved
  <2> HIDE DEF solved
  <2>5. /\ filled = [frame EXCEPT ![missing] = Present(solved)]
        /\ solving = WriteOf(missing, solved)
    BY <2>1, <2>3, Zenon DEF WriteOnce, NewWrites, WriteOf
  <2> HIDE DEF backSolve, absentA, absentB
  <2>6. /\ filled[missing] = Present(solved)
        /\ filled[c] = cellC
        /\ cellA.present => b = missing /\ a # missing /\ filled[a] = cellA
        /\ ~cellA.present => a = missing /\ b # missing /\ filled[b] = cellB
    BY <2>3, <2>5, <1>3, <1>5, <1>11
  <2>7. Read(filled, missing) = solved
    <3>1. Present(solved).present = TRUE /\ Present(solved).value = solved
      BY DEF Present
    <3> QED
      BY <2>6, <3>1, Zenon DEF Read
  <2>8. result = IF cellA.present THEN Combine(request.opcode, cellA.value, solved)
                 ELSE Combine(request.opcode, solved, cellB.value)
    <3>1. cellA.present => Read(filled, a) = cellA.value /\ Read(filled, b) = solved
      BY <2>6, <2>7, <1>2, CellRead, Zenon
    <3>2. ~cellA.present => Read(filled, b) = cellB.value /\ Read(filled, a) = solved
      BY <2>6, <2>7, <1>2, CellRead, Zenon
    <3> QED
      BY <3>1, <3>2, Zenon
  <2> HIDE DEF filled, solving, result
  <2>9. /\ ~(mulBack /\ known = Zero) /\ ~(mulBack /\ ~witness.present)
        /\ ~(mulBack /\ field_mul(known, witness.value) # One)
    BY <1>11, <2>2
  <2>10. execute_binary(request)
           = IF WriteConflicts(filled, c, result) THEN Fault("WRITE_CONFLICT")
             ELSE Decided(request.pc + 1, request.fp,
                          solving \o NewWrites(filled, c, result), <<>>, addresses)
    <3> HIDE DEF mulBack, witness
    <3> QED
    BY <2>9, <1>6, Zenon
    DEF execute_binary, frame, a, b, c, backSolve, absentA, absentB, missing, known,
        solved, filled, solving, result, mulBack, witness
  <2>11. execute_binary(request)
           = IF cellC.value # result THEN Fault("WRITE_CONFLICT")
             ELSE Decided(request.pc + 1, request.fp, WriteOf(missing, solved), <<>>,
                          addresses)
    <3>1. NewWrites(filled, c, result) = <<>>
      BY <2>6, <1>11, Zenon DEF NewWrites
    <3>2. WriteOf(missing, solved) \o <<>> = WriteOf(missing, solved)
      BY SingleWrite DEF WriteOf
    <3> QED
      BY <2>5, <2>6, <2>10, <1>11, <3>1, <3>2, Zenon DEF WriteConflicts
  <2> DEFINE full == SolvedWith(decided, solved)
  <2>12. full = [decided EXCEPT !.writes = WriteOf(missing, solved)]
    BY <1>7, <2>3, Zenon DEF SolvedWith, cellA, a, b
  <2>13. /\ full.request = request /\ full.next_pc = request.pc + 1
         /\ full.next_fp = request.fp /\ full.writes = WriteOf(missing, solved)
         /\ full.deferred = <<>> /\ full.accesses = addresses
    BY <1>7, <2>12
  <2> HIDE DEF full
  <2>14. execute(request) = Forwarded(full, result)
    <3>1. Forwarded(full, result)
            = IF cellC.value # result THEN Fault("WRITE_CONFLICT") ELSE Outcome(full)
      BY <2>13, <1>11, Zenon DEF Forwarded, cellC
    <3>2. Outcome(full) = Decided(request.pc + 1, request.fp, WriteOf(missing, solved), <<>>,
                                  addresses)
      BY <2>13, Zenon DEF Outcome
    <3> QED
      BY <3>1, <3>2, <2>11, <1>8, Zenon
  <2>15. CASE request.opcode = "XOR"
    <3>1. result = IF cellA.present THEN Xor(cellA.value, solved)
                   ELSE Xor(solved, cellB.value)
      BY <2>8, <2>15, Zenon DEF Combine
    <3>2. XorSolved(decided, solved) = Forwarded(full, result)
      BY <3>1, <1>7, Zenon DEF XorSolved, full, cellA, cellB
    <3> QED
      BY <3>2, <2>4, <2>14, <2>15, Zenon
  <2>16. CASE request.opcode # "XOR"
    <3>1. result = field_mul(solved, KnownOf(request))
      <4>1. result = IF cellA.present THEN field_mul(cellA.value, solved)
                     ELSE field_mul(solved, cellB.value)
        BY <2>8, <2>16, Zenon DEF Combine
      <4>2. solved \in Word /\ cellA.value \in Word
        BY <1>2, <2>4, <2>16, CellType, MulType, Zenon
      <4> QED
        BY <4>1, <4>2, <1>9, MultiplicationCommutes, Zenon
    <3>2. MulSolved(decided, solved) = Forwarded(full, result)
      BY <3>1, <1>7, Zenon DEF MulSolved, full
    <3> QED
      BY <3>2, <2>4, <2>14, <2>16, Zenon
  <2> QED
    BY <2>15, <2>16
<1>12. ASSUME cellC.present, cellA.present # cellB.present, request.opcode = "MUL_NATIVE",
              KnownOf(request) = Zero \/ ~witness.present
              \/ field_mul(KnownOf(request), witness.value) # One
       PROVE  execute(request)
                = IF KnownOf(request) = Zero THEN Fault("MUL_BACKSOLVE_ZERO")
                  ELSE Fault("BAD_INVERSE")
  <2>1. backSolve
    BY <1>3, <1>5, <1>12
  <2>2. known = KnownOf(request)
    BY <1>3, <1>4, <1>5, <1>9, <1>12
  <2> HIDE DEF backSolve, known, witness, filled, result, solving
  <2>3. mulBack
    BY <2>1, <1>12
  <2> HIDE DEF mulBack
  <2>4. execute_binary(request) = IF known = Zero THEN Fault("MUL_BACKSOLVE_ZERO")
                                  ELSE Fault("BAD_INVERSE")
    <3>1. CASE known = Zero
      <4>1. mulBack /\ known = Zero
        BY <2>3, <3>1
      <4>2. execute_binary(request) = Fault("MUL_BACKSOLVE_ZERO")
        BY <4>1, <1>6, Zenon
        DEF execute_binary, frame, a, b, c, backSolve, known, mulBack
      <4> QED
        BY <3>1, <4>2, Zenon
    <3>2. CASE known # Zero /\ ~witness.present
      <4>1. ~(mulBack /\ known = Zero) /\ mulBack /\ ~witness.present
        BY <2>3, <3>2
      <4>2. execute_binary(request) = Fault("BAD_INVERSE")
        BY <4>1, <1>6, Zenon
        DEF execute_binary, frame, a, b, c, backSolve, known, mulBack, witness
      <4> QED
        BY <3>2, <4>2, Zenon
    <3>3. CASE known # Zero /\ witness.present /\ field_mul(known, witness.value) # One
      <4>1. /\ ~(mulBack /\ known = Zero) /\ ~(mulBack /\ ~witness.present)
            /\ mulBack /\ field_mul(known, witness.value) # One
        BY <2>3, <3>3
      <4>2. execute_binary(request) = Fault("BAD_INVERSE")
        BY <4>1, <1>6, Zenon
        DEF execute_binary, frame, a, b, c, backSolve, known, mulBack, witness
      <4> QED
        BY <3>3, <4>2, Zenon
    <3> QED
      BY <2>2, <1>12, <3>1, <3>2, <3>3
  <2> QED
    BY <2>2, <2>4, <1>8, Zenon
<1>13. request.opcode = "XOR" \/ request.opcode = "MUL_NATIVE"
  OBVIOUS
<1>14. decided.request = request
  BY <1>7
<1>15. InverseVerified(decided, field_mul(KnownOf(request), witness.value))
         = IF field_mul(KnownOf(request), witness.value) # One THEN Fault("BAD_INVERSE")
           ELSE MulSolved(decided, field_mul(cellC.value, witness.value))
  BY <1>14, Zenon DEF InverseVerified, cellC
<1> QED
  BY <1>10, <1>11, <1>12, <1>13, <1>15, Zenon DEF cellA, cellB, cellC, decided

\* The registers a request is decoded into.
LEMMA ScratchFields ==
  ASSUME NEW request, NEW accesses
  PROVE  /\ Scratch(request, accesses)
              = [request |-> request, next_pc |-> request.pc + 1,
                 next_fp |-> request.fp, writes |-> <<>>, deferred |-> <<>>,
                 accesses |-> accesses]
         /\ Scratch(request, accesses).request = request
         /\ Scratch(request, accesses).next_pc = request.pc + 1
         /\ Scratch(request, accesses).next_fp = request.fp
         /\ Scratch(request, accesses).writes = <<>>
         /\ Scratch(request, accesses).deferred = <<>>
         /\ Scratch(request, accesses).accesses = accesses
  BY DEF Scratch

\* Replacing the writes, or the deferred equality, of a decoded request.
LEMMA ScratchUpdate ==
  ASSUME NEW request, NEW accesses, NEW effect
  PROVE  /\ Outcome(Scratch(request, accesses))
              = Decided(request.pc + 1, request.fp, <<>>, <<>>, accesses)
         /\ Outcome([Scratch(request, accesses) EXCEPT !.writes = effect])
              = Decided(request.pc + 1, request.fp, effect, <<>>, accesses)
         /\ Outcome([Scratch(request, accesses) EXCEPT !.deferred = effect])
              = Decided(request.pc + 1, request.fp, <<>>, effect, accesses)
<1> DEFINE decided == Scratch(request, accesses)
<1>1. decided = [request |-> request, next_pc |-> request.pc + 1,
                 next_fp |-> request.fp, writes |-> <<>>, deferred |-> <<>>,
                 accesses |-> accesses]
  BY DEF Scratch
<1>2. LET e == [decided EXCEPT !.writes = effect] IN
      /\ e.next_pc = request.pc + 1 /\ e.next_fp = request.fp
      /\ e.writes = effect /\ e.deferred = <<>> /\ e.accesses = accesses
  BY <1>1
<1>3. LET e == [decided EXCEPT !.deferred = effect] IN
      /\ e.next_pc = request.pc + 1 /\ e.next_fp = request.fp
      /\ e.writes = <<>> /\ e.deferred = effect /\ e.accesses = accesses
  BY <1>1
<1>4. /\ decided.next_pc = request.pc + 1 /\ decided.next_fp = request.fp
      /\ decided.writes = <<>> /\ decided.deferred = <<>> /\ decided.accesses = accesses
  BY <1>1
<1> HIDE DEF decided
<1>5. /\ Outcome(decided) = Decided(request.pc + 1, request.fp, <<>>, <<>>, accesses)
      /\ Outcome([decided EXCEPT !.writes = effect])
           = Decided(request.pc + 1, request.fp, effect, <<>>, accesses)
      /\ Outcome([decided EXCEPT !.deferred = effect])
           = Decided(request.pc + 1, request.fp, <<>>, effect, accesses)
  BY <1>2, <1>3, <1>4, Zenon DEF Outcome
<1> QED
  BY <1>5 DEF decided

\* SET_CONSTANT without overflow (_execute_set).
LEMMA SetRule ==
  ASSUME NEW request, IsRequest(request), request.opcode = "SET_CONSTANT",
         NEW address, address = request.fp + request.offsets[1], ~(address > U32_MAX)
  PROVE  LET held    == request.cells[1]
             decided == Scratch(request, <<address>>)
         IN  execute(request)
               = IF held.present /\ held.value # request.constant
                 THEN Fault("WRITE_CONFLICT")
                 ELSE Outcome(IF held.present THEN decided
                              ELSE [decided EXCEPT
                                      !.writes = WriteOf(address, request.constant)])
<1> DEFINE held    == request.cells[1]
           decided == Scratch(request, <<address>>)
           frame   == Frame(<<address>>, request.cells)
<1>1. frame[address] = held
  <2>1. DOMAIN <<address>> = {1} /\ <<address>>[1] = address
    OBVIOUS
  <2>2. ~AliasInconsistent(<<address>>, request.cells)
    BY <2>1, Zenon DEF AliasInconsistent
  <2> QED
    BY <2>1, <2>2, FrameAt
<1>2. execute(request) = execute_set(request)
  BY Zenon DEF execute
<1> HIDE DEF frame, held, decided
<1>3. execute_set(request)
        = IF WriteConflicts(frame, address, request.constant) THEN Fault("WRITE_CONFLICT")
          ELSE Decided(request.pc + 1, request.fp,
                       NewWrites(frame, address, request.constant), <<>>, <<address>>)
  BY Zenon DEF execute_set, frame
<1>4. /\ NewWrites(frame, address, request.constant)
           = IF held.present THEN <<>> ELSE WriteOf(address, request.constant)
      /\ WriteConflicts(frame, address, request.constant)
           <=> held.present /\ held.value # request.constant
  BY <1>1, Zenon DEF NewWrites, WriteOf, WriteConflicts
<1> DEFINE effect == WriteOf(address, request.constant)
<1>5. /\ Outcome(decided) = Decided(request.pc + 1, request.fp, <<>>, <<>>, <<address>>)
      /\ Outcome([decided EXCEPT !.writes = effect])
           = Decided(request.pc + 1, request.fp, effect, <<>>, <<address>>)
  BY ScratchUpdate, Zenon DEF decided
<1> HIDE DEF effect
<1>6. CASE held.present
  BY <1>2, <1>3, <1>4, <1>5, <1>6, Zenon DEF decided, held
<1>7. CASE ~held.present
  BY <1>2, <1>3, <1>4, <1>5, <1>7, Zenon DEF decided, held, effect
<1> QED
  BY <1>6, <1>7

\* A DEREF with addresses, range and aliases settled (_execute_deref).
LEMMA DerefRule ==
  ASSUME NEW request, IsRequest(request),
         request.opcode \in {"DEREF_CELL", "DEREF_PC", "DEREF_FP"},
         request.profile = INTERPRETER_COMPAT,
         NEW addresses,
         addresses = <<request.fp + request.offsets[1], request.base + request.offsets[2],
                       request.fp + request.offsets[3]>>,
         ~(addresses[1] > U32_MAX), ~(addresses[2] > U32_MAX), ~(addresses[3] > U32_MAX),
         ~(request.base >= INDEX_LIMIT), ~AliasInconsistent(addresses, request.cells),
         request.opcode # "DEREF_CELL" => ~(DerefIndex(request) >= INDEX_LIMIT)
  PROVE  execute(request)
           = PointerEncoded(Scratch(request, addresses), field_encode(request.base))
<1> DEFINE pointer == request.fp + request.offsets[1]
           local   == request.fp + request.offsets[3]
           target  == request.base + request.offsets[2]
           frame   == Frame(addresses, request.cells)
           index   == DerefIndex(request)
           value   == field_encode(index)
           decided == Scratch(request, addresses)
           cellT   == request.cells[2]
           cellL   == request.cells[3]
<1>1. addresses[1] = pointer /\ addresses[2] = target /\ addresses[3] = local
  OBVIOUS
<1>2. frame[target] = cellT /\ frame[local] = cellL
  <2>1. DOMAIN addresses = 1..3
    OBVIOUS
  <2>3. \A i \in DOMAIN addresses : frame[addresses[i]] = request.cells[i]
    BY FrameAt, Zenon DEF frame
  <2>2. \A i \in 1..3 : frame[addresses[i]] = request.cells[i]
    BY <2>1, <2>3
  <2> HIDE DEF frame
  <2> QED
    BY <1>1, <2>2
<1>3. cellT \in Cell /\ cellL \in Cell
  <2>1. request.opcode \in ScalarOpcodes \ {"SET_CONSTANT"}
    BY DEF ScalarOpcodes
  <2>2. request.cells \in [1..3 -> Cell]
    BY <2>1, TripleShape
  <2> QED
    BY <2>2
<1>4. execute(request) = execute_deref(request)
  BY Zenon DEF execute
<1>5. ~(pointer > U32_MAX) /\ ~(target > U32_MAX) /\ ~(local > U32_MAX)
  BY <1>1, Zenon
<1> HIDE DEF pointer, local, target, frame, cellT, cellL, value, index, decided
<1>6. execute_deref(request)
        = IF field_encode(request.base) # request.cells[1].value THEN Fault("BAD_POINTER")
          ELSE IF request.opcode = "DEREF_CELL"
          THEN DerefCell(request, frame, target, local, addresses)
          ELSE IF WriteConflicts(frame, target, value) THEN Fault("WRITE_CONFLICT")
          ELSE Decided(request.pc + 1, request.fp, NewWrites(frame, target, value), <<>>,
                       addresses)
  <2>1. addresses = <<pointer, target, local>>
    BY DEF pointer, target, local
  <2>2. request.opcode # "DEREF_CELL" => ~(index >= INDEX_LIMIT)
    BY DEF index
  <2> QED
    BY <2>1, <2>2, <1>5, Zenon DEF execute_deref, frame, value, index, pointer, target, local
<1>7. /\ decided.request = request /\ decided.accesses = addresses
      /\ decided.accesses[2] = target /\ decided.accesses[3] = local
  <2>1. decided.request = request /\ decided.accesses = addresses
    BY ScratchFields, Zenon DEF decided
  <2> QED
    BY <1>1, <2>1, Zenon
<1>8. /\ Outcome(decided) = Decided(request.pc + 1, request.fp, <<>>, <<>>, addresses)
      /\ \A e : /\ Outcome([decided EXCEPT !.writes = e])
                     = Decided(request.pc + 1, request.fp, e, <<>>, addresses)
                /\ Outcome([decided EXCEPT !.deferred = e])
                     = Decided(request.pc + 1, request.fp, <<>>, e, addresses)
  BY ScratchUpdate, Zenon DEF decided
<1>9. cellT.present \in BOOLEAN /\ cellL.present \in BOOLEAN
  BY <1>3, CellType, Zenon
<1>10. Read(frame, target) = cellT.value /\ Read(frame, local) = cellL.value
  BY <1>2, <1>3, CellRead, Zenon
<1>11. \A v : /\ NewWrites(frame, target, v)
                   = IF cellT.present THEN <<>> ELSE WriteOf(target, v)
              /\ NewWrites(frame, local, v)
                   = IF cellL.present THEN <<>> ELSE WriteOf(local, v)
              /\ WriteConflicts(frame, target, v) <=> cellT.present /\ cellT.value # v
  BY <1>2, Zenon DEF NewWrites, WriteOf, WriteConflicts
<1>12. ValueStored(decided, value)
         = IF WriteConflicts(frame, target, value) THEN Fault("WRITE_CONFLICT")
           ELSE Decided(request.pc + 1, request.fp, NewWrites(frame, target, value), <<>>,
                        addresses)
  <2>1. ValueStored(decided, value)
          = IF cellT.present /\ cellT.value # value THEN Fault("WRITE_CONFLICT")
            ELSE Outcome(IF cellT.present THEN decided
                         ELSE [decided EXCEPT !.writes = WriteOf(target, value)])
    BY <1>7, Zenon DEF ValueStored, cellT
  <2>2. CASE cellT.present
    BY <2>1, <2>2, <1>8, <1>11, Zenon
  <2>3. CASE ~cellT.present
    BY <2>1, <2>3, <1>8, <1>11, Zenon
  <2> QED
    BY <2>2, <2>3
<1>13. Reconciled(decided) = DerefCell(request, frame, target, local, addresses)
  <2>1. Reconciled(decided)
          = IF cellT.present /\ cellL.present /\ cellT.value # cellL.value
            THEN Fault("DEREF_MISMATCH")
            ELSE Outcome(
                   IF cellT.present /\ ~cellL.present
                   THEN [decided EXCEPT !.writes = WriteOf(local, cellT.value)]
                   ELSE IF cellL.present /\ ~cellT.present
                   THEN [decided EXCEPT !.writes = WriteOf(target, cellL.value)]
                   ELSE IF ~cellL.present
                   THEN [decided EXCEPT !.deferred = <<[target |-> target, local |-> local]>>]
                   ELSE decided)
    BY <1>7, Zenon DEF Reconciled, cellT, cellL
  <2>2. DerefCell(request, frame, target, local, addresses)
          = IF cellT.present /\ cellL.present /\ cellT.value # cellL.value
            THEN Fault("DEREF_MISMATCH")
            ELSE IF cellT.present
            THEN Decided(request.pc + 1, request.fp, NewWrites(frame, local, cellT.value),
                         <<>>, addresses)
            ELSE IF cellL.present
            THEN Decided(request.pc + 1, request.fp, NewWrites(frame, target, cellL.value),
                         <<>>, addresses)
            ELSE Decided(request.pc + 1, request.fp, <<>>,
                         <<[target |-> target, local |-> local]>>, addresses)
    <3>1. INTERPRETER_COMPAT # FORWARD_ONLY
      BY DEF INTERPRETER_COMPAT, FORWARD_ONLY
    <3> QED
      BY <3>1, <1>2, <1>10, Zenon DEF DerefCell
  <2>3. CASE cellT.present /\ cellL.present
    BY <2>1, <2>2, <2>3, <1>8, <1>11, Zenon
  <2>4. CASE cellT.present /\ ~cellL.present
    BY <2>1, <2>2, <2>4, <1>8, <1>11, Zenon
  <2>5. CASE ~cellT.present /\ cellL.present
    BY <2>1, <2>2, <2>5, <1>8, <1>11, Zenon
  <2>6. CASE ~cellT.present /\ ~cellL.present
    BY <2>1, <2>2, <2>6, <1>8, <1>11, Zenon
  <2> QED
    BY <2>3, <2>4, <2>5, <2>6, <1>9
<1>14. PointerEncoded(decided, field_encode(request.base))
         = IF field_encode(request.base) # request.cells[1].value THEN Fault("BAD_POINTER")
           ELSE IF request.opcode = "DEREF_CELL" THEN Reconciled(decided)
           ELSE ValueStored(decided, value)
  BY <1>7, Zenon DEF PointerEncoded, value, index
<1> QED
  BY <1>4, <1>6, <1>12, <1>13, <1>14, Zenon DEF decided

\* A taken JUMP with everything but the field settled (_execute_jump).
LEMMA JumpTakenRule ==
  ASSUME NEW request, IsRequest(request), request.opcode = "JUMP",
         NEW addresses, addresses = Addresses(request.fp, request.offsets),
         ~Overflows(addresses), ~AliasInconsistent(addresses, request.cells),
         request.taken = (request.cells[1].value # Zero), request.taken
  PROVE  LET decided == Scratch(request, addresses)
             witness == request.proposed_inverse
         IN  /\ request.dest_pc >= INDEX_LIMIT \/ request.dest_fp >= INDEX_LIMIT =>
                   execute(request).status \in FaultStatus
             /\ ~(request.dest_pc >= INDEX_LIMIT \/ request.dest_fp >= INDEX_LIMIT) =>
                   execute(request)
                     = IF ~witness.present THEN Fault("BAD_INVERSE")
                       ELSE JumpVerified(decided, field_mul(request.cells[1].value,
                                                            witness.value))
<1> DEFINE frame   == Frame(addresses, request.cells)
           decided == Scratch(request, addresses)
           witness == request.proposed_inverse
           condition == request.cells[1].value
           destination == request.cells[2].value
           new_frame == request.cells[3].value
           targets == TargetFault(request, destination, new_frame)
           landed == Decided(request.dest_pc, request.dest_fp, <<>>, <<>>, addresses)
<1>1. /\ request.cells \in [1..3 -> Cell] /\ DOMAIN addresses = 1..3
  <2>1. request.opcode \in ScalarOpcodes \ {"SET_CONSTANT"}
    BY DEF ScalarOpcodes
  <2>2. request.offsets \in [1..3 -> Nat] /\ request.cells \in [1..3 -> Cell]
    BY <2>1, TripleShape
  <2> QED
    BY <2>2 DEF Addresses
<1>2. /\ Read(frame, addresses[1]) = condition
      /\ Read(frame, addresses[2]) = destination
      /\ Read(frame, addresses[3]) = new_frame
  <2>1. \A i \in 1..3 : request.cells[i] \in Cell
    BY <1>1
  <2>4. \A i \in DOMAIN addresses : frame[addresses[i]] = request.cells[i]
    BY ONLY ~AliasInconsistent(addresses, request.cells), FrameAt, Zenon DEF frame
  <2>2. \A i \in 1..3 : frame[addresses[i]] = request.cells[i]
    BY <1>1, <2>4
  <2> HIDE DEF frame
  <2>3. \A i \in 1..3 : Read(frame, addresses[i]) = request.cells[i].value
    <3>1. TAKE i \in 1..3
    <3>2. request.cells[i] \in Cell /\ frame[addresses[i]] = request.cells[i]
      BY <2>1, <2>2
    <3> QED
      BY <3>2, CellRead, Zenon
  <2> QED
    BY <2>3
<1>3. execute(request) = execute_jump(request)
  BY Zenon DEF execute
<1>4. request.taken = (condition # Zero) /\ (condition # Zero)
  OBVIOUS
<1> HIDE DEF frame, condition, destination, new_frame, targets, decided, witness, landed
<1>5. execute_jump(request)
        = IF ~witness.present \/ field_mul(condition, witness.value) # One
          THEN Fault("BAD_INVERSE")
          ELSE IF targets # "OK" THEN Fault(targets) ELSE landed
  BY <1>2, <1>4, Zenon DEF execute_jump, frame, targets, witness, landed
<1>6. CASE request.dest_pc >= INDEX_LIMIT \/ request.dest_fp >= INDEX_LIMIT
  <2>1. targets \in {"INDEX_RANGE", "BAD_POINTER"}
    BY <1>6, Zenon DEF TargetFault, targets
  <2>2. targets # "OK" /\ targets \in FaultStatus
    BY <2>1 DEF FaultStatus
  <2>3. execute(request) = Fault("BAD_INVERSE") \/ execute(request) = Fault(targets)
    BY <1>3, <1>5, <2>2, Zenon
  <2>4. \A s : Fault(s).status = s
    BY DEF Fault
  <2>5. "BAD_INVERSE" \in FaultStatus
    BY DEF FaultStatus
  <2> QED
    BY <1>6, <2>2, <2>3, <2>4, <2>5, Zenon
<1>7. CASE ~(request.dest_pc >= INDEX_LIMIT \/ request.dest_fp >= INDEX_LIMIT)
  <2>1. targets = IF field_encode(request.dest_pc) # destination
                     \/ field_encode(request.dest_fp) # new_frame
                  THEN "BAD_POINTER" ELSE "OK"
    BY <1>7, Zenon DEF TargetFault, targets
  <2>2. \A v : JumpVerified(decided, v)
                 = IF v # One THEN Fault("BAD_INVERSE")
                   ELSE IF \/ field_encode(request.dest_pc) # destination
                           \/ field_encode(request.dest_fp) # new_frame
                   THEN Fault("BAD_POINTER") ELSE landed
    <3>1. decided.request = request
      BY ScratchFields, Zenon DEF decided
    <3>2. Outcome([decided EXCEPT !.next_pc = request.dest_pc, !.next_fp = request.dest_fp])
            = landed
      BY DEF decided, Scratch, Outcome, Decided, landed
    <3> QED
      BY <3>1, <3>2, Zenon
      DEF JumpVerified, DestinationEncoded, FrameEncoded, destination, new_frame
  <2>3. "BAD_POINTER" # "OK"
    OBVIOUS
  <2>4. execute(request)
          = IF ~witness.present THEN Fault("BAD_INVERSE")
            ELSE JumpVerified(decided, field_mul(condition, witness.value))
    BY <2>1, <2>2, <2>3, <1>3, <1>5, Zenon
  <2> QED
    BY <1>7, <2>4, Zenon DEF decided, witness, condition
<1> QED
  BY <1>6, <1>7, Zenon DEF decided, witness, condition

\* A JUMP whose proposal is wrong, or that falls through.
LEMMA JumpOtherRule ==
  ASSUME NEW request, IsRequest(request), request.opcode = "JUMP",
         NEW addresses, addresses = Addresses(request.fp, request.offsets),
         ~Overflows(addresses), ~AliasInconsistent(addresses, request.cells)
  PROVE  LET decided == Scratch(request, addresses)
             witness == request.proposed_inverse
             taken   == request.cells[1].value # Zero
         IN  /\ request.taken # taken => execute(request) = Fault("BAD_BRANCH_PROPOSAL")
             /\ request.taken = taken /\ ~taken =>
                   execute(request)
                     = IF witness.present /\ witness.value # Zero THEN Fault("BAD_INVERSE")
                       ELSE IF request.dest_pc # 0 \/ request.dest_fp # 0
                       THEN Fault("BAD_BRANCH_PROPOSAL")
                       ELSE Outcome(decided)
<1> DEFINE frame   == Frame(addresses, request.cells)
           decided == Scratch(request, addresses)
           witness == request.proposed_inverse
           condition == request.cells[1].value
           taken == condition # Zero
<1>1. request.cells \in [1..3 -> Cell] /\ DOMAIN addresses = 1..3
  <2>1. request.opcode \in ScalarOpcodes \ {"SET_CONSTANT"}
    BY DEF ScalarOpcodes
  <2>2. request.offsets \in [1..3 -> Nat] /\ request.cells \in [1..3 -> Cell]
    BY <2>1, TripleShape
  <2> QED
    BY <2>2 DEF Addresses
<1>2. Read(frame, addresses[1]) = condition
  <2>1. 1 \in 1..3 /\ request.cells[1] \in Cell
    BY <1>1
  <2>3. \A i \in DOMAIN addresses : frame[addresses[i]] = request.cells[i]
    BY FrameAt, Zenon DEF frame
  <2>2. frame[addresses[1]] = request.cells[1]
    BY <1>1, <2>3
  <2> HIDE DEF frame
  <2> QED
    BY <2>1, <2>2, CellRead, Zenon
<1>3. execute(request) = execute_jump(request)
  BY Zenon DEF execute
<1>4. Outcome(decided) = Decided(request.pc + 1, request.fp, <<>>, <<>>, addresses)
  BY ScratchUpdate, Zenon
<1> HIDE DEF frame, condition, decided, witness
<1>5. ASSUME request.taken # taken
      PROVE  execute_jump(request) = Fault("BAD_BRANCH_PROPOSAL")
  BY <1>2, <1>5, Zenon DEF execute_jump, frame, condition
<1>6. ASSUME request.taken = taken, ~taken
      PROVE  execute_jump(request)
               = IF witness.present /\ witness.value # Zero THEN Fault("BAD_INVERSE")
                 ELSE IF request.dest_pc # 0 \/ request.dest_fp # 0
                 THEN Fault("BAD_BRANCH_PROPOSAL")
                 ELSE Decided(request.pc + 1, request.fp, <<>>, <<>>, addresses)
  BY <1>2, <1>6, Zenon DEF execute_jump, frame, condition, witness
<1> QED
  BY <1>3, <1>4, <1>5, <1>6, Zenon DEF condition, decided, witness

-----------------------------------------------------------------------------
(* What a step decides                                                     *)

\* The three ways a computation goes on: it is refused, a datapath is started
\* on what is left, or the result is offered.
Refuses(request) ==
    /\ \E status \in FaultStatus : Refuse(request, status)
    /\ Verdicts(request) = "FAULT"

\* A request that a datapath still works on, its decision outstanding.
Launches(request) ==
    /\ Silent /\ KeepStaged /\ KeepBlake /\ KeepCommitted
    /\ asked' = Asked(request, "open")
    /\ compute' # C_IDLE
    /\ scratch'.request = request
    /\ DatapathInv' /\ ScratchInv'

\* A request decided, its result staged.
Emits(request) ==
    \E decided \in Decisions :
        emit_result(decided) /\ decided.request = request
        /\ execute(request) = Outcome(decided)

\* The three things an edge can do with a request.
Settles(request) == Refuses(request) \/ Launches(request) \/ Emits(request)

\* The status of a fault, and of a decision.
LEMMA FaultFields ==
  /\ \A status : Fault(status).status = status
  /\ \A decided : Outcome(decided).status = "OK"
  /\ "OK" \notin FaultStatus
<1>1. \A status : Fault(status).status = status
  BY DEF Fault
<1>2. \A decided : Outcome(decided).status = "OK"
  BY DEF Outcome, Decided
<1>3. "OK" \notin FaultStatus
  BY DEF FaultStatus
<1> QED
  BY <1>1, <1>2, <1>3

\* The statuses the rules and the frontend fault with are fault statuses.
LEMMA FaultCodes ==
  {"U32_OVERFLOW", "ALIAS_INCONSISTENT", "WRITE_CONFLICT", "DEREF_MISMATCH",
   "BAD_POINTER", "BAD_INVERSE", "MUL_BACKSOLVE_ZERO", "BAD_BRANCH_PROPOSAL",
   "INDEX_RANGE", "BAD_SERVICE", "BAD_STATE", "UNSUPPORTED_IN_PROFILE",
   "RETIRE_MISMATCH", "BAD_PROFILE", "STATE_MISMATCH", "BAD_VERSION"}
    \subseteq FaultStatus
  BY DEF FaultStatus

\* The frontend refuses what the rules refuse.
LEMMA RefusalSettles ==
  ASSUME NEW request, NEW status \in FaultStatus, Refuse(request, status),
         NEW fault_status \in FaultStatus, execute(request) = Fault(fault_status)
  PROVE  Settles(request)
<1>1. Verdicts(request) = "FAULT"
  BY FaultFields, Zenon DEF Verdicts
<1> QED
  BY <1>1, Zenon DEF Settles, Refuses

\* The frontend offers what the rules decide.
LEMMA OfferSettles ==
  ASSUME NEW request, NEW decided \in Decisions, decided.request = request,
         emit_result(decided), execute(request) = Outcome(decided)
  PROVE  Settles(request)
  BY Zenon DEF Settles, Emits

\* What a request is decoded into is a decision.
LEMMA ScratchType ==
  ASSUME NEW request \in Requests, request.pc \in 0..(INDEX_LIMIT - 1),
         request.fp \in 0..(INDEX_LIMIT - 1), NEW accesses \in Seq(0..U32_MAX)
  PROVE  Scratch(request, accesses) \in Decisions
<1>1. request.pc + 1 \in 0..INDEX_LIMIT
  BY U32Assumption
<1>2. \A S : <<>> \in Seq(S)
  OBVIOUS
<1>3. /\ <<>> \in Seq([address : 0..U32_MAX, value : Word])
      /\ <<>> \in Seq([target : 0..U32_MAX, local : 0..U32_MAX])
  BY <1>2
<1> QED
  BY <1>1, <1>3 DEF Scratch, Decisions

\* The fields of a decision.
LEMMA DecisionType ==
  ASSUME NEW decided \in Decisions
  PROVE  /\ decided.request \in Requests
         /\ decided.accesses \in Seq(0..U32_MAX)
         /\ decided.next_pc \in 0..INDEX_LIMIT /\ decided.next_fp \in 0..(INDEX_LIMIT - 1)
         /\ decided.writes \in Seq([address : 0..U32_MAX, value : Word])
         /\ decided.deferred \in Seq([target : 0..U32_MAX, local : 0..U32_MAX])
  BY DEF Decisions

\* A decision keeps its type once its write has been decided.
LEMMA DecisionWrite ==
  ASSUME NEW decided \in Decisions, NEW address \in 0..U32_MAX, NEW value \in Word
  PROVE  /\ [decided EXCEPT !.writes = WriteOf(address, value)] \in Decisions
         /\ [decided EXCEPT !.writes = WriteOf(address, value)].request = decided.request
         /\ [decided EXCEPT !.writes = WriteOf(address, value)].accesses = decided.accesses
<1>1. \A S : \A x \in S : <<x>> \in Seq(S)
  OBVIOUS
<1>2. WriteOf(address, value) \in Seq([address : 0..U32_MAX, value : Word])
  BY <1>1 DEF WriteOf
<1> QED
  BY <1>2 DEF Decisions

\* And once its deferred equality has been.
LEMMA DecisionDefer ==
  ASSUME NEW decided \in Decisions, NEW target \in 0..U32_MAX, NEW local \in 0..U32_MAX
  PROVE  LET effect == <<[target |-> target, local |-> local]>> IN
         /\ [decided EXCEPT !.deferred = effect] \in Decisions
         /\ [decided EXCEPT !.deferred = effect].request = decided.request
<1> DEFINE effect == <<[target |-> target, local |-> local]>>
<1>1. \A S : \A x \in S : <<x>> \in Seq(S)
  OBVIOUS
<1>2. effect \in Seq([target : 0..U32_MAX, local : 0..U32_MAX])
  BY <1>1
<1> HIDE DEF effect
<1>3. /\ [decided EXCEPT !.deferred = effect] \in Decisions
      /\ [decided EXCEPT !.deferred = effect].request = decided.request
  BY <1>2 DEF Decisions
<1> QED
  BY <1>3 DEF effect

\* And once its target has been.
LEMMA DecisionJump ==
  ASSUME NEW decided \in Decisions, NEW pc \in 0..INDEX_LIMIT,
         NEW fp \in 0..(INDEX_LIMIT - 1)
  PROVE  /\ [decided EXCEPT !.next_pc = pc, !.next_fp = fp] \in Decisions
         /\ [decided EXCEPT !.next_pc = pc, !.next_fp = fp].request = decided.request
  BY DEF Decisions

\* Starting the stream ALU.
LEMMA AluLaunch ==
  ASSUME NEW operation \in {"SET", "XOR", "MUL"}, NEW left \in Word, NEW right \in Word,
         NEW next \in AluStates, NEW decided, StartAlu(operation, left, right, next, decided)
  PROVE  /\ Silent /\ KeepStaged /\ KeepBlake /\ KeepCommitted
         /\ asked' = Asked(decided.request, "open")
         /\ compute' = next /\ compute' # C_IDLE
         /\ scratch' = decided
         /\ alu'.operation = operation /\ alu'.a = left
         /\ alu_result' = IF operation = "SET" THEN left
                          ELSE IF operation = "XOR" THEN Xor(left, right)
                          ELSE field_mul(left, right)
         /\ DatapathInv'
<1>1. /\ Silent /\ KeepStaged /\ KeepBlake /\ KeepCommitted
      /\ asked' = Asked(decided.request, "open")
      /\ compute' = next /\ scratch' = decided
      /\ alu' = [phase |-> "start", operation |-> operation, a |-> left, b |-> right]
      /\ encoder' = EncoderIdle
  BY Zenon DEF StartAlu
<1>2. next \notin EncoderStates /\ next # C_IDLE
  BY DEF AluStates, EncoderStates, C_IDLE
<1>3. alu'.operation = operation /\ alu'.a = left /\ alu'.b = right /\ alu' \in AluRecord
  BY <1>1 DEF AluRecord
<1>4. DatapathInv'
  BY <1>1, <1>2, <1>3, Zenon DEF DatapathInv
<1>5. alu_result' = IF operation = "SET" THEN left
                    ELSE IF operation = "XOR" THEN Xor(left, right)
                    ELSE field_mul(left, right)
  BY <1>3, Zenon DEF alu_result
<1> QED
  BY <1>1, <1>2, <1>3, <1>4, <1>5, Zenon

\* Starting the encoder.
LEMMA EncoderLaunch ==
  ASSUME NEW index \in 0..(INDEX_LIMIT - 1), NEW next \in EncoderStates, NEW decided,
         StartEncoder(index, next, decided)
  PROVE  /\ Silent /\ KeepStaged /\ KeepBlake /\ KeepCommitted
         /\ asked' = Asked(decided.request, "open")
         /\ compute' = next /\ compute' # C_IDLE
         /\ scratch' = decided
         /\ encoder_result' = field_encode(index)
         /\ DatapathInv'
<1>1. /\ Silent /\ KeepStaged /\ KeepBlake /\ KeepCommitted
      /\ asked' = Asked(decided.request, "open")
      /\ compute' = next /\ scratch' = decided
      /\ encoder' = [phase |-> "start", index |-> index]
      /\ alu' = AluIdle
  BY Zenon DEF StartEncoder
<1>2. next \notin AluStates /\ next # C_IDLE
  BY DEF AluStates, EncoderStates, C_IDLE
<1>3. encoder'.index = index /\ encoder' \in EncoderRecord
  BY <1>1 DEF EncoderRecord
<1>4. DatapathInv'
  BY <1>1, <1>2, <1>3, Zenon DEF DatapathInv
<1>5. encoder_result' = field_encode(index)
  BY <1>3, Zenon DEF encoder_result
<1> QED
  BY <1>1, <1>2, <1>3, <1>4, <1>5, Zenon

\* An index in range is not wrapped by the encoder's index register.
LEMMA IndexInRange ==
  ASSUME NEW index \in Nat, ~(index >= INDEX_LIMIT)
  PROVE  index % INDEX_LIMIT = index /\ index \in 0..(INDEX_LIMIT - 1)
  BY U32Assumption

\* What is left to decide, by the datapath in use.
LEMMA RemainingNow ==
  ASSUME NEW decided
  PROVE  /\ compute = "C_SET" => Remaining(decided) = Outcome(decided)
         /\ compute = "C_FORWARD" => Remaining(decided) = Forwarded(decided, alu_result)
         /\ compute = "C_XOR_SOLVE" => Remaining(decided) = XorSolved(decided, alu_result)
         /\ compute = "C_VERIFY_INVERSE" => Remaining(decided) = InverseVerified(decided, alu_result)
         /\ compute = "C_SOLVE" => Remaining(decided) = MulSolved(decided, alu_result)
         /\ compute = "C_DEREF_POINTER" => Remaining(decided) = PointerEncoded(decided, encoder_result)
         /\ compute = "C_DEREF_VALUE" => Remaining(decided) = ValueStored(decided, encoder_result)
         /\ compute = "C_JUMP_INVERSE" => Remaining(decided) = JumpVerified(decided, alu_result)
         /\ compute = "C_JUMP_PC" => Remaining(decided) = DestinationEncoded(decided, encoder_result)
         /\ compute = "C_JUMP_FP" => Remaining(decided) = FrameEncoded(decided, encoder_result)
<1>1. compute = "C_SET" => Remaining(decided) = Outcome(decided)
  BY Zenon DEF Remaining
<1>2. compute = "C_FORWARD" => Remaining(decided) = Forwarded(decided, alu_result)
  BY Zenon DEF Remaining
<1>3. compute = "C_XOR_SOLVE" => Remaining(decided) = XorSolved(decided, alu_result)
  BY Zenon DEF Remaining
<1>4. compute = "C_VERIFY_INVERSE" => Remaining(decided) = InverseVerified(decided, alu_result)
  BY Zenon DEF Remaining
<1>5. compute = "C_SOLVE" => Remaining(decided) = MulSolved(decided, alu_result)
  BY Zenon DEF Remaining
<1>6. compute = "C_DEREF_POINTER" => Remaining(decided) = PointerEncoded(decided, encoder_result)
  BY Zenon DEF Remaining
<1>7. compute = "C_DEREF_VALUE" => Remaining(decided) = ValueStored(decided, encoder_result)
  BY Zenon DEF Remaining
<1>8. compute = "C_JUMP_INVERSE" => Remaining(decided) = JumpVerified(decided, alu_result)
  BY Zenon DEF Remaining
<1>9. compute = "C_JUMP_PC" => Remaining(decided) = DestinationEncoded(decided, encoder_result)
  BY Zenon DEF Remaining
<1>10. compute = "C_JUMP_FP" => Remaining(decided) = FrameEncoded(decided, encoder_result)
  BY Zenon DEF Remaining
<1> QED
  BY <1>1, <1>2, <1>3, <1>4, <1>5, <1>6, <1>7, <1>8, <1>9, <1>10, Zenon

\* And once the step has been taken.
LEMMA RemainingNext ==
  ASSUME NEW decided
  PROVE  /\ compute' = "C_SET" => Remaining(decided)' = Outcome(decided)
         /\ compute' = "C_FORWARD" => Remaining(decided)' = Forwarded(decided, alu_result')
         /\ compute' = "C_XOR_SOLVE" => Remaining(decided)' = XorSolved(decided, alu_result')
         /\ compute' = "C_VERIFY_INVERSE" => Remaining(decided)' = InverseVerified(decided, alu_result')
         /\ compute' = "C_SOLVE" => Remaining(decided)' = MulSolved(decided, alu_result')
         /\ compute' = "C_DEREF_POINTER" => Remaining(decided)' = PointerEncoded(decided, encoder_result')
         /\ compute' = "C_DEREF_VALUE" => Remaining(decided)' = ValueStored(decided, encoder_result')
         /\ compute' = "C_JUMP_INVERSE" => Remaining(decided)' = JumpVerified(decided, alu_result')
         /\ compute' = "C_JUMP_PC" => Remaining(decided)' = DestinationEncoded(decided, encoder_result')
         /\ compute' = "C_JUMP_FP" => Remaining(decided)' = FrameEncoded(decided, encoder_result')
<1>1. compute' = "C_SET" => Remaining(decided)' = Outcome(decided)
  BY Zenon DEF Remaining
<1>2. compute' = "C_FORWARD" => Remaining(decided)' = Forwarded(decided, alu_result')
  BY Zenon DEF Remaining
<1>3. compute' = "C_XOR_SOLVE" => Remaining(decided)' = XorSolved(decided, alu_result')
  BY Zenon DEF Remaining
<1>4. compute' = "C_VERIFY_INVERSE" => Remaining(decided)' = InverseVerified(decided, alu_result')
  BY Zenon DEF Remaining
<1>5. compute' = "C_SOLVE" => Remaining(decided)' = MulSolved(decided, alu_result')
  BY Zenon DEF Remaining
<1>6. compute' = "C_DEREF_POINTER" => Remaining(decided)' = PointerEncoded(decided, encoder_result')
  BY Zenon DEF Remaining
<1>7. compute' = "C_DEREF_VALUE" => Remaining(decided)' = ValueStored(decided, encoder_result')
  BY Zenon DEF Remaining
<1>8. compute' = "C_JUMP_INVERSE" => Remaining(decided)' = JumpVerified(decided, alu_result')
  BY Zenon DEF Remaining
<1>9. compute' = "C_JUMP_PC" => Remaining(decided)' = DestinationEncoded(decided, encoder_result')
  BY Zenon DEF Remaining
<1>10. compute' = "C_JUMP_FP" => Remaining(decided)' = FrameEncoded(decided, encoder_result')
  BY Zenon DEF Remaining
<1> QED
  BY <1>1, <1>2, <1>3, <1>4, <1>5, <1>6, <1>7, <1>8, <1>9, <1>10, Zenon

\* The invariant of a computation that has just been started.
LEMMA LaunchSettles ==
  ASSUME NEW request, NEW decided \in Decisions, decided.request = request,
         Silent, KeepStaged, KeepBlake, KeepCommitted,
         asked' = Asked(request, "open"), compute' # C_IDLE, scratch' = decided,
         DatapathInv',
         request.opcode \in ScalarOpcodes, request.profile = INTERPRETER_COMPAT,
         execute(request) = Remaining(decided)',
         compute' = "C_SET" => alu'.operation = "SET" /\ alu'.a = request.constant,
         compute' \in {"C_FORWARD", "C_XOR_SOLVE", "C_VERIFY_INVERSE", "C_SOLVE"} =>
            request.opcode \in {"XOR", "MUL_NATIVE"} /\ Len(decided.accesses) = 3,
         compute' = "C_XOR_SOLVE" => request.opcode = "XOR",
         compute' \in {"C_VERIFY_INVERSE", "C_SOLVE"} => request.opcode = "MUL_NATIVE",
         compute' \in {"C_DEREF_POINTER", "C_DEREF_VALUE"} =>
            /\ request.opcode \in {"DEREF_CELL", "DEREF_PC", "DEREF_FP"}
            /\ Len(decided.accesses) = 3,
         compute' = "C_DEREF_POINTER" /\ request.opcode # "DEREF_CELL" =>
            DerefIndex(request) < INDEX_LIMIT,
         compute' \in {"C_JUMP_INVERSE", "C_JUMP_PC", "C_JUMP_FP"} =>
            /\ request.opcode = "JUMP"
            /\ request.dest_pc < INDEX_LIMIT
            /\ request.dest_fp < INDEX_LIMIT
  PROVE  Settles(request)
<1>1. Remaining(scratch)' = Remaining(decided)'
  BY Zenon DEF Remaining
<1>2. execute(scratch'.request) = Remaining(scratch)'
  BY <1>1, Zenon
<1>3. ScratchInv'
  BY <1>2, Zenon DEF ScratchInv
<1>4. Launches(request)
  BY <1>3, Zenon DEF Launches
<1> QED
  BY <1>4, Zenon DEF Settles

\* The frontend decodes SET_CONSTANT as the rules do.
LEMMA SetDecodes ==
  ASSUME NEW request, Placed(request), request.opcode = "SET_CONSTANT", DecodeSet(request)
  PROVE  Settles(request)
<1> DEFINE address == Add32(request.fp, request.offsets[1])
           held    == request.cells[1]
           decided == Scratch(request, <<address>>)
           full    == IF held.present THEN decided
                      ELSE [decided EXCEPT !.writes = WriteOf(address, request.constant)]
<1>1. /\ request \in Requests /\ IsRequest(request)
      /\ request.fp \in Nat /\ request.offsets[1] \in Nat /\ request.cells[1] \in Cell
      /\ request.constant \in Word
      /\ request.opcode \in ScalarOpcodes
  <2>1. request \in Requests /\ IsRequest(request)
    BY RequestAssumption DEF Placed
  <2>2. request.offsets \in [1..1 -> Nat] /\ request.cells \in [1..1 -> Cell]
    BY <2>1, SingleShape
  <2>3. request.fp \in Nat /\ request.constant \in Word
    BY <2>1, Zenon DEF IsRequest
  <2>4. request.opcode \in ScalarOpcodes
    BY DEF ScalarOpcodes
  <2> QED
    BY <2>1, <2>2, <2>3, <2>4
<1>2. CASE OverflowsBy(request.fp, request.offsets[1])
  <2>1. Refuse(request, "U32_OVERFLOW")
    BY <1>2, Zenon DEF DecodeSet
  <2>2. request.fp + request.offsets[1] > U32_MAX
    BY <1>1, <1>2, AddressSum
  <2>3. execute(request) = Fault("U32_OVERFLOW")
    BY <2>2, Zenon DEF execute, execute_set
  <2>4. "U32_OVERFLOW" \in FaultStatus
    BY FaultCodes
  <2> QED
    BY <2>1, <2>3, <2>4, RefusalSettles
<1>3. CASE ~OverflowsBy(request.fp, request.offsets[1])
  <2>1. /\ address = request.fp + request.offsets[1] /\ address \in 0..U32_MAX
        /\ ~(address > U32_MAX)
    BY <1>1, <1>3, AddressSum, U32Assumption
  <2> HIDE DEF address
  <2>2. execute(request)
          = IF held.present /\ held.value # request.constant THEN Fault("WRITE_CONFLICT")
            ELSE Outcome(full)
    BY <1>1, <2>1, SetRule
  <2>3. CASE held.present /\ held.value # request.constant
    <3>1. Refuse(request, "WRITE_CONFLICT")
      BY <1>3, <2>3, Zenon DEF DecodeSet, address
    <3>2. "WRITE_CONFLICT" \in FaultStatus
      BY FaultCodes
    <3> QED
      BY <2>2, <2>3, <3>1, <3>2, RefusalSettles
  <2>4. CASE ~(held.present /\ held.value # request.constant)
    <3>1. StartAlu("SET", request.constant, Zero, "C_SET", full)
      BY <1>3, <2>4, Zenon DEF DecodeSet, address
    <3>2. full \in Decisions /\ full.request = request
      <4>1. <<address>> \in Seq(0..U32_MAX)
        BY <2>1
      <4>2. decided \in Decisions /\ decided.request = request
        BY <4>1, <1>1, ScratchType, ScratchFields DEF Placed
      <4> HIDE DEF decided
      <4>3. /\ [decided EXCEPT !.writes = WriteOf(address, request.constant)] \in Decisions
            /\ [decided EXCEPT !.writes = WriteOf(address, request.constant)].request = request
        <5>1. decided \in Decisions /\ address \in 0..U32_MAX /\ request.constant \in Word
          BY <4>2, <2>1, <1>1
        <5>2. /\ [decided EXCEPT !.writes = WriteOf(address, request.constant)] \in Decisions
              /\ [decided EXCEPT !.writes = WriteOf(address, request.constant)].request
                   = decided.request
          BY ONLY <5>1, DecisionWrite, Zenon
        <5> QED
          BY <5>2, <4>2
      <4> QED
        BY <4>2, <4>3, Zenon
    <3> HIDE DEF full
    <3>3. "C_SET" \in AluStates /\ Zero \in Word /\ "SET" \in {"SET", "XOR", "MUL"}
      BY DEF AluStates, Zero, Word
    <3>4. /\ Silent /\ KeepStaged /\ KeepBlake /\ KeepCommitted
          /\ asked' = Asked(request, "open")
          /\ compute' = "C_SET" /\ compute' # C_IDLE
          /\ scratch' = full
          /\ alu'.operation = "SET" /\ alu'.a = request.constant
          /\ DatapathInv'
      BY <3>1, <3>2, <3>3, <1>1, AluLaunch
    <3>5. execute(request) = Remaining(full)'
      BY <2>2, <2>4, <3>4, RemainingNext, Zenon
    <3> QED
      BY <1>1, <3>2, <3>4, <3>5, LaunchSettles, Zenon DEF Placed
  <2> QED
    BY <2>3, <2>4
<1> QED
  BY <1>2, <1>3

\* The three cells of an instruction, seen by the frontend and by the rules.
LEMMA TripleDecodes ==
  ASSUME NEW request, Placed(request),
         request.opcode \in {"XOR", "MUL_NATIVE", "JUMP"}
  PROVE  LET wrapped == [i \in 1..3 |-> Add32(request.fp, request.offsets[i])]
             plain   == Addresses(request.fp, request.offsets)
         IN
         /\ request \in Requests /\ IsRequest(request) /\ request.opcode \in ScalarOpcodes
         /\ request.cells \in [1..3 -> Cell]
         /\ (\E i \in 1..3 : OverflowsBy(request.fp, request.offsets[i])) <=> Overflows(plain)
         /\ ~Overflows(plain) =>
               /\ wrapped = plain
               /\ wrapped \in Seq(0..U32_MAX) /\ Len(wrapped) = 3
               /\ CellAliasInconsistent(wrapped, request.cells)
                    <=> AliasInconsistent(plain, request.cells)
               /\ Scratch(request, plain) \in Decisions
               /\ Scratch(request, plain).request = request
               /\ Scratch(request, plain).accesses = plain
<1> DEFINE wrapped == [i \in 1..3 |-> Add32(request.fp, request.offsets[i])]
           plain   == Addresses(request.fp, request.offsets)
<1>1. request \in Requests /\ IsRequest(request) /\ request.opcode \in ScalarOpcodes
      /\ request.opcode # "SET_CONSTANT"
  BY RequestAssumption DEF Placed, ScalarOpcodes
<1>2. request.offsets \in [1..3 -> Nat] /\ request.cells \in [1..3 -> Cell]
  BY <1>1, TripleShape
<1>3. request.fp \in Nat
  BY <1>1, Zenon DEF IsRequest
<1>4. /\ (\E i \in 1..3 : OverflowsBy(request.fp, request.offsets[i])) <=> Overflows(plain)
      /\ ~Overflows(plain) =>
            /\ wrapped = plain
            /\ wrapped \in Seq(0..U32_MAX) /\ Len(wrapped) = 3
  BY <1>2, <1>3, AddressTriple, Zenon
<1>5. ASSUME ~Overflows(plain)
      PROVE  /\ CellAliasInconsistent(wrapped, request.cells)
                   <=> AliasInconsistent(plain, request.cells)
             /\ Scratch(request, plain) \in Decisions
             /\ Scratch(request, plain).request = request
             /\ Scratch(request, plain).accesses = plain
  <2>1. DOMAIN wrapped = 1..3 /\ 3 \in Nat
    OBVIOUS
  <2>2. CellAliasInconsistent(wrapped, request.cells)
          <=> AliasInconsistent(wrapped, request.cells)
    BY ONLY <2>1, AliasCheck
  <2>3. wrapped = plain /\ plain \in Seq(0..U32_MAX)
    BY <1>4, <1>5, Zenon
  <2>4. Scratch(request, plain) \in Decisions
    BY <1>1, <2>3, ScratchType DEF Placed
  <2> QED
    BY <2>2, <2>3, <2>4, ScratchFields, Zenon
<1> QED
  BY <1>1, <1>2, <1>4, <1>5, Zenon

\* The frontend decodes XOR and MUL_NATIVE as the rules do.
LEMMA BinaryDecodes ==
  ASSUME NEW request, Placed(request), request.opcode \in {"XOR", "MUL_NATIVE"},
         DecodeBinary(request)
  PROVE  Settles(request)
<1> DEFINE wrapped == [i \in 1..3 |-> Add32(request.fp, request.offsets[i])]
           plain   == Addresses(request.fp, request.offsets)
           decided == Scratch(request, plain)
           a == request.cells[1]
           b == request.cells[2]
           c == request.cells[3]
           known   == KnownOf(request)
           witness == request.proposed_inverse
           operation == IF request.opcode = "XOR" THEN "XOR" ELSE "MUL"
<1>1. /\ request \in Requests /\ IsRequest(request) /\ request.opcode \in ScalarOpcodes
      /\ request.cells \in [1..3 -> Cell]
      /\ (\E i \in 1..3 : OverflowsBy(request.fp, request.offsets[i])) <=> Overflows(plain)
      /\ ~Overflows(plain) =>
            /\ wrapped = plain
            /\ wrapped \in Seq(0..U32_MAX) /\ Len(wrapped) = 3
            /\ CellAliasInconsistent(wrapped, request.cells)
                 <=> AliasInconsistent(plain, request.cells)
            /\ decided \in Decisions /\ decided.request = request
            /\ decided.accesses = plain
  <2>1. request.opcode \in {"XOR", "MUL_NATIVE", "JUMP"}
    OBVIOUS
  <2> QED
    BY <2>1, TripleDecodes, Zenon
<1>2. request.profile = INTERPRETER_COMPAT
  BY DEF Placed
<1>3. /\ a \in Cell /\ b \in Cell /\ c \in Cell
      /\ a.value \in Word /\ b.value \in Word /\ c.value \in Word /\ known \in Word
  <2>1. a \in Cell /\ b \in Cell /\ c \in Cell
    BY <1>1
  <2> HIDE DEF a, b, c
  <2>2. a.value \in Word /\ b.value \in Word /\ c.value \in Word
    BY <2>1, CellType, Zenon
  <2>3. known = IF a.present THEN a.value ELSE b.value
    BY Zenon DEF KnownOf, a, b
  <2> QED
    BY <2>1, <2>2, <2>3, Zenon
<1>4. request.opcode = "MUL_NATIVE" => witness \in Cell /\ witness.value \in Word
  <2>1. request.opcode = "MUL_NATIVE" => witness \in Cell
    BY <1>1, Zenon DEF IsRequest
  <2> QED
    BY <2>1, CellType, Zenon
<1> HIDE DEF wrapped, plain, decided, witness
<1>5. CASE Overflows(plain)
  <2>1. Refuse(request, "U32_OVERFLOW")
    BY <1>1, <1>5, Zenon DEF DecodeBinary
  <2>2. execute(request) = Fault("U32_OVERFLOW")
    BY <1>5, Zenon DEF execute, execute_binary, plain
  <2>3. "U32_OVERFLOW" \in FaultStatus
    BY FaultCodes
  <2> QED
    BY <2>1, <2>2, <2>3, RefusalSettles
<1>6. CASE ~Overflows(plain) /\ AliasInconsistent(plain, request.cells)
  <2>1. Refuse(request, "ALIAS_INCONSISTENT")
    BY <1>1, <1>6, Zenon DEF DecodeBinary, wrapped
  <2>2. execute(request) = Fault("ALIAS_INCONSISTENT")
    BY <1>6, Zenon DEF execute, execute_binary, plain
  <2>3. "ALIAS_INCONSISTENT" \in FaultStatus
    BY FaultCodes
  <2> QED
    BY <2>1, <2>2, <2>3, RefusalSettles
<1>7. CASE ~Overflows(plain) /\ ~AliasInconsistent(plain, request.cells)
  <2> DEFINE solves == c.present /\ a.present # b.present
  <2>1. execute(request) =
          IF ~solves
          THEN Forwarded(decided, Combine(request.opcode, a.value, b.value))
          ELSE IF request.opcode = "XOR"
          THEN XorSolved(decided, Xor(c.value, known))
          ELSE IF known = Zero THEN Fault("MUL_BACKSOLVE_ZERO")
          ELSE IF ~witness.present THEN Fault("BAD_INVERSE")
          ELSE InverseVerified(decided, field_mul(known, witness.value))
    BY <1>1, <1>2, <1>7, BinaryRule, Zenon DEF plain, decided, witness
  <2>2. /\ ~(\E i \in 1..3 : OverflowsBy(request.fp, request.offsets[i]))
        /\ ~CellAliasInconsistent(wrapped, request.cells)
        /\ Scratch(request, wrapped) = decided
        /\ decided \in Decisions /\ decided.request = request /\ Len(decided.accesses) = 3
    BY <1>1, <1>7, Zenon DEF decided
  <2>3. KnownOf(request) = IF a.present THEN a.value ELSE b.value
    BY Zenon DEF KnownOf
  <2>4. {"C_FORWARD", "C_XOR_SOLVE", "C_VERIFY_INVERSE"} \subseteq AluStates
    BY DEF AluStates
  <2> HIDE DEF a, b, c, known
  <2>10. solves /\ request.opcode # "XOR" =>
           IF known = Zero THEN Refuse(request, "MUL_BACKSOLVE_ZERO")
           ELSE IF ~witness.present THEN Refuse(request, "BAD_INVERSE")
           ELSE StartAlu("MUL", known, witness.value, "C_VERIFY_INVERSE", decided)
    <3>1. known = IF a.present THEN a.value ELSE b.value
      BY <2>3, Zenon DEF known, a, b
    <3>2. ASSUME solves, request.opcode # "XOR"
          PROVE  IF (IF a.present THEN a.value ELSE b.value) = Zero
                 THEN Refuse(request, "MUL_BACKSOLVE_ZERO")
                 ELSE IF ~witness.present THEN Refuse(request, "BAD_INVERSE")
                 ELSE StartAlu("MUL", IF a.present THEN a.value ELSE b.value,
                               witness.value, "C_VERIFY_INVERSE", Scratch(request, wrapped))
      BY <3>2, <2>2, Zenon DEF DecodeBinary, wrapped, a, b, c, witness
    <3> QED
      BY <3>1, <3>2, <2>2
  <2>5. CASE ~solves
    <3>1. StartAlu(operation, a.value, b.value, "C_FORWARD", decided)
      BY <2>2, <2>5, Zenon DEF DecodeBinary, wrapped, a, b, c
    <3>2. operation \in {"SET", "XOR", "MUL"} /\ operation # "SET"
          /\ (operation = "XOR") = (request.opcode = "XOR")
      OBVIOUS
    <3> HIDE DEF operation
    <3>3. /\ Silent /\ KeepStaged /\ KeepBlake /\ KeepCommitted
          /\ asked' = Asked(request, "open")
          /\ compute' = "C_FORWARD" /\ compute' # C_IDLE
          /\ scratch' = decided
          /\ alu_result' = IF operation = "SET" THEN a.value
                           ELSE IF operation = "XOR" THEN Xor(a.value, b.value)
                           ELSE field_mul(a.value, b.value)
          /\ DatapathInv'
      BY <3>1, <3>2, <2>2, <2>4, <1>3, AluLaunch
    <3>4. alu_result' = Combine(request.opcode, a.value, b.value)
      BY <3>2, <3>3, Zenon DEF Combine
    <3>5. execute(request) = Remaining(decided)'
      BY <2>1, <2>5, <3>3, <3>4, RemainingNext, Zenon
    <3> QED
      BY <1>1, <1>2, <2>2, <3>3, <3>5, LaunchSettles, Zenon
  <2>6. CASE solves /\ request.opcode = "XOR"
    <3>1. StartAlu("XOR", c.value, known, "C_XOR_SOLVE", decided)
      BY <2>2, <2>3, <2>6, Zenon DEF DecodeBinary, wrapped, a, b, c, known
    <3>2. "XOR" \in {"SET", "XOR", "MUL"} /\ "XOR" # "SET"
      OBVIOUS
    <3>3. /\ Silent /\ KeepStaged /\ KeepBlake /\ KeepCommitted
          /\ asked' = Asked(request, "open")
          /\ compute' = "C_XOR_SOLVE" /\ compute' # C_IDLE
          /\ scratch' = decided
          /\ alu_result' = Xor(c.value, known)
          /\ DatapathInv'
      BY <3>1, <3>2, <2>2, <2>4, <1>3, AluLaunch
    <3>5. execute(request) = Remaining(decided)'
      BY <2>1, <2>6, <3>3, RemainingNext, Zenon
    <3> QED
      BY <1>1, <1>2, <2>2, <2>6, <3>3, <3>5, LaunchSettles, Zenon
  <2>7. CASE solves /\ request.opcode # "XOR" /\ known = Zero
    <3>1. Refuse(request, "MUL_BACKSOLVE_ZERO")
      BY <2>7, <2>10, Zenon
    <3>2. execute(request) = Fault("MUL_BACKSOLVE_ZERO")
      BY <2>1, <2>7, Zenon
    <3>3. "MUL_BACKSOLVE_ZERO" \in FaultStatus
      BY FaultCodes
    <3> QED
      BY <3>1, <3>2, <3>3, RefusalSettles
  <2>8. CASE solves /\ request.opcode # "XOR" /\ known # Zero /\ ~witness.present
    <3>1. Refuse(request, "BAD_INVERSE")
      BY <2>8, <2>10, Zenon
    <3>2. execute(request) = Fault("BAD_INVERSE")
      BY <2>1, <2>8, Zenon
    <3>3. "BAD_INVERSE" \in FaultStatus
      BY FaultCodes
    <3> QED
      BY <3>1, <3>2, <3>3, RefusalSettles
  <2>9. CASE solves /\ request.opcode # "XOR" /\ known # Zero /\ witness.present
    <3>1. StartAlu("MUL", known, witness.value, "C_VERIFY_INVERSE", decided)
      BY <2>9, <2>10, Zenon
    <3>2. "MUL" \in {"SET", "XOR", "MUL"} /\ "MUL" # "SET" /\ "MUL" # "XOR"
          /\ request.opcode = "MUL_NATIVE" /\ witness.value \in Word
      BY <2>9, <1>4
    <3>3. /\ Silent /\ KeepStaged /\ KeepBlake /\ KeepCommitted
          /\ asked' = Asked(request, "open")
          /\ compute' = "C_VERIFY_INVERSE" /\ compute' # C_IDLE
          /\ scratch' = decided
          /\ alu_result' = field_mul(known, witness.value)
          /\ DatapathInv'
      BY <3>1, <3>2, <2>2, <2>4, <1>3, AluLaunch
    <3>5. execute(request) = Remaining(decided)'
      BY <2>1, <2>9, <3>3, RemainingNext, Zenon
    <3> QED
      BY <1>1, <1>2, <2>2, <3>2, <3>3, <3>5, LaunchSettles, Zenon
  <2> QED
    BY <2>5, <2>6, <2>7, <2>8, <2>9
<1> QED
  BY <1>5, <1>6, <1>7

\* The frontend decodes JUMP as the rules do.
LEMMA JumpDecodes ==
  ASSUME NEW request, Placed(request), request.opcode = "JUMP", DecodeJump(request)
  PROVE  Settles(request)
<1> DEFINE wrapped == [i \in 1..3 |-> Add32(request.fp, request.offsets[i])]
           plain   == Addresses(request.fp, request.offsets)
           decided == Scratch(request, plain)
           condition == request.cells[1].value
           witness == request.proposed_inverse
           taken   == condition # Zero
           outside == request.dest_pc >= INDEX_LIMIT \/ request.dest_fp >= INDEX_LIMIT
<1>1. /\ request \in Requests /\ IsRequest(request) /\ request.opcode \in ScalarOpcodes
      /\ request.cells \in [1..3 -> Cell]
      /\ (\E i \in 1..3 : OverflowsBy(request.fp, request.offsets[i])) <=> Overflows(plain)
      /\ ~Overflows(plain) =>
            /\ wrapped = plain
            /\ wrapped \in Seq(0..U32_MAX) /\ Len(wrapped) = 3
            /\ CellAliasInconsistent(wrapped, request.cells)
                 <=> AliasInconsistent(plain, request.cells)
            /\ decided \in Decisions /\ decided.request = request
            /\ decided.accesses = plain
  <2>1. request.opcode \in {"XOR", "MUL_NATIVE", "JUMP"}
    OBVIOUS
  <2> QED
    BY <2>1, TripleDecodes, Zenon
<1>2. /\ request.profile = INTERPRETER_COMPAT
      /\ request.dest_pc \in Nat /\ request.dest_fp \in Nat /\ request.taken \in BOOLEAN
      /\ witness \in Cell
  <2>1. request.dest_pc \in Nat /\ request.dest_fp \in Nat /\ request.taken \in BOOLEAN
        /\ witness \in Cell
    BY <1>1, Zenon DEF IsRequest
  <2> QED
    BY <2>1 DEF Placed
<1>3. condition \in Word /\ witness.value \in Word
  <2>1. request.cells[1] \in Cell
    BY <1>1
  <2> QED
    BY <2>1, <1>2, CellType, Zenon
<1> HIDE DEF wrapped, plain, decided, witness, condition
<1>4. CASE Overflows(plain)
  <2>1. Refuse(request, "U32_OVERFLOW")
    BY <1>1, <1>4, Zenon DEF DecodeJump
  <2>2. execute(request) = Fault("U32_OVERFLOW")
    BY <1>4, Zenon DEF execute, execute_jump, plain
  <2>3. "U32_OVERFLOW" \in FaultStatus
    BY FaultCodes
  <2> QED
    BY <2>1, <2>2, <2>3, RefusalSettles
<1>5. CASE ~Overflows(plain) /\ AliasInconsistent(plain, request.cells)
  <2>1. Refuse(request, "ALIAS_INCONSISTENT")
    BY <1>1, <1>5, Zenon DEF DecodeJump, wrapped
  <2>2. execute(request) = Fault("ALIAS_INCONSISTENT")
    BY <1>5, Zenon DEF execute, execute_jump, plain
  <2>3. "ALIAS_INCONSISTENT" \in FaultStatus
    BY FaultCodes
  <2> QED
    BY <2>1, <2>2, <2>3, RefusalSettles
<1>6. ASSUME ~Overflows(plain), ~AliasInconsistent(plain, request.cells)
      PROVE  Settles(request)
  <2>1. /\ ~(\E i \in 1..3 : OverflowsBy(request.fp, request.offsets[i]))
        /\ ~CellAliasInconsistent(wrapped, request.cells)
        /\ Scratch(request, wrapped) = decided
        /\ decided \in Decisions /\ decided.request = request
    BY <1>1, <1>6, Zenon DEF decided
  <2>2. /\ request.taken # taken => execute(request) = Fault("BAD_BRANCH_PROPOSAL")
        /\ request.taken = taken /\ ~taken =>
              execute(request)
                = IF witness.present /\ witness.value # Zero THEN Fault("BAD_INVERSE")
                  ELSE IF request.dest_pc # 0 \/ request.dest_fp # 0
                  THEN Fault("BAD_BRANCH_PROPOSAL")
                  ELSE Outcome(decided)
    BY <1>1, <1>6, JumpOtherRule, Zenon DEF decided, witness, condition, plain
  <2>3. {"BAD_BRANCH_PROPOSAL", "BAD_INVERSE", "INDEX_RANGE"} \subseteq FaultStatus
    BY FaultCodes
  <2>4. CASE request.taken # taken
    <3>1. Refuse(request, "BAD_BRANCH_PROPOSAL")
      BY <2>1, <2>4, Zenon DEF DecodeJump, wrapped, condition
    <3> QED
      BY <3>1, <2>2, <2>3, <2>4, RefusalSettles
  <2>5. CASE request.taken = taken /\ ~taken
    <3>1. CASE witness.present /\ witness.value # Zero
      <4>1. Refuse(request, "BAD_INVERSE")
        BY <2>1, <2>5, <3>1, Zenon DEF DecodeJump, wrapped, condition, witness
      <4>2. execute(request) = Fault("BAD_INVERSE")
        BY <2>2, <2>5, <3>1, Zenon
      <4> QED
        BY <4>1, <4>2, <2>3, RefusalSettles
    <3>2. CASE ~(witness.present /\ witness.value # Zero)
               /\ (request.dest_pc # 0 \/ request.dest_fp # 0)
      <4>1. Refuse(request, "BAD_BRANCH_PROPOSAL")
        BY <2>1, <2>5, <3>2, Zenon DEF DecodeJump, wrapped, condition, witness
      <4>2. execute(request) = Fault("BAD_BRANCH_PROPOSAL")
        BY <2>2, <2>5, <3>2, Zenon
      <4> QED
        BY <4>1, <4>2, <2>3, RefusalSettles
    <3>3. CASE ~(witness.present /\ witness.value # Zero)
               /\ ~(request.dest_pc # 0 \/ request.dest_fp # 0)
      <4>1. emit_result(decided)
        BY <2>1, <2>5, <3>3, Zenon DEF DecodeJump, wrapped, condition, witness
      <4>2. execute(request) = Outcome(decided)
        BY <2>2, <2>5, <3>3, Zenon
      <4> QED
        BY <4>1, <4>2, <2>1, OfferSettles
    <3> QED
      BY <3>1, <3>2, <3>3
  <2>6. CASE request.taken = taken /\ taken
    <3>1. /\ outside => execute(request).status \in FaultStatus
          /\ ~outside => execute(request)
               = IF ~witness.present THEN Fault("BAD_INVERSE")
                 ELSE JumpVerified(decided, field_mul(condition, witness.value))
      BY <1>1, <1>6, <2>6, JumpTakenRule, Zenon DEF decided, witness, condition, plain
    <3>2. CASE outside
      <4>1. Refuse(request, "INDEX_RANGE")
        BY <2>1, <2>6, <3>2, Zenon DEF DecodeJump, wrapped, condition
      <4>2. Verdicts(request) = "FAULT"
        BY <3>1, <3>2, Zenon DEF Verdicts
      <4> QED
        BY <4>1, <4>2, <2>3, Zenon DEF Settles, Refuses
    <3>3. CASE ~outside /\ ~witness.present
      <4>1. Refuse(request, "BAD_INVERSE")
        BY <2>1, <2>6, <3>3, Zenon DEF DecodeJump, wrapped, condition, witness
      <4>2. execute(request) = Fault("BAD_INVERSE")
        BY <3>1, <3>3, Zenon
      <4> QED
        BY <4>1, <4>2, <2>3, RefusalSettles
    <3>4. CASE ~outside /\ witness.present
      <4>1. StartAlu("MUL", condition, witness.value, "C_JUMP_INVERSE", decided)
        BY <2>1, <2>6, <3>4, Zenon DEF DecodeJump, wrapped, condition, witness
      <4>2. "MUL" \in {"SET", "XOR", "MUL"} /\ "MUL" # "SET" /\ "MUL" # "XOR"
            /\ "C_JUMP_INVERSE" \in AluStates
        BY DEF AluStates
      <4>3. /\ Silent /\ KeepStaged /\ KeepBlake /\ KeepCommitted
            /\ asked' = Asked(request, "open")
            /\ compute' = "C_JUMP_INVERSE" /\ compute' # C_IDLE
            /\ scratch' = decided
            /\ alu_result' = field_mul(condition, witness.value)
            /\ DatapathInv'
        BY <4>1, <4>2, <2>1, <1>3, AluLaunch
      <4>4. execute(request) = Remaining(decided)'
        BY <3>1, <3>4, <4>3, RemainingNext, Zenon
      <4>5. request.dest_pc < INDEX_LIMIT /\ request.dest_fp < INDEX_LIMIT
        BY <3>4, <1>2, U32Assumption
      <4> QED
        BY <1>1, <1>2, <2>1, <4>3, <4>4, <4>5, LaunchSettles, Zenon
    <3> QED
      BY <3>2, <3>3, <3>4
  <2> QED
    BY <2>4, <2>5, <2>6, <1>2
<1> QED
  BY <1>4, <1>5, <1>6

\* A DEREF the frontend refuses before it encodes the pointer is one the rules
\* refuse, whatever they find wrong with it first.
LEMMA DerefFaults ==
  ASSUME NEW request, request.opcode \in {"DEREF_CELL", "DEREF_PC", "DEREF_FP"},
         NEW addresses,
         addresses = <<request.fp + request.offsets[1], request.base + request.offsets[2],
                       request.fp + request.offsets[3]>>,
         \/ addresses[1] > U32_MAX \/ addresses[2] > U32_MAX \/ addresses[3] > U32_MAX
         \/ request.base >= INDEX_LIMIT
         \/ AliasInconsistent(addresses, request.cells)
         \/ request.opcode # "DEREF_CELL" /\ DerefIndex(request) >= INDEX_LIMIT
  PROVE  \E status \in FaultStatus : execute(request) = Fault(status)
<1> DEFINE pointer == request.fp + request.offsets[1]
           local   == request.fp + request.offsets[3]
           target  == request.base + request.offsets[2]
           frame   == Frame(addresses, request.cells)
           index   == DerefIndex(request)
           value   == field_encode(index)
           far      == pointer > U32_MAX \/ local > U32_MAX
           beyond   == target > U32_MAX
           outside  == request.base >= INDEX_LIMIT
           wrong    == field_encode(request.base) # request.cells[1].value
           aliased  == AliasInconsistent(addresses, request.cells)
           cell     == request.opcode = "DEREF_CELL"
           past     == index >= INDEX_LIMIT
           reconciled == DerefCell(request, frame, target, local, addresses)
           stored   == IF WriteConflicts(frame, target, value) THEN Fault("WRITE_CONFLICT")
                       ELSE Decided(request.pc + 1, request.fp,
                                    NewWrites(frame, target, value), <<>>, addresses)
<1>1. execute(request) = execute_deref(request)
  BY Zenon DEF execute
<1>2. addresses[1] = pointer /\ addresses[2] = target /\ addresses[3] = local
      /\ addresses = <<pointer, target, local>>
  OBVIOUS
<1>3. far \/ beyond \/ outside \/ aliased \/ (~cell /\ past)
  BY <1>2, Zenon
<1> HIDE DEF pointer, local, target, frame, index, value
<1>4. execute_deref(request)
        = IF far THEN Fault("U32_OVERFLOW")
          ELSE IF outside THEN Fault("INDEX_RANGE")
          ELSE IF wrong THEN Fault("BAD_POINTER")
          ELSE IF beyond THEN Fault("U32_OVERFLOW")
          ELSE IF aliased THEN Fault("ALIAS_INCONSISTENT")
          ELSE IF cell THEN reconciled
          ELSE IF past THEN Fault("INDEX_RANGE")
          ELSE stored
  BY <1>2, Zenon DEF execute_deref, frame, value, index, pointer, target, local
<1> HIDE DEF far, outside, wrong, beyond, aliased, cell, past, reconciled, stored
<1>5. execute(request) \in {Fault("U32_OVERFLOW"), Fault("INDEX_RANGE"),
                            Fault("BAD_POINTER"), Fault("ALIAS_INCONSISTENT")}
  BY <1>1, <1>3, <1>4
<1> QED
  BY <1>5, FaultCodes

\* The frontend decodes DEREF_CELL, DEREF_PC and DEREF_FP as the rules do.
LEMMA DerefDecodes ==
  ASSUME NEW request, Placed(request),
         request.opcode \in {"DEREF_CELL", "DEREF_PC", "DEREF_FP"}, DecodeDeref(request)
  PROVE  Settles(request)
<1> DEFINE fp   == request.fp
           base == request.base
           o1   == request.offsets[1]
           o2   == request.offsets[2]
           o3   == request.offsets[3]
           wrapped == <<Add32(fp, o1), Add32(base, o2), Add32(fp, o3)>>
           plain   == <<fp + o1, base + o2, fp + o3>>
           overflow == OverflowsBy(fp, o1) \/ OverflowsBy(fp, o3) \/ OverflowsBy(base, o2)
           decided == Scratch(request, plain)
<1>1. /\ request \in Requests /\ IsRequest(request) /\ request.opcode \in ScalarOpcodes
      /\ request.profile = INTERPRETER_COMPAT
      /\ fp \in Nat /\ base \in Nat /\ o1 \in Nat /\ o2 \in Nat /\ o3 \in Nat
      /\ request.pc \in 0..(INDEX_LIMIT - 1) /\ request.fp \in 0..(INDEX_LIMIT - 1)
  <2>1. request \in Requests /\ IsRequest(request) /\ request.opcode \in ScalarOpcodes
        /\ request.opcode # "SET_CONSTANT"
    BY RequestAssumption DEF Placed, ScalarOpcodes
  <2>2. request.offsets \in [1..3 -> Nat]
    BY <2>1, TripleShape
  <2>3. fp \in Nat /\ base \in Nat
    BY <2>1, Zenon DEF IsRequest
  <2> QED
    BY <2>1, <2>2, <2>3 DEF Placed
<1> HIDE DEF fp, base, o1, o2, o3
<1>2. /\ overflow <=> plain[1] > U32_MAX \/ plain[2] > U32_MAX \/ plain[3] > U32_MAX
      /\ ~overflow => wrapped = plain /\ plain \in Seq(0..U32_MAX) /\ Len(plain) = 3
  <2>1. /\ OverflowsBy(fp, o1) <=> fp + o1 > U32_MAX
        /\ OverflowsBy(fp, o3) <=> fp + o3 > U32_MAX
        /\ OverflowsBy(base, o2) <=> base + o2 > U32_MAX
    BY <1>1, AddressSum, Zenon
  <2>2. ASSUME ~overflow
        PROVE  /\ Add32(fp, o1) = fp + o1 /\ fp + o1 \in 0..U32_MAX
               /\ Add32(fp, o3) = fp + o3 /\ fp + o3 \in 0..U32_MAX
               /\ Add32(base, o2) = base + o2 /\ base + o2 \in 0..U32_MAX
    BY <1>1, <2>2, AddressSum, Zenon
  <2> HIDE DEF overflow
  <2>3. ~overflow => wrapped = plain
    BY <2>2, Zenon
  <2>4. ~overflow => plain \in Seq(0..U32_MAX)
    BY <2>2
  <2>5. plain[1] = fp + o1 /\ plain[2] = base + o2 /\ plain[3] = fp + o3 /\ Len(plain) = 3
    OBVIOUS
  <2>6. overflow <=> fp + o1 > U32_MAX \/ base + o2 > U32_MAX \/ fp + o3 > U32_MAX
    BY <2>1, Zenon DEF overflow
  <2> QED
    BY <2>3, <2>4, <2>5, <2>6
<1>3. CellAliasInconsistent(plain, request.cells) <=> AliasInconsistent(plain, request.cells)
  <2>1. DOMAIN plain = 1..3 /\ 3 \in Nat
    OBVIOUS
  <2> HIDE DEF plain
  <2> QED
    BY <2>1, AliasCheck
<1>4. DerefRangeFault(request)
        <=> \/ base >= INDEX_LIMIT
            \/ request.opcode = "DEREF_PC" /\ request.pc + 2 >= INDEX_LIMIT
  BY <1>1, U32Assumption DEF DerefRangeFault, base
<1>5. request.opcode # "DEREF_CELL" =>
        (DerefIndex(request) >= INDEX_LIMIT
           <=> request.opcode = "DEREF_PC" /\ request.pc + 2 >= INDEX_LIMIT)
  BY <1>1, U32Assumption DEF DerefIndex, fp
<1>6. plain = <<request.fp + request.offsets[1], request.base + request.offsets[2],
                request.fp + request.offsets[3]>>
  BY DEF fp, base, o1, o2, o3
<1>7. {"U32_OVERFLOW", "INDEX_RANGE", "ALIAS_INCONSISTENT"} \subseteq FaultStatus
  BY FaultCodes
<1> HIDE DEF plain, wrapped, overflow
<1>8. IF overflow THEN Refuse(request, "U32_OVERFLOW")
      ELSE IF DerefRangeFault(request) THEN Refuse(request, "INDEX_RANGE")
      ELSE IF CellAliasInconsistent(wrapped, request.cells)
      THEN Refuse(request, "ALIAS_INCONSISTENT")
      ELSE StartEncoder(base % INDEX_LIMIT, "C_DEREF_POINTER", Scratch(request, wrapped))
  BY Zenon DEF DecodeDeref, wrapped, overflow, fp, base, o1, o2, o3
<1> HIDE DEF decided
<1>9. CASE overflow
  <2>1. \E status \in FaultStatus : execute(request) = Fault(status)
    BY <1>2, <1>6, <1>9, DerefFaults
  <2> QED
    BY <2>1, <1>7, <1>8, <1>9, RefusalSettles
<1>10. CASE ~overflow /\ DerefRangeFault(request)
  <2>1. \E status \in FaultStatus : execute(request) = Fault(status)
    <3>1. request.base >= INDEX_LIMIT
          \/ (request.opcode # "DEREF_CELL" /\ DerefIndex(request) >= INDEX_LIMIT)
      BY <1>4, <1>5, <1>10 DEF base
    <3> QED
      BY <3>1, <1>6, DerefFaults
  <2> QED
    BY <2>1, <1>7, <1>8, <1>10, RefusalSettles
<1>11. CASE ~overflow /\ ~DerefRangeFault(request)
            /\ CellAliasInconsistent(wrapped, request.cells)
  <2>1. \E status \in FaultStatus : execute(request) = Fault(status)
    <3>1. AliasInconsistent(plain, request.cells)
      BY <1>2, <1>3, <1>11
    <3> QED
      BY <3>1, <1>6, DerefFaults
  <2> QED
    BY <2>1, <1>7, <1>8, <1>11, RefusalSettles
<1>12. CASE ~overflow /\ ~DerefRangeFault(request)
            /\ ~CellAliasInconsistent(wrapped, request.cells)
  <2>1. ~AliasInconsistent(plain, request.cells) /\ wrapped = plain
    BY <1>2, <1>3, <1>12, Zenon
  <2>2. StartEncoder(base % INDEX_LIMIT, "C_DEREF_POINTER", decided)
    BY <1>8, <1>12, <2>1, Zenon DEF decided
  <2>3. /\ ~(base >= INDEX_LIMIT)
        /\ request.opcode # "DEREF_CELL" => ~(DerefIndex(request) >= INDEX_LIMIT)
    BY <1>4, <1>5, <1>12
  <2>4. base % INDEX_LIMIT = base /\ base % INDEX_LIMIT \in 0..(INDEX_LIMIT - 1)
    BY <1>1, <2>3, IndexInRange
  <2>5. execute(request) = PointerEncoded(decided, field_encode(base))
    <3>1. ~(plain[1] > U32_MAX) /\ ~(plain[2] > U32_MAX) /\ ~(plain[3] > U32_MAX)
      BY <1>2, <1>12
    <3>2. ~(request.base >= INDEX_LIMIT)
      BY <2>3 DEF base
    <3> QED
      BY <3>1, <3>2, <2>1, <2>3, <1>1, <1>6, DerefRule, Zenon DEF decided, base
  <2>6. /\ decided \in Decisions /\ decided.request = request /\ Len(decided.accesses) = 3
    <3>1. plain \in Seq(0..U32_MAX) /\ Len(plain) = 3
      BY <1>2, <1>12
    <3>2. decided \in Decisions
      BY <3>1, <1>1, ScratchType, Zenon DEF decided
    <3>3. decided.request = request /\ decided.accesses = plain
      BY ScratchFields, Zenon DEF decided
    <3> QED
      BY <3>1, <3>2, <3>3
  <2>7. "C_DEREF_POINTER" \in EncoderStates
    BY DEF EncoderStates
  <2>8. /\ Silent /\ KeepStaged /\ KeepBlake /\ KeepCommitted
        /\ asked' = Asked(request, "open")
        /\ compute' = "C_DEREF_POINTER" /\ compute' # C_IDLE
        /\ scratch' = decided
        /\ encoder_result' = field_encode(base)
        /\ DatapathInv'
    BY <2>2, <2>4, <2>6, <2>7, EncoderLaunch
  <2>9. execute(request) = Remaining(decided)'
    BY <2>5, <2>8, RemainingNext, Zenon
  <2>10. request.opcode # "DEREF_CELL" => DerefIndex(request) < INDEX_LIMIT
    <3>1. DerefIndex(request) \in Int
      BY <1>1, U32Assumption DEF DerefIndex
    <3> QED
      BY <2>3, <3>1, U32Assumption
  <2> QED
    BY <1>1, <2>6, <2>8, <2>9, <2>10, LaunchSettles, Zenon
<1> QED
  BY <1>9, <1>10, <1>11, <1>12

\* Each of three accesses is an address.
LEMMA AccessAt ==
  ASSUME NEW S, NEW accesses, accesses \in Seq(S), Len(accesses) = 3
  PROVE  accesses[1] \in S /\ accesses[2] \in S /\ accesses[3] \in S
<1>1. 1 \in 1..Len(accesses) /\ 2 \in 1..Len(accesses) /\ 3 \in 1..Len(accesses)
      /\ accesses \in [1..Len(accesses) -> S]
  OBVIOUS
<1> QED
  BY <1>1, Zenon

\* A computation in flight: what it carries, and what its datapath returns.
LEMMA InFlight ==
  ASSUME ScratchInv, DatapathInv, compute # C_IDLE
  PROVE  /\ scratch \in Decisions /\ scratch.request \in Requests
         /\ scratch.request.opcode \in ScalarOpcodes
         /\ scratch.request.profile = INTERPRETER_COMPAT
         /\ execute(scratch.request) = Remaining(scratch)
         /\ compute \in AluStates => alu_result \in Word
         /\ encoder_result \in Word
         /\ scratch.request.opcode # "SET_CONSTANT" =>
               scratch.request.cells \in [1..3 -> Cell]
         /\ scratch.request.opcode = "MUL_NATIVE" =>
               scratch.request.proposed_inverse \in Cell
         /\ scratch.request.opcode = "JUMP" =>
               scratch.request.dest_pc \in Nat /\ scratch.request.dest_fp \in Nat
<1>1. /\ scratch \in Decisions
      /\ scratch.request.opcode \in ScalarOpcodes
      /\ scratch.request.profile = INTERPRETER_COMPAT
      /\ execute(scratch.request) = Remaining(scratch)
  BY Zenon DEF ScratchInv
<1>2. scratch.request \in Requests
  BY <1>1, DecisionType
<1>3. ASSUME compute \in AluStates PROVE alu_result \in Word
  <2>1. alu \in AluRecord
    BY <1>3, Zenon DEF DatapathInv
  <2>2. alu.a \in Word /\ alu.b \in Word
    BY <2>1 DEF AluRecord
  <2>3. Xor(alu.a, alu.b) \in Word /\ field_mul(alu.a, alu.b) \in Word
    BY <2>2, XorType, MulType
  <2> QED
    BY <2>2, <2>3, Zenon DEF alu_result
<1>4. encoder_result \in Word
  BY EncodeType, Zenon DEF encoder_result
<1>5. IsRequest(scratch.request)
  BY <1>2, RequestAssumption
<1>6. scratch.request.opcode # "SET_CONSTANT" => scratch.request.cells \in [1..3 -> Cell]
  BY <1>1, <1>5, TripleShape
<1>7. /\ scratch.request.opcode = "MUL_NATIVE" => scratch.request.proposed_inverse \in Cell
      /\ scratch.request.opcode = "JUMP" =>
            scratch.request.dest_pc \in Nat /\ scratch.request.dest_fp \in Nat
  BY <1>5, Zenon DEF IsRequest
<1> QED
  BY <1>1, <1>2, <1>3, <1>4, <1>6, <1>7, Zenon

\* SET_CONSTANT: the constant has gone through the ALU.
LEMMA SetSettles ==
  ASSUME ScratchInv, DatapathInv, compute # C_IDLE, SetDone
  PROVE  Settles(scratch.request)
<1>1. compute = "C_SET" /\ alu_result = scratch.request.constant
  <2>1. compute = "C_SET"
    BY Zenon DEF SetDone
  <2>2. alu.operation = "SET" /\ alu.a = scratch.request.constant
    BY <2>1, Zenon DEF ScratchInv
  <2> QED
    BY <2>1, <2>2, Zenon DEF alu_result
<1>2. emit_result(scratch)
  BY <1>1, Zenon DEF SetDone
<1>3. execute(scratch.request) = Outcome(scratch) /\ scratch \in Decisions
  BY <1>1, InFlight, RemainingNow, Zenon
<1> QED
  BY <1>2, <1>3, OfferSettles

\* A forward result: compared with the cell, or written to it.
LEMMA ForwardSettles ==
  ASSUME ScratchInv, DatapathInv, compute # C_IDLE, ForwardDone
  PROVE  Settles(scratch.request)
<1> DEFINE request == scratch.request
           c       == request.cells[3]
           full    == IF c.present THEN scratch
                      ELSE [scratch EXCEPT !.writes = WriteOf(scratch.accesses[3],
                                                              alu_result)]
<1>1. compute = "C_FORWARD"
  BY Zenon DEF ForwardDone
<1>2. /\ scratch \in Decisions /\ request \in Requests
      /\ scratch.accesses \in Seq(0..U32_MAX) /\ Len(scratch.accesses) = 3
      /\ alu_result \in Word
  <2>1. compute \in AluStates
    BY <1>1 DEF AluStates
  <2>2. Len(scratch.accesses) = 3
    BY <1>1 DEF ScratchInv
  <2> QED
    BY <2>1, <2>2, InFlight, DecisionType
<1>3. execute(request) = IF c.present /\ c.value # alu_result THEN Fault("WRITE_CONFLICT")
                         ELSE Outcome(full)
  <2>1. execute(request) = Forwarded(scratch, alu_result)
    BY <1>1, InFlight, RemainingNow, Zenon
  <2> QED
    BY <2>1, Zenon DEF Forwarded
<1>4. CASE c.present /\ c.value # alu_result
  <2>1. Refuse(request, "WRITE_CONFLICT")
    BY <1>4, Zenon DEF ForwardDone
  <2>2. "WRITE_CONFLICT" \in FaultStatus
    BY FaultCodes
  <2> QED
    BY <2>1, <2>2, <1>3, <1>4, RefusalSettles
<1>5. CASE ~(c.present /\ c.value # alu_result)
  <2>1. emit_result(full)
    BY <1>5, Zenon DEF ForwardDone
  <2>2. full \in Decisions /\ full.request = request
    <3>1. scratch.accesses[3] \in 0..U32_MAX
      BY <1>2, AccessAt, Zenon
    <3>2. /\ [scratch EXCEPT !.writes = WriteOf(scratch.accesses[3], alu_result)] \in Decisions
          /\ [scratch EXCEPT !.writes = WriteOf(scratch.accesses[3], alu_result)].request
               = scratch.request
      BY ONLY <1>2, <3>1, DecisionWrite, Zenon
    <3> QED
      BY <1>2, <3>2, Zenon
  <2> HIDE DEF full
  <2> QED
    BY <2>1, <2>2, <1>3, <1>5, OfferSettles
<1> QED
  BY <1>4, <1>5

\* The forward check is started on a solved operand.
LEMMA SolvedSettles ==
  ASSUME ScratchInv, DatapathInv, compute # C_IDLE,
         compute \in {"C_XOR_SOLVE", "C_SOLVE"},
         NEW operation \in {"XOR", "MUL"}, NEW left \in Word, NEW right \in Word,
         Solved(operation, left, right),
         execute(scratch.request)
           = Forwarded(SolvedWith(scratch, alu_result),
                       IF operation = "XOR" THEN Xor(left, right) ELSE field_mul(left, right))
  PROVE  Settles(scratch.request)
<1>0. PICK full : full = SolvedWith(scratch, alu_result)
  OBVIOUS
<1> DEFINE request == scratch.request
<1>1. /\ scratch \in Decisions /\ request \in Requests
      /\ request.opcode \in ScalarOpcodes
      /\ request.profile = INTERPRETER_COMPAT
      /\ scratch.accesses \in Seq(0..U32_MAX) /\ Len(scratch.accesses) = 3
      /\ alu_result \in Word
      /\ request.opcode \in {"XOR", "MUL_NATIVE"}
  <2>1. compute \in AluStates
    BY DEF AluStates
  <2>2. Len(scratch.accesses) = 3 /\ request.opcode \in {"XOR", "MUL_NATIVE"}
    BY DEF ScratchInv
  <2> QED
    BY <2>1, <2>2, InFlight, DecisionType
<1>2. full \in Decisions /\ full.request = request /\ full.accesses = scratch.accesses
  <2>1. PICK i \in {1, 2} :
          full = [scratch EXCEPT !.writes = WriteOf(scratch.accesses[i], alu_result)]
    BY <1>0, Zenon DEF SolvedWith
  <2>2. scratch.accesses[i] \in 0..U32_MAX
    <3>1. scratch.accesses[1] \in 0..U32_MAX /\ scratch.accesses[2] \in 0..U32_MAX
      BY <1>1, AccessAt, Zenon
    <3> QED
      BY <3>1
  <2>3. /\ [scratch EXCEPT !.writes = WriteOf(scratch.accesses[i], alu_result)] \in Decisions
        /\ [scratch EXCEPT !.writes = WriteOf(scratch.accesses[i], alu_result)].request
             = scratch.request
        /\ [scratch EXCEPT !.writes = WriteOf(scratch.accesses[i], alu_result)].accesses
             = scratch.accesses
    BY ONLY <1>1, <2>2, DecisionWrite, Zenon
  <2> QED
    BY <2>1, <2>3, Zenon
<1>3. StartAlu(operation, left, right, "C_FORWARD", full)
  BY <1>0, Zenon DEF Solved, SolvedWith
<1>4. "C_FORWARD" \in AluStates /\ operation \in {"SET", "XOR", "MUL"} /\ operation # "SET"
  BY DEF AluStates
<1>5. /\ Silent /\ KeepStaged /\ KeepBlake /\ KeepCommitted
      /\ asked' = Asked(request, "open")
      /\ compute' = "C_FORWARD" /\ compute' # C_IDLE
      /\ scratch' = full
      /\ alu_result' = IF operation = "SET" THEN left
                       ELSE IF operation = "XOR" THEN Xor(left, right)
                       ELSE field_mul(left, right)
      /\ DatapathInv'
  BY <1>2, <1>3, <1>4, AluLaunch
<1>6. execute(request) = Remaining(full)'
  <2>1. execute(request) = Forwarded(full, alu_result')
    BY <1>0, <1>4, <1>5, Zenon
  <2> QED
    BY <2>1, <1>5, RemainingNext, Zenon
<1>7. Len(full.accesses) = 3
  BY <1>1, <1>2
<1> QED
  BY <1>1, <1>2, <1>5, <1>6, <1>7, LaunchSettles, Zenon

\* A back-solved XOR is checked forward.
LEMMA XorSolveSettles ==
  ASSUME ScratchInv, DatapathInv, compute # C_IDLE, XorSolveDone
  PROVE  Settles(scratch.request)
<1> DEFINE request == scratch.request
           a == request.cells[1]
           b == request.cells[2]
<1>1. compute = "C_XOR_SOLVE"
  BY Zenon DEF XorSolveDone
<1>2. alu_result \in Word /\ a.value \in Word /\ b.value \in Word
  <2>1. compute \in AluStates /\ request.opcode = "XOR"
    BY <1>1 DEF AluStates, ScratchInv
  <2>2. a \in Cell /\ b \in Cell
    BY <2>1, InFlight
  <2> HIDE DEF a, b
  <2> QED
    BY <2>1, <2>2, InFlight, CellType
<1>3. execute(request) = XorSolved(scratch, alu_result)
  BY <1>1, InFlight, RemainingNow, Zenon
<1>4. "XOR" \in {"XOR", "MUL"} /\ compute \in {"C_XOR_SOLVE", "C_SOLVE"}
  BY <1>1
<1>5. CASE a.present
  <2>1. Solved("XOR", a.value, alu_result)
    BY <1>5, Zenon DEF XorSolveDone
  <2>2. execute(request) = Forwarded(SolvedWith(scratch, alu_result), Xor(a.value, alu_result))
    BY <1>3, <1>5, Zenon DEF XorSolved
  <2> QED
    BY <1>2, <1>4, <2>1, <2>2, SolvedSettles
<1>6. CASE ~a.present
  <2>1. Solved("XOR", alu_result, b.value)
    BY <1>6, Zenon DEF XorSolveDone
  <2>2. execute(request) = Forwarded(SolvedWith(scratch, alu_result), Xor(alu_result, b.value))
    BY <1>3, <1>6, Zenon DEF XorSolved
  <2> QED
    BY <1>2, <1>4, <2>1, <2>2, SolvedSettles
<1> QED
  BY <1>5, <1>6

\* A back-solved product is checked forward.
LEMMA MulSolveSettles ==
  ASSUME ScratchInv, DatapathInv, compute # C_IDLE, SolveDone
  PROVE  Settles(scratch.request)
<1> DEFINE request == scratch.request
           a == request.cells[1]
           b == request.cells[2]
           known == KnownOf(request)
<1>1. compute = "C_SOLVE"
  BY Zenon DEF SolveDone
<1>2. alu_result \in Word /\ known \in Word
  <2>1. compute \in AluStates /\ request.opcode = "MUL_NATIVE"
    BY <1>1 DEF AluStates, ScratchInv
  <2>2. a \in Cell /\ b \in Cell
    BY <2>1, InFlight
  <2>3. known = IF a.present THEN a.value ELSE b.value
    BY Zenon DEF KnownOf
  <2> HIDE DEF a, b, known
  <2> QED
    BY <2>1, <2>2, <2>3, InFlight, CellType
<1>3. execute(request)
        = Forwarded(SolvedWith(scratch, alu_result), field_mul(alu_result, known))
  <2>1. execute(request) = MulSolved(scratch, alu_result)
    BY <1>1, InFlight, RemainingNow, Zenon
  <2> QED
    BY <2>1, Zenon DEF MulSolved
<1>4. Solved("MUL", alu_result, known)
  BY Zenon DEF SolveDone, KnownOf
<1>5. "MUL" \in {"XOR", "MUL"} /\ "MUL" # "XOR" /\ compute \in {"C_XOR_SOLVE", "C_SOLVE"}
  BY <1>1
<1> HIDE DEF known
<1> QED
  BY <1>2, <1>3, <1>4, <1>5, SolvedSettles

\* The inverse the host proposed is checked, then multiplied in.
LEMMA VerifyInverseSettles ==
  ASSUME ScratchInv, DatapathInv, compute # C_IDLE, VerifyInverseDone
  PROVE  Settles(scratch.request)
<1>0. PICK decided : decided = scratch
  OBVIOUS
<1> DEFINE request == scratch.request
           left    == request.cells[3].value
           right   == request.proposed_inverse.value
<1>1. compute = "C_VERIFY_INVERSE"
  BY Zenon DEF VerifyInverseDone
<1>2. /\ scratch \in Decisions /\ request.opcode = "MUL_NATIVE"
      /\ request.opcode \in ScalarOpcodes
      /\ request.profile = INTERPRETER_COMPAT /\ Len(scratch.accesses) = 3
      /\ left \in Word /\ right \in Word
  <2>1. request.opcode = "MUL_NATIVE" /\ Len(scratch.accesses) = 3
    BY <1>1 DEF ScratchInv
  <2>2. request.cells[3] \in Cell /\ request.proposed_inverse \in Cell
    BY <2>1, InFlight
  <2>3. left \in Word /\ right \in Word
    BY <2>2, CellType, Zenon
  <2> QED
    BY <2>1, <2>3, InFlight
<1>3. execute(request)
        = IF alu_result # One THEN Fault("BAD_INVERSE")
          ELSE MulSolved(scratch, field_mul(left, right))
  <2>1. execute(request) = InverseVerified(scratch, alu_result)
    BY <1>1, InFlight, RemainingNow, Zenon
  <2> QED
    BY <2>1, Zenon DEF InverseVerified
<1>4. CASE alu_result # One
  <2>1. Refuse(request, "BAD_INVERSE")
    BY <1>4, Zenon DEF VerifyInverseDone
  <2>2. "BAD_INVERSE" \in FaultStatus
    BY FaultCodes
  <2> QED
    BY <2>1, <2>2, <1>3, <1>4, RefusalSettles
<1>5. CASE alu_result = One
  <2>1. StartAlu("MUL", left, right, "C_SOLVE", scratch)
    BY <1>5, Zenon DEF VerifyInverseDone
  <2>2. "MUL" \in {"SET", "XOR", "MUL"} /\ "MUL" # "SET" /\ "MUL" # "XOR"
        /\ "C_SOLVE" \in AluStates
    BY DEF AluStates
  <2> HIDE DEF left, right
  <2>3. /\ Silent /\ KeepStaged /\ KeepBlake /\ KeepCommitted
        /\ asked' = Asked(request, "open")
        /\ compute' = "C_SOLVE" /\ compute' # C_IDLE
        /\ scratch' = scratch
        /\ alu_result' = field_mul(left, right)
        /\ DatapathInv'
    BY <1>2, <2>1, <2>2, AluLaunch
  <2>4. execute(request) = MulSolved(scratch, alu_result')
    BY <1>3, <1>5, <2>3, Zenon
  <2>5. execute(request) = Remaining(decided)'
    BY <2>3, <2>4, <1>0, RemainingNext, Zenon
  <2> QED
    BY <1>0, <1>2, <2>3, <2>5, LaunchSettles, Zenon
<1> QED
  BY <1>4, <1>5

\* A computation moves on to the encoder, carrying what it carried.
LEMMA EncoderSettles ==
  ASSUME ScratchInv, DatapathInv, compute # C_IDLE,
         NEW index \in Nat, ~(index >= INDEX_LIMIT),
         NEW next \in {"C_DEREF_VALUE", "C_JUMP_PC", "C_JUMP_FP"},
         StartEncoder(index % INDEX_LIMIT, next, scratch),
         next = "C_DEREF_VALUE" => compute = "C_DEREF_POINTER",
         next # "C_DEREF_VALUE" => compute \in {"C_JUMP_INVERSE", "C_JUMP_PC"},
         execute(scratch.request)
           = IF next = "C_DEREF_VALUE" THEN ValueStored(scratch, field_encode(index))
             ELSE IF next = "C_JUMP_PC" THEN DestinationEncoded(scratch, field_encode(index))
             ELSE FrameEncoded(scratch, field_encode(index))
  PROVE  Settles(scratch.request)
<1>0. PICK decided : decided = scratch
  OBVIOUS
<1> DEFINE request == scratch.request
<1>1. index % INDEX_LIMIT = index /\ index \in 0..(INDEX_LIMIT - 1)
  BY IndexInRange
<1>2. StartEncoder(index, next, scratch)
  BY <1>1
<1>3. next \in EncoderStates
  BY DEF EncoderStates
<1>4. /\ Silent /\ KeepStaged /\ KeepBlake /\ KeepCommitted
      /\ asked' = Asked(request, "open")
      /\ compute' = next /\ compute' # C_IDLE
      /\ scratch' = scratch
      /\ encoder_result' = field_encode(index)
      /\ DatapathInv'
  BY <1>1, <1>2, <1>3, EncoderLaunch
<1>5. /\ decided \in Decisions /\ request.opcode \in ScalarOpcodes
      /\ request.profile = INTERPRETER_COMPAT
  BY <1>0, InFlight
<1>6. execute(request) = Remaining(decided)'
  BY <1>0, <1>4, RemainingNext, Zenon
<1>7. /\ next = "C_DEREF_VALUE" =>
            /\ request.opcode \in {"DEREF_CELL", "DEREF_PC", "DEREF_FP"}
            /\ Len(decided.accesses) = 3
      /\ next \in {"C_JUMP_PC", "C_JUMP_FP"} =>
            /\ request.opcode = "JUMP"
            /\ request.dest_pc < INDEX_LIMIT
            /\ request.dest_fp < INDEX_LIMIT
  BY <1>0, Zenon DEF ScratchInv
<1>8. next # "C_SET" /\ next # "C_FORWARD" /\ next # "C_XOR_SOLVE" /\ next # "C_SOLVE"
      /\ next # "C_VERIFY_INVERSE" /\ next # "C_DEREF_POINTER"
  OBVIOUS
<1>9. /\ compute' \in {"C_DEREF_POINTER", "C_DEREF_VALUE"} =>
            /\ request.opcode \in {"DEREF_CELL", "DEREF_PC", "DEREF_FP"}
            /\ Len(decided.accesses) = 3
      /\ compute' \in {"C_JUMP_INVERSE", "C_JUMP_PC", "C_JUMP_FP"} =>
            /\ request.opcode = "JUMP"
            /\ request.dest_pc < INDEX_LIMIT
            /\ request.dest_fp < INDEX_LIMIT
      /\ compute' \notin {"C_SET", "C_FORWARD", "C_XOR_SOLVE", "C_VERIFY_INVERSE",
                          "C_SOLVE", "C_DEREF_POINTER"}
  BY <1>4, <1>7, <1>8
<1> QED
  BY <1>0, <1>4, <1>5, <1>6, <1>9, LaunchSettles, Zenon

\* The inverse of a taken JUMP is checked, then its destination encoded.
LEMMA JumpInverseSettles ==
  ASSUME ScratchInv, DatapathInv, compute # C_IDLE, JumpInverseDone
  PROVE  Settles(scratch.request)
<1> DEFINE request == scratch.request
<1>1. compute = "C_JUMP_INVERSE"
  BY Zenon DEF JumpInverseDone
<1>2. /\ request.opcode = "JUMP" /\ request.dest_pc < INDEX_LIMIT
      /\ request.dest_pc \in Nat
  BY <1>1, InFlight DEF ScratchInv
<1>3. execute(request)
        = IF alu_result # One THEN Fault("BAD_INVERSE")
          ELSE DestinationEncoded(scratch, field_encode(request.dest_pc))
  <2>1. execute(request) = JumpVerified(scratch, alu_result)
    BY <1>1, InFlight, RemainingNow, Zenon
  <2> QED
    BY <2>1, Zenon DEF JumpVerified
<1>4. CASE alu_result # One
  <2>1. Refuse(request, "BAD_INVERSE")
    BY <1>4, Zenon DEF JumpInverseDone
  <2>2. "BAD_INVERSE" \in FaultStatus
    BY FaultCodes
  <2> QED
    BY <2>1, <2>2, <1>3, <1>4, RefusalSettles
<1>5. CASE alu_result = One
  <2>1. StartEncoder(request.dest_pc % INDEX_LIMIT, "C_JUMP_PC", scratch)
    BY <1>5, Zenon DEF JumpInverseDone
  <2>2. ~(request.dest_pc >= INDEX_LIMIT)
    BY <1>2, U32Assumption
  <2>3. "C_JUMP_PC" \in {"C_DEREF_VALUE", "C_JUMP_PC", "C_JUMP_FP"}
        /\ "C_JUMP_PC" # "C_DEREF_VALUE"
    OBVIOUS
  <2>4. execute(request) = DestinationEncoded(scratch, field_encode(request.dest_pc))
    BY <1>3, <1>5, Zenon
  <2> QED
    BY <2>1, <2>2, <2>3, <2>4, <1>1, <1>2, EncoderSettles, Zenon
<1> QED
  BY <1>4, <1>5

\* The destination is compared, then the frame pointer encoded.
LEMMA JumpPcSettles ==
  ASSUME ScratchInv, DatapathInv, compute # C_IDLE, JumpPcDone
  PROVE  Settles(scratch.request)
<1> DEFINE request == scratch.request
<1>1. compute = "C_JUMP_PC"
  BY Zenon DEF JumpPcDone
<1>2. /\ request.opcode = "JUMP" /\ request.dest_fp < INDEX_LIMIT
      /\ request.dest_fp \in Nat
  BY <1>1, InFlight DEF ScratchInv
<1>3. execute(request)
        = IF encoder_result # request.cells[2].value THEN Fault("BAD_POINTER")
          ELSE FrameEncoded(scratch, field_encode(request.dest_fp))
  <2>1. execute(request) = DestinationEncoded(scratch, encoder_result)
    BY <1>1, InFlight, RemainingNow, Zenon
  <2> QED
    BY <2>1, Zenon DEF DestinationEncoded
<1>4. CASE encoder_result # request.cells[2].value
  <2>1. Refuse(request, "BAD_POINTER")
    BY <1>4, Zenon DEF JumpPcDone
  <2>2. "BAD_POINTER" \in FaultStatus
    BY FaultCodes
  <2> QED
    BY <2>1, <2>2, <1>3, <1>4, RefusalSettles
<1>5. CASE encoder_result = request.cells[2].value
  <2>1. StartEncoder(request.dest_fp % INDEX_LIMIT, "C_JUMP_FP", scratch)
    BY <1>5, Zenon DEF JumpPcDone
  <2>2. ~(request.dest_fp >= INDEX_LIMIT)
    BY <1>2, U32Assumption
  <2>3. "C_JUMP_FP" \in {"C_DEREF_VALUE", "C_JUMP_PC", "C_JUMP_FP"}
        /\ "C_JUMP_FP" # "C_DEREF_VALUE" /\ "C_JUMP_FP" # "C_JUMP_PC"
    OBVIOUS
  <2>4. execute(request) = FrameEncoded(scratch, field_encode(request.dest_fp))
    BY <1>3, <1>5, Zenon
  <2> QED
    BY <2>1, <2>2, <2>3, <2>4, <1>1, <1>2, EncoderSettles, Zenon
<1> QED
  BY <1>4, <1>5

\* The frame pointer is compared, and the JUMP offered.
LEMMA JumpFpSettles ==
  ASSUME ScratchInv, DatapathInv, compute # C_IDLE, JumpFpDone
  PROVE  Settles(scratch.request)
<1> DEFINE request == scratch.request
           full == [scratch EXCEPT !.next_pc = request.dest_pc,
                                   !.next_fp = request.dest_fp]
<1>1. compute = "C_JUMP_FP"
  BY Zenon DEF JumpFpDone
<1>2. /\ request.dest_pc \in 0..INDEX_LIMIT /\ request.dest_fp \in 0..(INDEX_LIMIT - 1)
  <2>1. request.opcode = "JUMP" /\ request.dest_pc < INDEX_LIMIT
        /\ request.dest_fp < INDEX_LIMIT
    BY <1>1 DEF ScratchInv
  <2>2. request.dest_pc \in Nat /\ request.dest_fp \in Nat
    BY <2>1, InFlight
  <2> QED
    BY <2>1, <2>2, U32Assumption
<1>3. execute(request)
        = IF encoder_result # request.cells[3].value THEN Fault("BAD_POINTER")
          ELSE Outcome(full)
  <2>1. execute(request) = FrameEncoded(scratch, encoder_result)
    BY <1>1, InFlight, RemainingNow, Zenon
  <2> QED
    BY <2>1, Zenon DEF FrameEncoded
<1>4. CASE encoder_result # request.cells[3].value
  <2>1. Refuse(request, "BAD_POINTER")
    BY <1>4, Zenon DEF JumpFpDone
  <2>2. "BAD_POINTER" \in FaultStatus
    BY FaultCodes
  <2> QED
    BY <2>1, <2>2, <1>3, <1>4, RefusalSettles
<1>5. CASE encoder_result = request.cells[3].value
  <2>1. emit_result(full)
    BY <1>5, Zenon DEF JumpFpDone
  <2>2. scratch \in Decisions
    BY InFlight
  <2>3. full \in Decisions /\ full.request = request
    BY <1>2, <2>2, DecisionJump
  <2> HIDE DEF full
  <2> QED
    BY <2>1, <2>3, <1>3, <1>5, OfferSettles
<1> QED
  BY <1>4, <1>5

\* The index a DEREF stores is encoded: compared with the cell, or written.
LEMMA DerefValueSettles ==
  ASSUME ScratchInv, DatapathInv, compute # C_IDLE, DerefValueDone
  PROVE  Settles(scratch.request)
<1> DEFINE request == scratch.request
           target  == request.cells[2]
           full    == IF target.present THEN scratch
                      ELSE [scratch EXCEPT !.writes = WriteOf(scratch.accesses[2],
                                                              encoder_result)]
<1>1. compute = "C_DEREF_VALUE"
  BY Zenon DEF DerefValueDone
<1>2. /\ scratch \in Decisions /\ request \in Requests
      /\ scratch.accesses[2] \in 0..U32_MAX
      /\ encoder_result \in Word
  <2>1. Len(scratch.accesses) = 3
    BY <1>1 DEF ScratchInv
  <2>2. scratch \in Decisions /\ scratch.accesses \in Seq(0..U32_MAX)
        /\ encoder_result \in Word /\ request \in Requests
    BY InFlight, DecisionType
  <2>3. scratch.accesses[2] \in 0..U32_MAX
    BY <2>1, <2>2, AccessAt, Zenon
  <2> QED
    BY <2>2, <2>3
<1>3. execute(request)
        = IF target.present /\ target.value # encoder_result THEN Fault("WRITE_CONFLICT")
          ELSE Outcome(full)
  <2>1. execute(request) = ValueStored(scratch, encoder_result)
    BY <1>1, InFlight, RemainingNow, Zenon
  <2> QED
    BY <2>1, Zenon DEF ValueStored
<1>4. CASE target.present /\ target.value # encoder_result
  <2>1. Refuse(request, "WRITE_CONFLICT")
    BY <1>4, Zenon DEF DerefValueDone
  <2>2. "WRITE_CONFLICT" \in FaultStatus
    BY FaultCodes
  <2> QED
    BY <2>1, <2>2, <1>3, <1>4, RefusalSettles
<1>5. CASE ~(target.present /\ target.value # encoder_result)
  <2>1. emit_result(full)
    BY <1>5, Zenon DEF DerefValueDone
  <2>2. full \in Decisions /\ full.request = request
    <3>1. LET e == [scratch EXCEPT !.writes = WriteOf(scratch.accesses[2], encoder_result)] IN
          e \in Decisions /\ e.request = scratch.request
      BY ONLY <1>2, DecisionWrite, Zenon
    <3> QED
      BY <1>2, <3>1, Zenon
  <2> HIDE DEF full
  <2> QED
    BY <2>1, <2>2, <1>3, <1>5, OfferSettles
<1> QED
  BY <1>4, <1>5

\* The pointer of a DEREF is verified: the equality of DEREF_CELL is decided,
\* or the index the others store is encoded.
LEMMA DerefPointerSettles ==
  ASSUME ScratchInv, DatapathInv, compute # C_IDLE,
         frame_opcode = scratch.request.opcode, finish_deref_pointer
  PROVE  Settles(scratch.request)
<1> DEFINE request == scratch.request
           target  == request.cells[2]
           local   == request.cells[3]
<1>1. compute = "C_DEREF_POINTER"
  BY Zenon DEF finish_deref_pointer
<1>2. /\ scratch \in Decisions /\ request \in Requests
      /\ scratch.accesses[2] \in 0..U32_MAX /\ scratch.accesses[3] \in 0..U32_MAX
      /\ request.opcode \in {"DEREF_CELL", "DEREF_PC", "DEREF_FP"}
      /\ request.opcode # "DEREF_CELL" => DerefIndex(request) < INDEX_LIMIT
      /\ request.profile = INTERPRETER_COMPAT
      /\ target.value \in Word /\ local.value \in Word
      /\ target.present \in BOOLEAN /\ local.present \in BOOLEAN
  <2>1. /\ Len(scratch.accesses) = 3
        /\ request.opcode \in {"DEREF_CELL", "DEREF_PC", "DEREF_FP"}
        /\ request.opcode # "DEREF_CELL" => DerefIndex(request) < INDEX_LIMIT
    BY <1>1, Zenon DEF ScratchInv
  <2>2. scratch \in Decisions /\ scratch.accesses \in Seq(0..U32_MAX)
        /\ request \in Requests /\ request.profile = INTERPRETER_COMPAT
    BY InFlight, DecisionType
  <2>3. scratch.accesses[2] \in 0..U32_MAX /\ scratch.accesses[3] \in 0..U32_MAX
    BY <2>1, <2>2, AccessAt, Zenon
  <2>4. request.opcode # "SET_CONSTANT"
    BY <2>1
  <2>5. target \in Cell /\ local \in Cell
    BY <2>4, InFlight
  <2>6. /\ target.value \in Word /\ local.value \in Word
        /\ target.present \in BOOLEAN /\ local.present \in BOOLEAN
    BY <2>5, CellType, Zenon
  <2> QED
    BY <2>1, <2>2, <2>3, <2>6, Zenon
<1>3. execute(request)
        = IF encoder_result # request.cells[1].value THEN Fault("BAD_POINTER")
          ELSE IF request.opcode = "DEREF_CELL" THEN Reconciled(scratch)
          ELSE ValueStored(scratch, field_encode(DerefIndex(request)))
  <2>1. execute(request) = PointerEncoded(scratch, encoder_result)
    BY <1>1, InFlight, RemainingNow, Zenon
  <2> QED
    BY <2>1, Zenon DEF PointerEncoded
<1>4. CASE encoder_result # request.cells[1].value
  <2>1. Refuse(request, "BAD_POINTER")
    BY <1>4, Zenon DEF finish_deref_pointer
  <2>2. "BAD_POINTER" \in FaultStatus
    BY FaultCodes
  <2> QED
    BY <2>1, <2>2, <1>3, <1>4, RefusalSettles
<1>5. CASE encoder_result = request.cells[1].value /\ request.opcode = "DEREF_CELL"
  <2> DEFINE full ==
        IF target.present /\ ~local.present
        THEN [scratch EXCEPT !.writes = WriteOf(scratch.accesses[3], target.value)]
        ELSE IF local.present /\ ~target.present
        THEN [scratch EXCEPT !.writes = WriteOf(scratch.accesses[2], local.value)]
        ELSE IF ~local.present
        THEN [scratch EXCEPT !.deferred = <<[target |-> scratch.accesses[2],
                                             local |-> scratch.accesses[3]]>>]
        ELSE scratch
  <2>1. ReconcileCells(scratch)
    BY <1>5, Zenon DEF finish_deref_pointer
  <2>2. execute(request)
          = IF target.present /\ local.present /\ target.value # local.value
            THEN Fault("DEREF_MISMATCH") ELSE Outcome(full)
    BY <1>3, <1>5, Zenon DEF Reconciled
  <2>3. IF target.present /\ local.present /\ target.value # local.value
        THEN Refuse(request, "DEREF_MISMATCH") ELSE emit_result(full)
    <3>1. request.profile # FORWARD_ONLY
      BY <1>2 DEF INTERPRETER_COMPAT, FORWARD_ONLY
    <3> QED
      BY <2>1, <3>1, Zenon DEF ReconcileCells
  <2>4. full \in Decisions /\ full.request = request
    <3>1. LET e == [scratch EXCEPT !.writes = WriteOf(scratch.accesses[3], target.value)] IN
          e \in Decisions /\ e.request = scratch.request
      BY ONLY <1>2, DecisionWrite, Zenon
    <3>2. LET e == [scratch EXCEPT !.writes = WriteOf(scratch.accesses[2], local.value)] IN
          e \in Decisions /\ e.request = scratch.request
      BY ONLY <1>2, DecisionWrite, Zenon
    <3>3. LET e == [scratch EXCEPT !.deferred = <<[target |-> scratch.accesses[2],
                                                   local |-> scratch.accesses[3]]>>] IN
          e \in Decisions /\ e.request = scratch.request
      BY ONLY <1>2, DecisionDefer, Zenon
    <3> QED
      BY <1>2, <3>1, <3>2, <3>3, Zenon
  <2>5. "DEREF_MISMATCH" \in FaultStatus
    BY FaultCodes
  <2> HIDE DEF full
  <2>6. CASE target.present /\ local.present /\ target.value # local.value
    BY <2>2, <2>3, <2>5, <2>6, RefusalSettles
  <2>7. CASE ~(target.present /\ local.present /\ target.value # local.value)
    BY <2>2, <2>3, <2>4, <2>7, OfferSettles
  <2> QED
    BY <2>6, <2>7
<1>6. CASE encoder_result = request.cells[1].value /\ request.opcode # "DEREF_CELL"
  <2> DEFINE index == DerefIndex(request)
  <2>1. StartEncoder(index % INDEX_LIMIT, "C_DEREF_VALUE", scratch)
    <3>1. frame_opcode = request.opcode
      OBVIOUS
    <3>2. StartEncoder(IF request.opcode = "DEREF_PC" THEN (request.pc + 2) % INDEX_LIMIT
                       ELSE request.fp % INDEX_LIMIT, "C_DEREF_VALUE", scratch)
      BY <1>6, <3>1, Zenon DEF finish_deref_pointer
    <3> QED
      BY <3>2, Zenon DEF DerefIndex
  <2>2. index \in Nat /\ ~(index >= INDEX_LIMIT)
    <3>1. IsRequest(request)
      BY <1>2, RequestAssumption
    <3>2. request.pc \in Nat /\ request.fp \in Nat
      BY <3>1, Zenon DEF IsRequest
    <3>3. index \in Nat
      BY <3>2 DEF DerefIndex
    <3>4. index < INDEX_LIMIT
      BY <1>2, <1>6
    <3> HIDE DEF index
    <3> QED
      BY <3>3, <3>4, U32Assumption
  <2>3. execute(request) = ValueStored(scratch, field_encode(index))
    BY <1>3, <1>6, Zenon
  <2>4. "C_DEREF_VALUE" \in {"C_DEREF_VALUE", "C_JUMP_PC", "C_JUMP_FP"}
    OBVIOUS
  <2> HIDE DEF index
  <2> QED
    BY <2>1, <2>2, <2>3, <2>4, <1>1, EncoderSettles, Zenon
<1> QED
  BY <1>2, <1>4, <1>5, <1>6

\* Every arm of the ladder on a datapath decides as the rules do.
LEMMA DatapathSettles ==
  ASSUME ReceiverInv, ScratchInv, DatapathInv, DatapathDone
  PROVE  /\ compute # C_IDLE /\ scratch.request \in Requests
         /\ scratch.request.opcode \in ScalarOpcodes
         /\ Settles(scratch.request)
<1>1. compute # C_IDLE
  BY DEF DatapathDone, finish_deref_pointer, DerefValueDone, JumpPcDone, JumpFpDone,
         JumpInverseDone, SetDone, XorSolveDone, VerifyInverseDone, SolveDone, ForwardDone,
         C_IDLE
<1>2. frame_opcode = scratch.request.opcode
  BY <1>1, Zenon DEF ReceiverInv
<1>3. Settles(scratch.request)
  BY <1>1, <1>2, DerefPointerSettles, DerefValueSettles, JumpPcSettles, JumpFpSettles,
     JumpInverseSettles, SetSettles, XorSolveSettles, VerifyInverseSettles, MulSolveSettles,
     ForwardSettles, Zenon DEF DatapathDone
<1> QED
  BY <1>1, <1>3, InFlight

\* Decoding a scalar instruction that passed the guard settles it.
LEMMA DecodeSettles ==
  ASSUME NEW request, Placed(request), request.opcode \in ScalarOpcodes, Decode(request)
  PROVE  Settles(request)
<1>1. CASE request.opcode = "SET_CONSTANT"
  <2>1. DecodeSet(request)
    BY <1>1, Zenon DEF Decode
  <2> QED
    BY <1>1, <2>1, SetDecodes
<1>2. CASE request.opcode \in {"DEREF_CELL", "DEREF_PC", "DEREF_FP"}
  <2>1. DecodeDeref(request)
    BY <1>2 DEF Decode
  <2> QED
    BY <1>2, <2>1, DerefDecodes
<1>3. CASE request.opcode = "JUMP"
  <2>1. DecodeJump(request)
    BY <1>3 DEF Decode
  <2> QED
    BY <1>3, <2>1, JumpDecodes
<1>4. CASE request.opcode \in {"XOR", "MUL_NATIVE"}
  <2>1. DecodeBinary(request)
    BY <1>4 DEF Decode
  <2> QED
    BY <1>4, <2>1, BinaryDecodes
<1> QED
  BY <1>1, <1>2, <1>3, <1>4 DEF ScalarOpcodes

-----------------------------------------------------------------------------
(* The BLAKE3 service                                                      *)

\* Four addresses after a sequence.
LEMMA FourAfter ==
  ASSUME NEW s \in Seq(Nat), NEW a, NEW b, NEW c, NEW d, NEW t, t = s \o <<a, b, c, d>>,
         NEW n, n = Len(s)
  PROVE  /\ DOMAIN t = 1..(n + 4)
         /\ \A i \in 1..n : t[i] = s[i]
         /\ t[n + 1] = a /\ t[n + 2] = b /\ t[n + 3] = c /\ t[n + 4] = d
  OBVIOUS

\* The positions in it.
LEMMA FourPositions ==
  ASSUME NEW n \in Nat
  PROVE  /\ \A i \in 1..(n + 4) : \/ i \in 1..n
                                  \/ i = n + 1 \/ i = n + 2 \/ i = n + 3 \/ i = n + 4
         /\ \A i \in 1..n : i \in 1..(n + 4) /\ i <= n
         /\ {n + 1, n + 2, n + 3, n + 4} \subseteq 1..(n + 4)
         /\ ~(n + 1 <= n) /\ ~(n + 3 <= n)
         /\ n + 4 - 3 = n + 1 /\ n + 4 - 2 = n + 2 /\ n + 4 - 1 = n + 3
         /\ n + 1 # n + 3
  OBVIOUS

\* What the validator says of a BLAKE3 request.
LEMMA ServiceShape ==
  ASSUME NEW request, Placed(request), request.opcode = "BLAKE3_REQUEST"
  PROVE  LET n == Len(request.message_offsets) IN
         /\ n \in Nat /\ request.message_offsets \in Seq(Nat)
         /\ \A i \in 1..n : request.message_offsets[i] \in Nat
         /\ DOMAIN request.message_offsets = 1..n
         /\ request.fp \in Nat /\ request.cv_offset \in Nat /\ request.out_offset \in Nat
         /\ request.cells \in [1..(n + 4) -> Cell] /\ Len(request.cells) = n + 4
<1> DEFINE n == Len(request.message_offsets)
<1>1. /\ request.message_offsets \in Seq(Nat)
      /\ request.fp \in Nat /\ request.cv_offset \in Nat /\ request.out_offset \in Nat
      /\ request.cells \in [1..(n + 4) -> Cell]
  <2>1. IsRequest(request)
    BY RequestAssumption DEF Placed
  <2> QED
    BY <2>1, Zenon DEF IsRequest
<1>2. n \in Nat /\ DOMAIN request.message_offsets = 1..n
      /\ \A i \in 1..n : request.message_offsets[i] \in Nat
  BY <1>1
<1> HIDE DEF n
<1>3. Len(request.cells) = n + 4
  <2>1. n + 4 \in Nat
    BY <1>2
  <2>2. \A m \in Nat : request.cells \in [1..m -> Cell] => Len(request.cells) = m
    BY SeqOfFunction, Zenon
  <2> QED
    BY <1>1, <2>1, <2>2, Zenon
<1> QED
  BY <1>1, <1>2, <1>3, Zenon DEF n

\* The addresses of a BLAKE3 request, one by one.
LEMMA ServiceAddresses ==
  ASSUME NEW request, Placed(request), request.opcode = "BLAKE3_REQUEST"
  PROVE  LET n   == Len(request.message_offsets)
             all == blake3_addresses(request)
         IN  /\ DOMAIN all = 1..(n + 4) /\ Len(all) = n + 4
             /\ all \in [1..(n + 4) -> Nat]
             /\ \A i \in 1..n : all[i] = request.fp + request.message_offsets[i]
             /\ all[n + 1] = request.fp + request.cv_offset
             /\ all[n + 2] = request.fp + request.cv_offset + 1
             /\ all[n + 3] = request.fp + request.out_offset
             /\ all[n + 4] = request.fp + request.out_offset + 1
<1> DEFINE n    == Len(request.message_offsets)
           head == Addresses(request.fp, request.message_offsets)
           cv   == request.fp + request.cv_offset
           out  == request.fp + request.out_offset
           all  == blake3_addresses(request)
<1>1. /\ n \in Nat /\ DOMAIN request.message_offsets = 1..n
      /\ \A i \in 1..n : request.message_offsets[i] \in Nat
      /\ request.fp \in Nat
  BY ServiceShape, Zenon
<1>2. head = [i \in 1..n |-> request.fp + request.message_offsets[i]]
  BY <1>1, Zenon DEF Addresses
<1>3. head \in [1..n -> Nat]
  BY <1>1, <1>2
<1> HIDE DEF head, n
<1>4. head \in Seq(Nat) /\ Len(head) = n
  BY <1>1, <1>3, SeqOfFunction
<1>5. all = head \o <<cv, cv + 1, out, out + 1>>
  BY DEF blake3_addresses, head
<1> HIDE DEF cv, out, all
<1>6. /\ DOMAIN all = 1..(n + 4)
      /\ \A i \in 1..n : all[i] = head[i]
      /\ all[n + 1] = cv /\ all[n + 2] = cv + 1 /\ all[n + 3] = out /\ all[n + 4] = out + 1
  <2>1. head \in Seq(Nat) /\ n = Len(head)
    BY <1>4
  <2> QED
    BY ONLY <2>1, <1>5, FourAfter
<1>7. all \in Seq(Nat) /\ Len(all) = n + 4
  <2>1. cv \in Nat /\ out \in Nat
    <3>1. request.cv_offset \in Nat /\ request.out_offset \in Nat
      BY ServiceShape, Zenon
    <3> QED
      BY <1>1, <3>1 DEF cv, out
  <2>2. <<cv, cv + 1, out, out + 1>> \in Seq(Nat) /\ Len(<<cv, cv + 1, out, out + 1>>) = 4
    BY <2>1
  <2>3. all \in Seq(Nat) /\ Len(all) = Len(head) + Len(<<cv, cv + 1, out, out + 1>>)
    BY <1>4, <1>5, <2>2, ConcatType
  <2> QED
    BY <1>4, <2>2, <2>3
<1>8. all \in [1..(n + 4) -> Nat]
  BY <1>6, <1>7
<1> QED
  BY <1>1, <1>2, <1>6, <1>7, <1>8 DEF n, cv, out, all

\* An offset against the room above the frame pointer, and the sum.
LEMMA RoomSum ==
  ASSUME NEW base \in Nat, NEW offset \in Nat
  PROVE  /\ offset > U32_MAX - base <=> base + offset > U32_MAX
         /\ offset >= U32_MAX - base <=> base + offset + 1 > U32_MAX
         /\ base + offset > U32_MAX => base + offset + 1 > U32_MAX
  BY U32Assumption

\* lsc1_packet_frontend compares each offset with the room above the frame
\* pointer; the rules compare the sums.
LEMMA ServiceRoom ==
  ASSUME NEW request, Placed(request), request.opcode = "BLAKE3_REQUEST"
  PROVE  LET room == U32_MAX - request.fp
             all  == blake3_addresses(request)
         IN  /\ (\/ \E i \in DOMAIN request.message_offsets :
                       request.message_offsets[i] > room
                 \/ request.cv_offset >= room
                 \/ request.out_offset >= room) <=> Overflows(all)
             /\ ~Overflows(all) => all \in [DOMAIN all -> 0..U32_MAX]
<1> DEFINE n    == Len(request.message_offsets)
           room == U32_MAX - request.fp
           all  == blake3_addresses(request)
           far  == \/ \E i \in DOMAIN request.message_offsets :
                         request.message_offsets[i] > room
                   \/ request.cv_offset >= room
                   \/ request.out_offset >= room
<1>1. /\ n \in Nat /\ DOMAIN request.message_offsets = 1..n
      /\ \A i \in 1..n : request.message_offsets[i] \in Nat
      /\ request.fp \in Nat /\ request.cv_offset \in Nat /\ request.out_offset \in Nat
      /\ U32_MAX \in Nat
  BY ServiceShape, U32Assumption, Zenon
<1>2. /\ DOMAIN all = 1..(n + 4) /\ all \in [1..(n + 4) -> Nat]
      /\ \A i \in 1..n : all[i] = request.fp + request.message_offsets[i]
      /\ all[n + 1] = request.fp + request.cv_offset
      /\ all[n + 2] = request.fp + request.cv_offset + 1
      /\ all[n + 3] = request.fp + request.out_offset
      /\ all[n + 4] = request.fp + request.out_offset + 1
  BY ServiceAddresses, Zenon
<1> HIDE DEF n, all
<1>3. /\ \A i \in 1..n : request.message_offsets[i] > room <=> all[i] > U32_MAX
      /\ request.cv_offset >= room <=> all[n + 2] > U32_MAX
      /\ request.out_offset >= room <=> all[n + 4] > U32_MAX
      /\ all[n + 1] > U32_MAX => all[n + 2] > U32_MAX
      /\ all[n + 3] > U32_MAX => all[n + 4] > U32_MAX
  BY <1>1, <1>2, RoomSum, Zenon
<1>4. /\ \A i \in 1..(n + 4) : \/ i \in 1..n
                               \/ i = n + 1 \/ i = n + 2 \/ i = n + 3 \/ i = n + 4
      /\ \A i \in 1..n : i \in 1..(n + 4)
      /\ n + 2 \in 1..(n + 4) /\ n + 4 \in 1..(n + 4)
  BY <1>1, FourPositions
<1>5. far <=> Overflows(all)
  BY <1>1, <1>2, <1>3, <1>4, Zenon DEF Overflows
<1>6. ~Overflows(all) => all \in [DOMAIN all -> 0..U32_MAX]
  <2>1. ASSUME ~Overflows(all), NEW i \in 1..(n + 4) PROVE all[i] \in 0..U32_MAX
    <3>1. ~(all[i] > U32_MAX)
      BY <1>2, <2>1, Zenon DEF Overflows
    <3>2. all[i] \in Nat
      BY <1>2
    <3> QED
      BY <3>1, <3>2, <1>1
  <2> QED
    BY <1>2, <2>1
<1> QED
  BY <1>5, <1>6 DEF all

\* lsc1_blake3_alias_check compares offsets, the rules addresses: without
\* overflow the common base cancels.
LEMMA ServiceAlias ==
  ASSUME NEW request, Placed(request), request.opcode = "BLAKE3_REQUEST",
         ~Overflows(blake3_addresses(request))
  PROVE  BlakeAliasInconsistent(request)
           <=> AliasInconsistent(blake3_addresses(request), request.cells)
<1> DEFINE n    == Len(request.message_offsets)
           all  == blake3_addresses(request)
           cv   == request.cv_offset
           out  == request.out_offset
           offsets == request.message_offsets
                        \o <<cv, Add32(cv, 1), out, Add32(out, 1)>>
<1>1. /\ n \in Nat /\ request.message_offsets \in Seq(Nat)
      /\ \A i \in 1..n : request.message_offsets[i] \in Nat
      /\ request.fp \in Nat /\ cv \in Nat /\ out \in Nat /\ U32_MAX \in Nat
  BY ServiceShape, U32Assumption, Zenon
<1>2. /\ DOMAIN all = 1..(n + 4)
      /\ \A i \in 1..n : all[i] = request.fp + request.message_offsets[i]
      /\ all[n + 1] = request.fp + cv /\ all[n + 2] = request.fp + cv + 1
      /\ all[n + 3] = request.fp + out /\ all[n + 4] = request.fp + out + 1
  BY ServiceAddresses, Zenon
<1>3. \A i \in 1..(n + 4) : all[i] \in 0..U32_MAX
  BY <1>2, ServiceRoom, Zenon
<1>4. /\ DOMAIN offsets = 1..(n + 4)
      /\ \A i \in 1..n : offsets[i] = request.message_offsets[i]
      /\ offsets[n + 1] = cv /\ offsets[n + 2] = Add32(cv, 1)
      /\ offsets[n + 3] = out /\ offsets[n + 4] = Add32(out, 1)
  <2> DEFINE cv1 == Add32(cv, 1)
             out1 == Add32(out, 1)
  <2>1. offsets = request.message_offsets \o <<cv, cv1, out, out1>>
    OBVIOUS
  <2> HIDE DEF cv, out, cv1, out1, offsets
  <2>2. request.message_offsets \in Seq(Nat) /\ n = Len(request.message_offsets)
    BY <1>1
  <2> HIDE DEF n
  <2>3. /\ DOMAIN offsets = 1..(n + 4)
        /\ \A i \in 1..n : offsets[i] = request.message_offsets[i]
        /\ offsets[n + 1] = cv /\ offsets[n + 2] = cv1
        /\ offsets[n + 3] = out /\ offsets[n + 4] = out1
    BY ONLY <2>1, <2>2, FourAfter
  <2> QED
    BY <2>3 DEF cv1, out1
<1> HIDE DEF n, all, cv, out, offsets
<1>5. /\ \A i \in 1..(n + 4) : \/ i \in 1..n
                               \/ i = n + 1 \/ i = n + 2 \/ i = n + 3 \/ i = n + 4
      /\ n + 2 \in 1..(n + 4) /\ n + 4 \in 1..(n + 4)
  BY <1>1, FourPositions
<1>6. Add32(cv, 1) = cv + 1 /\ Add32(out, 1) = out + 1
  <2>1. all[n + 2] <= U32_MAX /\ all[n + 4] <= U32_MAX
    BY <1>3, <1>5, <1>1
  <2>2. request.fp + cv + 1 <= U32_MAX /\ request.fp + out + 1 <= U32_MAX
    BY <2>1, <1>2, Zenon
  <2>3. ASSUME NEW f \in Nat, NEW o \in Nat, f + o + 1 <= U32_MAX
        PROVE  Add32(o, 1) = o + 1
    BY <2>3, U32Assumption DEF Add32
  <2> QED
    BY <1>1, <2>2, <2>3, Zenon
<1>7. /\ \A i \in 1..(n + 4) : offsets[i] \in Nat /\ all[i] = request.fp + offsets[i]
  <2>1. ASSUME NEW i \in 1..n
        PROVE  offsets[i] \in Nat /\ all[i] = request.fp + offsets[i]
    BY <1>1, <1>2, <1>4
  <2>2. /\ offsets[n + 1] \in Nat /\ all[n + 1] = request.fp + offsets[n + 1]
        /\ offsets[n + 3] \in Nat /\ all[n + 3] = request.fp + offsets[n + 3]
    BY <1>1, <1>2, <1>4
  <2>3. /\ offsets[n + 2] \in Nat /\ all[n + 2] = request.fp + offsets[n + 2]
        /\ offsets[n + 4] \in Nat /\ all[n + 4] = request.fp + offsets[n + 4]
    <3>1. \A f, o \in Nat : f + o + 1 = f + (o + 1) /\ o + 1 \in Nat
      OBVIOUS
    <3>2. /\ request.fp + cv + 1 = request.fp + (cv + 1) /\ cv + 1 \in Nat
          /\ request.fp + out + 1 = request.fp + (out + 1) /\ out + 1 \in Nat
      BY <3>1, <1>1, Zenon
    <3>3. offsets[n + 2] = cv + 1 /\ offsets[n + 4] = out + 1
      BY <1>4, <1>6, Zenon
    <3> QED
      BY <3>2, <3>3, <1>2, Zenon
  <2> QED
    BY <2>1, <2>2, <2>3, <1>5, Zenon
<1>8. \A i, j \in 1..(n + 4) : offsets[i] = offsets[j] <=> all[i] = all[j]
  <2>1. TAKE i, j \in 1..(n + 4)
  <2>2. /\ offsets[i] \in Nat /\ all[i] = request.fp + offsets[i]
        /\ offsets[j] \in Nat /\ all[j] = request.fp + offsets[j]
    BY <1>7
  <2> QED
    BY <2>2, <1>1
<1>9. AliasInconsistent(offsets, request.cells) <=> AliasInconsistent(all, request.cells)
  BY <1>2, <1>4, <1>8 DEF AliasInconsistent
<1>10. CellAliasInconsistent(offsets, request.cells)
         <=> AliasInconsistent(offsets, request.cells)
  <2>1. n + 4 \in Nat
    BY <1>1
  <2> QED
    BY <2>1, <1>4, AliasCheck
<1>11. BlakeAliasInconsistent(request) <=> CellAliasInconsistent(offsets, request.cells)
  BY Zenon DEF BlakeAliasInconsistent, offsets, cv, out
<1> QED
  BY <1>9, <1>10, <1>11 DEF all

\* The companion addresses complete the bases into the rules' accesses.
LEMMA ServiceCompanions ==
  ASSUME NEW request, Placed(request), request.opcode = "BLAKE3_REQUEST",
         ~Overflows(blake3_addresses(request))
  PROVE  Companions(ServiceBases(request)) = blake3_addresses(request)
<1> DEFINE n     == Len(request.message_offsets)
           all   == blake3_addresses(request)
           fp    == request.fp
           cv    == request.cv_offset
           out   == request.out_offset
           bases == ServiceBases(request)
<1>1. /\ n \in Nat
      /\ \A i \in 1..n : request.message_offsets[i] \in Nat
      /\ fp \in Nat /\ cv \in Nat /\ out \in Nat /\ U32_MAX \in Nat
  BY ServiceShape, U32Assumption, Zenon
<1>2. /\ DOMAIN all = 1..(n + 4) /\ all \in [1..(n + 4) -> Nat]
      /\ \A i \in 1..n : all[i] = fp + request.message_offsets[i]
      /\ all[n + 1] = fp + cv /\ all[n + 2] = fp + cv + 1
      /\ all[n + 3] = fp + out /\ all[n + 4] = fp + out + 1
  BY ServiceAddresses, Zenon
<1>3. \A i \in 1..(n + 4) : all[i] \in 0..U32_MAX
  BY <1>2, ServiceRoom, Zenon
<1>4. bases = [i \in 1..(n + 4) |->
                 CASE i <= n     -> Add32(fp, request.message_offsets[i])
                   [] i = n + 1  -> Add32(fp, cv)
                   [] i = n + 3  -> Add32(fp, out)
                   [] OTHER      -> service.access[i]]
  BY DEF ServiceBases
<1> HIDE DEF n, all, fp, cv, out, bases
<1>5. /\ \A i \in 1..(n + 4) : \/ i \in 1..n
                               \/ i = n + 1 \/ i = n + 2 \/ i = n + 3 \/ i = n + 4
      /\ \A i \in 1..n : i \in 1..(n + 4) /\ i <= n
      /\ n + 1 \in 1..(n + 4) /\ n + 2 \in 1..(n + 4)
      /\ n + 3 \in 1..(n + 4) /\ n + 4 \in 1..(n + 4)
      /\ ~(n + 1 <= n) /\ ~(n + 3 <= n) /\ n + 1 # n + 3
      /\ n + 4 - 3 = n + 1 /\ n + 4 - 2 = n + 2 /\ n + 4 - 1 = n + 3
  BY <1>1, FourPositions, Zenon
<1>6. ASSUME NEW a \in Nat, NEW b \in Nat, NEW c \in Nat, c = a + b, c \in 0..U32_MAX
      PROVE  Add32(a, b) = c
  BY <1>6, U32Assumption DEF Add32
<1>7. /\ \A i \in 1..n : Add32(fp, request.message_offsets[i]) = all[i]
      /\ Add32(fp, cv) = all[n + 1] /\ Add32(all[n + 1], 1) = all[n + 2]
      /\ Add32(fp, out) = all[n + 3] /\ Add32(all[n + 3], 1) = all[n + 4]
  <2>1. \A i \in 1..(n + 4) : all[i] \in Nat
    BY <1>2
  <2>2. 1 \in Nat /\ all[n + 2] = all[n + 1] + 1 /\ all[n + 4] = all[n + 3] + 1
    BY <1>2, Zenon
  <2>3. ASSUME NEW i \in 1..n PROVE Add32(fp, request.message_offsets[i]) = all[i]
    <3>1. /\ request.message_offsets[i] \in Nat
          /\ all[i] = fp + request.message_offsets[i] /\ all[i] \in 0..U32_MAX
          /\ all[i] \in Nat
      BY <1>1, <1>2, <1>3, <1>5, <2>1, <2>3, Zenon
    <3> QED
      BY <3>1, <1>1, <1>6, Zenon
  <2>4. Add32(fp, cv) = all[n + 1] /\ Add32(fp, out) = all[n + 3]
    <3>1. /\ all[n + 1] = fp + cv /\ all[n + 1] \in 0..U32_MAX /\ all[n + 1] \in Nat
          /\ all[n + 3] = fp + out /\ all[n + 3] \in 0..U32_MAX /\ all[n + 3] \in Nat
      BY <1>2, <1>3, <1>5, <2>1, Zenon
    <3> QED
      BY <3>1, <1>1, <1>6, Zenon
  <2>5. Add32(all[n + 1], 1) = all[n + 2] /\ Add32(all[n + 3], 1) = all[n + 4]
    <3>1. /\ all[n + 2] \in 0..U32_MAX /\ all[n + 4] \in 0..U32_MAX
          /\ all[n + 1] \in Nat /\ all[n + 2] \in Nat
          /\ all[n + 3] \in Nat /\ all[n + 4] \in Nat
      BY <1>3, <1>5, <2>1, Zenon
    <3> QED
      BY <3>1, <2>2, <1>6, Zenon
  <2> QED
    BY <2>3, <2>4, <2>5
<1>8. /\ \A i \in 1..n : bases[i] = all[i]
      /\ bases[n + 1] = all[n + 1] /\ bases[n + 3] = all[n + 3]
      /\ DOMAIN bases = 1..(n + 4)
      /\ bases = [i \in 1..(n + 4) |-> bases[i]]
  <2>1. ASSUME NEW i \in 1..n PROVE bases[i] = all[i]
    <3>1. bases[i] = Add32(fp, request.message_offsets[i])
      BY <1>4, <1>5, <2>1, Zenon
    <3> QED
      BY <1>7, <3>1
  <2>2. bases[n + 1] = all[n + 1]
    <3>1. bases[n + 1] = Add32(fp, cv)
      BY <1>4, <1>5, Zenon
    <3> QED
      BY <1>7, <3>1
  <2>3. bases[n + 3] = all[n + 3]
    <3>1. bases[n + 3] = Add32(fp, out)
      BY <1>4, <1>5, Zenon
    <3> QED
      BY <1>7, <3>1
  <2> QED
    BY <2>1, <2>2, <2>3, <1>4, Zenon
<1>9. Len(bases) = n + 4
  <2>1. bases \in [1..(n + 4) -> {bases[i] : i \in 1..(n + 4)}]
    BY <1>8
  <2>2. n + 4 \in Nat
    BY <1>1
  <2>3. \A m \in Nat : \A S : bases \in [1..m -> S] => Len(bases) = m
    BY SeqOfFunction, Zenon
  <2> QED
    BY <2>1, <2>2, <2>3, Zenon
<1>10. Companions(bases)
         = [bases EXCEPT ![n + 2] = Add32(all[n + 1], 1), ![n + 4] = Add32(all[n + 3], 1)]
  <2> DEFINE m == Len(bases)
  <2>1. Companions(bases)
          = [bases EXCEPT ![m - 2] = Add32(bases[m - 3], 1), ![m] = Add32(bases[m - 1], 1)]
    BY DEF Companions
  <2>2. m = n + 4
    BY <1>9
  <2> HIDE DEF m
  <2>3. m - 2 = n + 2 /\ m - 3 = n + 1 /\ m - 1 = n + 3
    BY ONLY <2>2, <1>1
  <2>4. bases[n + 1] = all[n + 1] /\ bases[n + 3] = all[n + 3]
    BY <1>8
  <2>5. Add32(bases[m - 3], 1) = Add32(all[n + 1], 1)
        /\ Add32(bases[m - 1], 1) = Add32(all[n + 3], 1)
    BY ONLY <2>3, <2>4, Zenon
  <2>6. \A i, j, x, y : i = n + 2 /\ j = n + 4
          /\ x = Add32(all[n + 1], 1) /\ y = Add32(all[n + 3], 1)
          => [bases EXCEPT ![i] = x, ![j] = y]
               = [bases EXCEPT ![n + 2] = Add32(all[n + 1], 1),
                               ![n + 4] = Add32(all[n + 3], 1)]
    OBVIOUS
  <2> QED
    BY ONLY <2>1, <2>2, <2>3, <2>5, <2>6, Zenon
<1>11. Companions(bases) = [bases EXCEPT ![n + 2] = all[n + 2], ![n + 4] = all[n + 4]]
  BY <1>7, <1>10
<1>12. ASSUME NEW i \in 1..(n + 4) PROVE Companions(bases)[i] = all[i]
  BY <1>1, <1>5, <1>8, <1>11
<1>13. /\ DOMAIN Companions(bases) = 1..(n + 4)
       /\ Companions(bases) = [i \in 1..(n + 4) |-> Companions(bases)[i]]
  BY <1>8, <1>11
<1>14. all = [i \in 1..(n + 4) |-> all[i]]
  BY <1>2
<1>15. Companions(bases) = all
  BY <1>12, <1>13, <1>14
<1> QED
  BY <1>15 DEF all, bases

\* The ladder of _execute_blake3, on its guards alone.
LEMMA ServiceLadder ==
  ASSUME NEW request, Placed(request), request.opcode = "BLAKE3_REQUEST"
  PROVE  LET all == blake3_addresses(request) IN
         execute(request) =
           IF ~request.metadata_valid THEN Fault("BAD_SERVICE")
           ELSE IF Overflows(all) THEN Fault("U32_OVERFLOW")
           ELSE IF AliasInconsistent(all, request.cells) THEN Fault("ALIAS_INCONSISTENT")
           ELSE IF request.pc = INDEX_LIMIT - 1 THEN Fault("INDEX_RANGE")
           ELSE [status |-> "SERVICE_REQUIRED", next_pc |-> request.pc + 1,
                 next_fp |-> request.fp, accesses |-> all,
                 frame |-> Frame(all, request.cells),
                 operands |-> [i \in 1..(Len(all) - 2) |->
                                  Read(Frame(all, request.cells), all[i])]]
<1>1. execute(request) = execute_blake3(request)
  BY DEF execute
<1> QED
  BY <1>1, Zenon DEF execute_blake3

\* The frontend's ladder on the same guards.
LEMMA ServiceGuards ==
  ASSUME NEW request, Placed(request), request.opcode = "BLAKE3_REQUEST",
         ~(life.service_seq >= ServiceSeqMax)
  PROVE  LET all == blake3_addresses(request) IN
         BlakeFault(request) =
           IF ~request.metadata_valid THEN "BAD_SERVICE"
           ELSE IF Overflows(all) THEN "U32_OVERFLOW"
           ELSE IF AliasInconsistent(all, request.cells) THEN "ALIAS_INCONSISTENT"
           ELSE IF request.pc = INDEX_LIMIT - 1 THEN "INDEX_RANGE"
           ELSE "OK"
<1> DEFINE all  == blake3_addresses(request)
           room == U32_MAX - request.fp
           far  == \/ \E i \in DOMAIN request.message_offsets :
                         request.message_offsets[i] > room
                   \/ request.cv_offset >= room
                   \/ request.out_offset >= room
           aliased == BlakeAliasInconsistent(request)
<1>1. BlakeFault(request) =
           IF ~request.metadata_valid THEN "BAD_SERVICE"
           ELSE IF far THEN "U32_OVERFLOW"
           ELSE IF aliased THEN "ALIAS_INCONSISTENT"
           ELSE IF request.pc = INDEX_LIMIT - 1 THEN "INDEX_RANGE"
           ELSE "OK"
  BY Zenon DEF BlakeFault
<1>2. far <=> Overflows(all)
  BY ServiceRoom, Zenon
<1>3. ~Overflows(all) => (aliased <=> AliasInconsistent(all, request.cells))
  BY ServiceAlias, Zenon
<1> HIDE DEF far, aliased, all
<1>4. BlakeFault(request) =
           IF ~request.metadata_valid THEN "BAD_SERVICE"
           ELSE IF Overflows(all) THEN "U32_OVERFLOW"
           ELSE IF AliasInconsistent(all, request.cells) THEN "ALIAS_INCONSISTENT"
           ELSE IF request.pc = INDEX_LIMIT - 1 THEN "INDEX_RANGE"
           ELSE "OK"
  BY <1>1, <1>2, <1>3
<1> QED
  BY <1>4, Zenon DEF all

\* The frontend refuses a service the rules refuse, and for one reason more:
\* the counter of service identifiers has run out.
LEMMA ServiceRefused ==
  ASSUME NEW request, Placed(request), request.opcode = "BLAKE3_REQUEST",
         BlakeFault(request) # "OK"
  PROVE  /\ BlakeFault(request) \in FaultStatus
         /\ ~(life.service_seq >= ServiceSeqMax) => Verdicts(request) = "FAULT"
<1>1. CASE life.service_seq >= ServiceSeqMax
  <2>1. BlakeFault(request) = "BAD_SERVICE"
    BY <1>1, Zenon DEF BlakeFault
  <2> QED
    BY <1>1, <2>1, FaultCodes
<1>2. CASE ~(life.service_seq >= ServiceSeqMax)
  <2> DEFINE all     == blake3_addresses(request)
             codes   == {"BAD_SERVICE", "U32_OVERFLOW", "ALIAS_INCONSISTENT", "INDEX_RANGE"}
  <2>1. \E code \in codes : BlakeFault(request) = code /\ execute(request) = Fault(code)
    BY <1>2, ServiceLadder, ServiceGuards, Zenon
  <2>2. codes \subseteq FaultStatus
    BY FaultCodes
  <2>3. PICK code \in FaultStatus : BlakeFault(request) = code /\ execute(request) = Fault(code)
    BY <2>1, <2>2, Zenon
  <2>4. Verdicts(request) = "FAULT"
    BY <2>3, FaultFields, Zenon DEF Verdicts
  <2> QED
    BY <2>3, <2>4
<1> QED
  BY <1>1, <1>2

\* What a suspended transition is.
LEMMA SuspendedRule ==
  ASSUME NEW request, Placed(request), request.opcode = "BLAKE3_REQUEST",
         execute(request).status = "SERVICE_REQUIRED"
  PROVE  LET all == blake3_addresses(request) IN
         /\ ~Overflows(all) /\ ~AliasInconsistent(all, request.cells)
         /\ request.pc # INDEX_LIMIT - 1
         /\ execute(request) =
              [status |-> "SERVICE_REQUIRED", next_pc |-> request.pc + 1,
               next_fp |-> request.fp, accesses |-> all,
               frame |-> Frame(all, request.cells),
               operands |-> [i \in 1..(Len(all) - 2) |->
                                Read(Frame(all, request.cells), all[i])]]
         /\ Verdicts(request) = "SERVICE"
<1> DEFINE all   == blake3_addresses(request)
           frame == Frame(all, request.cells)
           suspended == [status |-> "SERVICE_REQUIRED", next_pc |-> request.pc + 1,
                         next_fp |-> request.fp, accesses |-> all, frame |-> frame,
                         operands |-> [i \in 1..(Len(all) - 2) |-> Read(frame, all[i])]]
<1>1. execute(request) =
        IF ~request.metadata_valid THEN Fault("BAD_SERVICE")
        ELSE IF Overflows(all) THEN Fault("U32_OVERFLOW")
        ELSE IF AliasInconsistent(all, request.cells) THEN Fault("ALIAS_INCONSISTENT")
        ELSE IF request.pc = INDEX_LIMIT - 1 THEN Fault("INDEX_RANGE")
        ELSE suspended
  BY ServiceLadder, Zenon
<1> HIDE DEF all, suspended
<1>2. \A code \in {"BAD_SERVICE", "U32_OVERFLOW", "ALIAS_INCONSISTENT", "INDEX_RANGE"} :
         execute(request) # Fault(code)
  <2>1. ASSUME NEW code \in {"BAD_SERVICE", "U32_OVERFLOW", "ALIAS_INCONSISTENT", "INDEX_RANGE"}
        PROVE  execute(request) # Fault(code)
    <3>1. Fault(code).status = code /\ code # "SERVICE_REQUIRED"
      BY FaultFields
    <3> QED
      BY <3>1
  <2> QED
    BY <2>1
<1>3. /\ ~Overflows(all) /\ ~AliasInconsistent(all, request.cells)
      /\ request.pc # INDEX_LIMIT - 1 /\ execute(request) = suspended
  BY <1>1, <1>2, Zenon
<1>4. Verdicts(request) = "SERVICE"
  <2>1. execute(request).status \notin FaultStatus /\ execute(request).status # "OK"
    BY DEF FaultStatus
  <2> QED
    BY <2>1, Zenon DEF Verdicts
<1> QED
  BY <1>3, <1>4 DEF all, suspended

\* The frontend starts a service the rules suspend on.
LEMMA ServiceStarted ==
  ASSUME NEW request, Placed(request), request.opcode = "BLAKE3_REQUEST",
         BlakeFault(request) = "OK"
  PROVE  /\ ~(life.service_seq >= ServiceSeqMax)
         /\ execute(request).status = "SERVICE_REQUIRED"
<1>1. ~(life.service_seq >= ServiceSeqMax)
  BY DEF BlakeFault
<1>2. LET all == blake3_addresses(request) IN
      /\ request.metadata_valid /\ ~Overflows(all)
      /\ ~AliasInconsistent(all, request.cells) /\ request.pc # INDEX_LIMIT - 1
  BY <1>1, ServiceGuards
<1> QED
  BY <1>1, <1>2, ServiceLadder

\* The operands sent are the values in the request buffer.
LEMMA ServiceOperands ==
  ASSUME NEW request, Placed(request), request.opcode = "BLAKE3_REQUEST",
         execute(request).status = "SERVICE_REQUIRED"
  PROVE  execute(request).operands
           = [i \in 1..(Len(request.cells) - 2) |-> request.cells[i].value]
<1> DEFINE n     == Len(request.message_offsets)
           all   == blake3_addresses(request)
           frame == Frame(all, request.cells)
<1>1. n \in Nat /\ request.cells \in [1..(n + 4) -> Cell] /\ Len(request.cells) = n + 4
  BY ServiceShape, Zenon
<1>2. Len(all) = n + 4 /\ DOMAIN all = 1..(n + 4)
  BY ServiceAddresses, Zenon
<1>3. ~AliasInconsistent(all, request.cells)
  BY SuspendedRule, Zenon
<1>4. execute(request).operands = [i \in 1..(Len(all) - 2) |-> Read(frame, all[i])]
  <2>1. execute(request) =
              [status |-> "SERVICE_REQUIRED", next_pc |-> request.pc + 1,
               next_fp |-> request.fp, accesses |-> all, frame |-> frame,
               operands |-> [i \in 1..(Len(all) - 2) |-> Read(frame, all[i])]]
    BY SuspendedRule, Zenon
  <2> HIDE DEF all, frame
  <2> QED
    BY <2>1
<1>5. \A i \in DOMAIN all : frame[all[i]] = request.cells[i]
  BY ONLY <1>3, FrameAt, Zenon DEF frame
<1> HIDE DEF all, frame, n
<1>6. \A i \in 1..(n + 4) : Read(frame, all[i]) = request.cells[i].value
  <2>1. TAKE i \in 1..(n + 4)
  <2>2. frame[all[i]] = request.cells[i] /\ request.cells[i] \in Cell
    BY <1>1, <1>2, <1>5
  <2> QED
    BY <2>2, CellRead, Zenon
<1>7. Len(all) - 2 = Len(request.cells) - 2
      /\ \A i \in 1..(Len(all) - 2) : i \in 1..(n + 4)
  BY <1>1, <1>2
<1> QED
  BY <1>4, <1>6, <1>7

\* The digest is folded into the cells received as the rules fold it into the
\* frame of the suspended transition.
LEMMA ServiceResumes ==
  ASSUME NEW request, Placed(request), request.opcode = "BLAKE3_REQUEST",
         execute(request).status = "SERVICE_REQUIRED",
         service.access = execute(request).accesses,
         service.out = <<request.cells[Len(request.cells) - 1],
                         request.cells[Len(request.cells)]>>,
         NEW digest
  PROVE  LET suspended == execute(request)
             resumed   == resume_blake3(suspended.frame, suspended.accesses, digest)
         IN  /\ OutputConflict(digest) <=> resumed.status \in FaultStatus
             /\ ~OutputConflict(digest) => OutputWrites(digest) = resumed.writes
<1> DEFINE n     == Len(request.message_offsets)
           all   == blake3_addresses(request)
           frame == Frame(all, request.cells)
           out0  == all[n + 3]
           out1  == all[n + 4]
           cell0 == request.cells[n + 3]
           cell1 == request.cells[n + 4]
           first == WriteOnce(frame, out0, digest[1])
           suspended == execute(request)
           resumed   == resume_blake3(suspended.frame, suspended.accesses, digest)
<1>1. /\ n \in Nat /\ request.cells \in [1..(n + 4) -> Cell] /\ Len(request.cells) = n + 4
      /\ request.fp \in Nat /\ request.out_offset \in Nat
  BY ServiceShape, Zenon
<1>2. /\ Len(all) = n + 4 /\ DOMAIN all = 1..(n + 4)
      /\ all[n + 3] = request.fp + request.out_offset
      /\ all[n + 4] = request.fp + request.out_offset + 1
  BY ServiceAddresses, Zenon
<1>3. ~AliasInconsistent(all, request.cells)
  BY SuspendedRule, Zenon
<1>4. suspended.accesses = all /\ suspended.frame = frame
  <2>1. suspended =
              [status |-> "SERVICE_REQUIRED", next_pc |-> request.pc + 1,
               next_fp |-> request.fp, accesses |-> all, frame |-> frame,
               operands |-> [i \in 1..(Len(all) - 2) |-> Read(frame, all[i])]]
    BY SuspendedRule, Zenon
  <2> HIDE DEF all, frame, suspended
  <2> QED
    BY <2>1
<1>5. \A i \in DOMAIN all : frame[all[i]] = request.cells[i]
  BY ONLY <1>3, FrameAt, Zenon DEF frame
<1>6. DOMAIN frame = {all[i] : i \in DOMAIN all}
  BY DEF Frame
<1> HIDE DEF all, frame, suspended, n
<1>7. /\ n + 3 \in DOMAIN all /\ n + 4 \in DOMAIN all
      /\ n + 4 - 1 = n + 3
  BY <1>1, <1>2, FourPositions
<1>8. frame[out0] = cell0 /\ frame[out1] = cell1 /\ out0 \in DOMAIN frame
  BY <1>5, <1>6, <1>7
<1>9. out0 # out1
  <2>1. \A f, o \in Nat : f + o # f + o + 1
    OBVIOUS
  <2> QED
    BY <1>1, <1>2, <2>1, Zenon
<1>10. Out0 = out0 /\ Out1 = out1
  <2>1. service.access = all
    BY <1>4 DEF suspended
  <2>2. Len(service.access) = n + 4 /\ Len(service.access) - 1 = n + 3
    <3>1. Len(service.access) = n + 4
      BY ONLY <2>1, <1>2, Zenon
    <3> QED
      BY ONLY <3>1, <1>1
  <2> QED
    BY <2>1, <2>2, Zenon DEF Out0, Out1
<1>11. service.out[1] = cell0 /\ service.out[2] = cell1
  <2>1. Len(request.cells) - 1 = n + 3 /\ Len(request.cells) = n + 4
    <3>1. Len(request.cells) = n + 4
      BY <1>1, Zenon
    <3> QED
      BY ONLY <3>1, <1>1
  <2>2. /\ request.cells[Len(request.cells) - 1] = cell0
        /\ request.cells[Len(request.cells)] = cell1
    BY ONLY <2>1, Zenon
  <2> DEFINE u == request.cells[Len(request.cells) - 1]
             v == request.cells[Len(request.cells)]
  <2>3. service.out = <<u, v>>
    OBVIOUS
  <2>4. u = cell0 /\ v = cell1
    BY <2>2
  <2> HIDE DEF cell0, cell1, u, v
  <2> QED
    BY ONLY <2>3, <2>4
<1>12. all[Len(all) - 1] = out0 /\ all[Len(all)] = out1
  <2>1. Len(all) - 1 = n + 3 /\ Len(all) = n + 4
    <3>1. Len(all) = n + 4
      BY <1>2
    <3> QED
      BY ONLY <3>1, <1>1
  <2> QED
    BY ONLY <2>1, Zenon DEF out0, out1
<1> HIDE DEF out0, out1, cell0, cell1
<1>13. first[out1] = cell1
  <2>1. CASE frame[out0].present
    BY <2>1, <1>8 DEF WriteOnce
  <2>2. CASE ~frame[out0].present
    BY <2>2, <1>8, <1>9 DEF WriteOnce
  <2> QED
    BY <2>1, <2>2
<1> HIDE DEF first
<1>14. resumed = IF \/ WriteConflicts(frame, out0, digest[1])
                    \/ WriteConflicts(first, out1, digest[2])
                 THEN Fault("WRITE_CONFLICT")
                 ELSE [status |-> "OK",
                       writes |-> NewWrites(frame, out0, digest[1])
                                     \o NewWrites(first, out1, digest[2])]
  BY <1>4, <1>12, Zenon DEF resume_blake3, first
<1>15. OutputConflict(digest) <=> \/ WriteConflicts(frame, out0, digest[1])
                                  \/ WriteConflicts(first, out1, digest[2])
  BY <1>8, <1>9, <1>10, <1>11, <1>13, Zenon DEF OutputConflict, WriteConflicts
<1>16. OutputWrites(digest) = NewWrites(frame, out0, digest[1])
                                \o NewWrites(first, out1, digest[2])
  <2>1. NewWrites(frame, out0, digest[1])
          = IF cell0.present THEN <<>> ELSE WriteOf(out0, digest[1])
    BY <1>8, Zenon DEF NewWrites, WriteOf
  <2>2. NewWrites(first, out1, digest[2])
          = IF cell1.present THEN <<>> ELSE WriteOf(out1, digest[2])
    BY <1>13, Zenon DEF NewWrites, WriteOf
  <2>3. OutputWrites(digest)
          = (IF cell0.present THEN <<>> ELSE WriteOf(out0, digest[1]))
              \o (IF cell1.present \/ out0 = out1 THEN <<>> ELSE WriteOf(out1, digest[2]))
    BY <1>10, <1>11, Zenon DEF OutputWrites
  <2>4. (IF cell1.present \/ out0 = out1 THEN <<>> ELSE WriteOf(out1, digest[2]))
          = (IF cell1.present THEN <<>> ELSE WriteOf(out1, digest[2]))
    BY <1>9, Zenon
  <2> QED
    BY ONLY <2>1, <2>2, <2>3, <2>4, Zenon
<1>17. "OK" \notin FaultStatus /\ Fault("WRITE_CONFLICT").status \in FaultStatus
  BY FaultFields, FaultCodes
<1> HIDE DEF resumed
<1>18. OutputConflict(digest) <=> resumed.status \in FaultStatus
  BY <1>14, <1>15, <1>17
<1>19. ~OutputConflict(digest) => OutputWrites(digest) = resumed.writes
  BY <1>14, <1>15, <1>16
<1> QED
  BY <1>18, <1>19 DEF resumed, suspended

-----------------------------------------------------------------------------
(* The edge                                                                *)

\* Where an event finds the transmitter.
AtRest ==
    /\ ~tx_start /\ tx = "idle" /\ reply = NoReply
    /\ blake_pulse = "none" /\ capture_result_crc = FALSE
    /\ tx' = "idle" /\ tx_crc' = 0

\* The registers of the shell are kept, or forgotten with what they held.
LifeKept ==
    /\ life'.service_pending = life.service_pending
    /\ life'.result_pending = life.result_pending
    /\ life'.service_seq = life.service_seq
    /\ (life.service_pending \/ life.result_pending) =>
          /\ life'.txn_id = life.txn_id /\ life'.service_id = life.service_id
          /\ life'.next_pc = life.next_pc /\ life'.next_fp = life.next_fp

\* An event, or a datapath that is done, finds nothing on the wire.
LEMMA EventAtRest ==
  ASSUME ReceiverInv, TransmitterInv, PulseInv, CrcInv, TxEdge,
         compute # C_IDLE \/ rx.state \in {"frame", "fault"}
  PROVE  AtRest
<1>1. ~Responding
  BY DEF ReceiverInv, TransmitterInv
<1>2. ~tx_start /\ tx = "idle" /\ reply = NoReply
  BY <1>1, Zenon DEF Responding, TransmitterInv
<1>3. blake_pulse = "none"
  BY <1>2, Zenon DEF PulseInv
<1>4. capture_result_crc = FALSE
  BY <1>1, Zenon DEF CrcInv
<1>5. tx' = "idle" /\ tx_crc' = 0
  BY <1>2 DEF TxEdge
<1> QED
  BY <1>2, <1>3, <1>4, <1>5, Zenon DEF AtRest

\* The shell after an edge, register by register.
LEMMA LifeFields ==
  ASSUME LifeEdge
  PROVE  LET starts == blake_pulse = "start"
             held   == IF life.service_pending \/ life.result_pending THEN life
                       ELSE [LifeReset EXCEPT !.service_seq = life.service_seq]
         IN  /\ life' = [service_pending |-> life'.service_pending,
                   result_pending |-> life'.result_pending, txn_id |-> life'.txn_id,
                   service_id |-> life'.service_id, next_pc |-> life'.next_pc,
                   next_fp |-> life'.next_fp, crc |-> life'.crc,
                   service_seq |-> life'.service_seq, done_pulse |-> life'.done_pulse]
             /\ life'.service_pending
                  = (starts \/ (life.service_pending /\ blake_pulse \notin {"accept", "discard"}))
             /\ life'.result_pending = LifeResultPending
             /\ life'.txn_id = IF starts THEN blake_start.txn_id ELSE held.txn_id
             /\ life'.service_id = IF starts THEN life.service_seq + 1 ELSE held.service_id
             /\ life'.next_pc = IF starts THEN blake_start.next_pc ELSE held.next_pc
             /\ life'.next_fp = IF starts THEN blake_start.next_fp ELSE held.next_fp
             /\ life'.crc = IF tx = "done" /\ reply.kind = "blake_result"
                               /\ life.result_pending THEN tx_crc
                            ELSE IF blake_pulse \in {"start", "accept"} THEN 0
                            ELSE held.crc
             /\ life'.service_seq = IF starts THEN life.service_seq + 1 ELSE life.service_seq
             /\ life'.done_pulse = LifeDonePulse
<1> DEFINE starts == blake_pulse = "start"
           held   == IF life.service_pending \/ life.result_pending THEN life
                     ELSE [LifeReset EXCEPT !.service_seq = life.service_seq]
           sp == starts \/ (life.service_pending /\ blake_pulse \notin {"accept", "discard"})
           ti == IF starts THEN blake_start.txn_id ELSE held.txn_id
           si == IF starts THEN life.service_seq + 1 ELSE held.service_id
           np == IF starts THEN blake_start.next_pc ELSE held.next_pc
           nf == IF starts THEN blake_start.next_fp ELSE held.next_fp
           cr == IF tx = "done" /\ reply.kind = "blake_result"
                                     /\ life.result_pending THEN tx_crc
                                 ELSE IF blake_pulse \in {"start", "accept"} THEN 0
                                 ELSE held.crc
           sq == IF starts THEN life.service_seq + 1 ELSE life.service_seq
<1>1. life' = [service_pending |-> sp, result_pending |-> LifeResultPending,
               txn_id |-> ti, service_id |-> si, next_pc |-> np, next_fp |-> nf,
               crc |-> cr, service_seq |-> sq, done_pulse |-> LifeDonePulse]
  BY Zenon DEF LifeEdge
<1> HIDE DEF starts, held, sp, ti, si, np, nf, cr, sq
<1>2. /\ life'.txn_id = ti /\ life'.service_id = si /\ life'.next_pc = np
      /\ life'.next_fp = nf /\ life'.crc = cr /\ life'.service_seq = sq
  BY <1>1
<1>3. /\ life'.service_pending = sp
      /\ life'.result_pending = LifeResultPending
      /\ life'.done_pulse = LifeDonePulse
  BY <1>1, Zenon
<1>4. life' = [service_pending |-> life'.service_pending,
                   result_pending |-> life'.result_pending, txn_id |-> life'.txn_id,
                   service_id |-> life'.service_id, next_pc |-> life'.next_pc,
                   next_fp |-> life'.next_fp, crc |-> life'.crc,
                   service_seq |-> life'.service_seq, done_pulse |-> life'.done_pulse]
  BY <1>1, <1>2, <1>3, Zenon
<1> QED
  BY <1>2, <1>3, <1>4, Zenon DEF starts, held, sp, ti, si, np, nf, cr, sq

\* Without a pulse or a RETIRE the shell keeps what it holds.
LEMMA LifeStays ==
  ASSUME LifeInv, LifeEdge, blake_pulse = "none", ~blake_retire_attempt
  PROVE  LifeKept /\ life'.done_pulse = FALSE
<1>1. blake_pulse # "start" /\ blake_pulse \notin {"accept", "discard"}
  OBVIOUS
<1>2. life'.service_pending = life.service_pending
  <2>1. life'.service_pending
          = (blake_pulse = "start"
               \/ (life.service_pending /\ blake_pulse \notin {"accept", "discard"}))
    BY LifeFields, Zenon
  <2>2. life.service_pending \in BOOLEAN
    BY Zenon DEF LifeInv
  <2>3. life'.service_pending \in BOOLEAN /\ (life'.service_pending <=> life.service_pending)
    BY <1>1, <2>1, Zenon
  <2>4. \A a, b \in BOOLEAN : (a <=> b) => a = b
    OBVIOUS
  <2> QED
    BY <2>2, <2>3, <2>4, Zenon
<1>3. life'.result_pending = life.result_pending
  BY <1>1, LifeFields, Zenon DEF LifeResultPending
<1>4. life'.service_seq = life.service_seq
  BY <1>1, LifeFields, Zenon
<1>5. ASSUME life.service_pending \/ life.result_pending
      PROVE  /\ life'.txn_id = life.txn_id /\ life'.service_id = life.service_id
             /\ life'.next_pc = life.next_pc /\ life'.next_fp = life.next_fp
  BY <1>1, <1>5, LifeFields, Zenon
<1>6. life'.done_pulse = FALSE
  BY LifeFields, Zenon DEF LifeDonePulse
<1> QED
  BY <1>2, <1>3, <1>4, <1>5, <1>6, Zenon DEF LifeKept

\* The service arrays keep their shape.
Shaped(arrays) == arrays = [access |-> arrays.access, out |-> arrays.out,
                            writes |-> arrays.writes]

\* KeepBlake keeps that shape.
LEMMA ShapedService ==
  ASSUME Shaped(service), KeepBlake
  PROVE  Shaped(service)'
<1>1. Shaped(NoService)
  BY DEF Shaped, NoService
<1>2. ASSUME NEW x PROVE Shaped([service EXCEPT !.access = x])
  BY DEF Shaped
<1>3. service' \in {[service EXCEPT !.access = Companions(service.access)], service, NoService}
  BY Zenon DEF KeepBlake
<1>4. PICK s : s = service' /\ Shaped(s)
  BY <1>1, <1>2, <1>3, Zenon
<1> QED
  BY <1>4, Zenon DEF Shaped

\* The shell keeps its type.
LEMMA LifeTyped ==
  ASSUME LifeInv, PulseInv, LifeEdge, Shaped(service)'
  PROVE  LifeInv'
<1>1. life'.service_pending \in BOOLEAN
  BY LifeFields, Zenon DEF LifeInv
<1>2. life'.result_pending \in BOOLEAN
  <2>1. LifeResultPending \in BOOLEAN
    BY Zenon DEF LifeResultPending, LifeInv
  <2> QED
    BY <2>1, LifeFields, Zenon
<1>3. life'.service_seq \in 0..ServiceSeqMax
  <2>1. life'.service_seq = IF blake_pulse = "start" THEN life.service_seq + 1
                            ELSE life.service_seq
    BY LifeFields, Zenon
  <2>2. blake_pulse = "start" => life.service_seq < ServiceSeqMax
    BY Zenon DEF PulseInv
  <2>3. life.service_seq \in 0..ServiceSeqMax
    BY DEF LifeInv
  <2> QED
    BY <2>1, <2>2, <2>3, FrontendBounds
<1>4. life' = [service_pending |-> life'.service_pending,
                   result_pending |-> life'.result_pending, txn_id |-> life'.txn_id,
                   service_id |-> life'.service_id, next_pc |-> life'.next_pc,
                   next_fp |-> life'.next_fp, crc |-> life'.crc,
                   service_seq |-> life'.service_seq, done_pulse |-> life'.done_pulse]
  BY LifeFields, Zenon
<1> QED
  BY <1>1, <1>2, <1>3, <1>4, Zenon DEF LifeInv, Shaped

\* The shell's CRC is kept but for the edge on which a result has drained.
LEMMA LifeCrcStays ==
  ASSUME LifeEdge, blake_pulse = "none", tx # "done", life.result_pending
  PROVE  life'.crc = life.crc
<1>1. blake_pulse \notin {"start", "accept"}
  OBVIOUS
<1> QED
  BY <1>1, LifeFields, Zenon

-----------------------------------------------------------------------------
(* Steps that leave nothing held, and steps that hold what was held        *)

\* Neither computed, nor offered, nor suspended.
NothingHeld ==
    /\ compute = C_IDLE /\ scratch = None /\ alu = AluIdle /\ encoder = EncoderIdle
    /\ result_pending = FALSE /\ staged = None /\ capture_result_crc = FALSE
    /\ blake_pulse = "none" /\ ~life.service_pending /\ ~life.result_pending

\* With nothing held there is only the verdict to account for.
LEMMA NothingHeldStep ==
  ASSUME NothingHeld', LifeInv', asked' = None \/ asked' \in Questions, VerdictInv',
         tx' # "done", reply'.kind \notin {"result", "service", "blake_result"}
  PROVE  HeldInv'
<1>1. C_IDLE \notin AluStates /\ C_IDLE \notin EncoderStates
  BY DEF C_IDLE, AluStates, EncoderStates
<1>2. DatapathInv'
  BY <1>1, Zenon DEF NothingHeld, DatapathInv
<1>3. ScratchInv'
  BY Zenon DEF NothingHeld, ScratchInv
<1>4. PulseInv'
  BY DEF NothingHeld, PulseInv
<1>5. OneTransaction'
  BY DEF NothingHeld, OneTransaction
<1>6. ~Holding' /\ ~ServiceHeld'
  BY Zenon DEF NothingHeld, Holding, ServiceHeld
<1>7. HoldingInv'
  BY <1>6, Zenon DEF HoldingInv
<1>8. StagedInv'
  BY Zenon DEF NothingHeld, StagedInv
<1>9. SuspendedInv'
  <2>1. blake_pulse' # "start" /\ blake_pulse' # "accept" /\ blake_pulse' \notin {"accept", "discard"}
    BY DEF NothingHeld
  <2>2. reply'.kind # "service" /\ ~life'.service_pending /\ ~life'.result_pending
    BY Zenon DEF NothingHeld
  <2> QED
    BY <1>6, <2>1, <2>2, Zenon DEF SuspendedInv
<1>10. CrcInv'
  <2>1. ~life'.result_pending /\ result_pending' = FALSE /\ capture_result_crc' = FALSE
        /\ tx' # "done"
    BY DEF NothingHeld
  <2> QED
    BY <2>1, Zenon DEF CrcInv
<1>11. DiscardInv'
  <2>1. ~life'.result_pending /\ result_pending' = FALSE /\ ~life'.service_pending
        /\ blake_pulse' \in {"none", "discard"}
    BY DEF NothingHeld
  <2> QED
    BY <2>1, Zenon DEF DiscardInv
<1> QED
  BY <1>2, <1>3, <1>4, <1>5, <1>7, <1>8, <1>9, <1>10, <1>11, Zenon DEF HeldInv

\* What KeepBlake does without a pulse.
LEMMA BlakeKept ==
  ASSUME KeepBlake, blake_pulse = "none"
  PROVE  /\ blake_pulse' = "none"
         /\ life.service_pending \/ life.result_pending => service' = service
<1>1. blake_pulse # "start"
  OBVIOUS
<1> QED
  BY <1>1, Zenon DEF KeepBlake

\* At rest the staged result and its CRC are kept.
LEMMA StagedKept ==
  ASSUME KeepStaged, AtRest
  PROVE  UNCHANGED <<result_pending, staged, staged_result_crc, capture_result_crc>>
<1>1. tx # "done"
  BY DEF AtRest
<1> QED
  BY <1>1, Zenon DEF KeepStaged, CaptureEdge

\* What is held is still the question asked.
LEMMA HoldingKept ==
  ASSUME HoldingInv, UNCHANGED <<committed, state_valid, asked>>,
         Holding' => Holding, ServiceHeld' => ServiceHeld
  PROVE  HoldingInv'
<1>1. asked' = asked /\ state_valid' = state_valid /\ committed' = committed
  OBVIOUS
<1>2. Placed(asked.request)' <=> Placed(asked.request)
  BY <1>1, Zenon DEF Placed
<1>3. asked' = None \/ asked' \in Questions
  BY <1>1, Zenon DEF HoldingInv
<1>4. Holding' =>
          /\ asked' # None
          /\ Placed(asked.request)'
          /\ state_valid' => committed' = [pc |-> asked'.request.pc, fp |-> asked'.request.fp]
  <2>1. ASSUME Holding
        PROVE  /\ asked # None /\ Placed(asked.request)
               /\ state_valid => committed = [pc |-> asked.request.pc, fp |-> asked.request.fp]
    BY <2>1, Zenon DEF HoldingInv
  <2> HIDE DEF Placed
  <2> QED
    BY ONLY <1>1, <1>2, <2>1, Holding' => Holding
<1>5. ServiceHeld' => asked'.request.opcode = "BLAKE3_REQUEST"
  BY <1>1, Zenon DEF HoldingInv
<1> QED
  BY <1>3, <1>4, <1>5, Zenon DEF HoldingInv

\* A transaction held stays as it is while a short reply is sent.
LEMMA HeldStays ==
  ASSUME HeldInv, AtRest, LifeEdge, LifeKept, LifeInv', compute = C_IDLE,
         DatapathIdle, KeepStaged, KeepBlake,
         UNCHANGED <<committed, state_valid, frame_payload, asked>>, tx_start' = TRUE,
         reply'.kind \in {"fault", "info", "profile"},
         reply'.kind = "fault" =>
            reply'.status \notin DiscardingFaults \/ NothingHeld'
  PROVE  HeldInv'
<1>1. UNCHANGED <<result_pending, staged, staged_result_crc, capture_result_crc>>
  BY StagedKept
<1>2. /\ blake_pulse = "none" /\ blake_pulse' = "none"
      /\ life.service_pending \/ life.result_pending => service' = service
  BY BlakeKept, Zenon DEF AtRest
<1>3. /\ tx = "idle" /\ tx' = "idle" /\ ~tx_start /\ reply = NoReply
      /\ reply'.kind \notin {"result", "service", "blake_result"}
  BY DEF AtRest
<1>4. /\ life'.service_pending = life.service_pending
      /\ life'.result_pending = life.result_pending
      /\ life'.service_seq = life.service_seq
      /\ (life.service_pending \/ life.result_pending) =>
          /\ life'.txn_id = life.txn_id /\ life'.service_id = life.service_id
          /\ life'.next_pc = life.next_pc /\ life'.next_fp = life.next_fp
      /\ life.result_pending => life'.crc = life.crc
  <2>1. tx # "done"
    BY <1>3
  <2> QED
    BY <1>2, <2>1, LifeCrcStays, Zenon DEF LifeKept
<1>5. C_IDLE \notin AluStates /\ C_IDLE \notin EncoderStates
  BY DEF C_IDLE, AluStates, EncoderStates
<1>6. compute' = C_IDLE /\ scratch' = None /\ alu' = AluIdle /\ encoder' = EncoderIdle
  BY Zenon DEF DatapathIdle
<1>7. DatapathInv'
  BY <1>5, <1>6, Zenon DEF DatapathInv
<1>8. ScratchInv'
  BY <1>6, Zenon DEF ScratchInv
<1>9. PulseInv'
  BY <1>2, <1>3 DEF PulseInv
<1>10. OneTransaction'
  BY <1>1, <1>2, <1>4, <1>6, Zenon DEF OneTransaction, HeldInv
<1>11. (ServiceHeld' <=> ServiceHeld) /\ (Holding' <=> Holding)
  <2>1. ServiceHeld' <=> ServiceHeld
    BY <1>2, <1>4, Zenon DEF ServiceHeld
  <2>2. compute' = compute /\ result_pending' = result_pending
    BY <1>1, <1>6
  <2> QED
    BY <2>1, <2>2, Zenon DEF Holding
<1>12. HoldingInv'
  BY <1>11, HoldingKept, Zenon DEF HeldInv
<1>13. StagedInv'
  BY <1>1, Zenon DEF StagedInv, HeldInv
<1>14. VerdictInv'
  BY Zenon DEF VerdictInv, HeldInv
<1>15. SuspendedInv'
  <2> DEFINE suspended == execute(asked.request)
  <2>1. asked' = asked /\ execute(asked.request)' = suspended
        /\ Resumed(asked)' = Resumed(asked)
    BY Zenon DEF Resumed
  <2>2. SuspendedInv
    BY DEF HeldInv
  <2>3. ServiceHeld' => suspended.status = "SERVICE_REQUIRED"
    BY <1>11, <2>2, Zenon DEF SuspendedInv
  <2>4. blake_pulse' # "start" /\ blake_pulse' # "accept" /\ blake_pulse' \notin {"accept", "discard"}
        /\ reply'.kind # "service"
    BY <1>2, <1>3
  <2>5. life'.service_pending \/ life'.result_pending =>
              /\ life'.txn_id = asked.request.txn_id
              /\ life'.next_pc = suspended.next_pc
              /\ life'.next_fp = suspended.next_fp
              /\ service'.access = suspended.accesses
    BY <1>2, <1>4, <2>2, Zenon DEF SuspendedInv
  <2>6. /\ life'.service_pending => life'.service_id = life'.service_seq
        /\ life'.service_pending =>
              service'.out = <<asked.request.cells[Len(asked.request.cells) - 1],
                               asked.request.cells[Len(asked.request.cells)]>>
        /\ life'.service_pending => asked.digest = None
        /\ life'.result_pending => asked.digest # None
        /\ life'.result_pending => service'.writes = Resumed(asked).writes
    BY <1>2, <1>4, <2>2, Zenon DEF SuspendedInv
  <2> HIDE DEF suspended
  <2> QED
    BY ONLY <2>1, <2>3, <2>4, <2>5, <2>6, Zenon DEF SuspendedInv, suspended
<1>16. CrcInv'
  <2>1. CrcInv
    BY DEF HeldInv
  <2>2. tx' # "done" /\ capture_result_crc = FALSE /\ capture_result_crc' = FALSE
    BY <1>1, <1>3, Zenon DEF AtRest
  <2>3. result_pending' => staged_result_crc' = Crc(staged')
    BY <1>1, <2>1, <2>2, Zenon DEF CrcInv
  <2>4. life'.result_pending => life'.crc = Crc(ServicePayload')
    <3>1. ASSUME life.result_pending PROVE life.crc = Crc(ServicePayload)
      BY <3>1, <1>3, <2>1, Zenon DEF CrcInv
    <3>2. ASSUME life.result_pending PROVE ServicePayload' = ServicePayload
      BY <3>2, <1>2, <1>4, Zenon DEF ServicePayload
    <3> QED
      BY <1>4, <3>1, <3>2, Zenon
  <2> QED
    BY <2>2, <2>3, <2>4, Zenon DEF CrcInv
<1>17. DiscardInv'
  BY <1>2, Zenon DEF DiscardInv, NothingHeld
<1> QED
  BY <1>7, <1>8, <1>9, <1>10, <1>12, <1>13, <1>14, <1>15, <1>16, <1>17, Zenon DEF HeldInv

-----------------------------------------------------------------------------
(* Steps of an instruction                                                 *)

\* A request the guard admits, with nothing pending.
Admitted(request) ==
    /\ Placed(request)
    /\ state_valid => committed = [pc |-> request.pc, fp |-> request.fp]
    /\ ~result_pending /\ ~life.service_pending /\ ~life.result_pending

\* What an event is judged on.
Eventful == IInv /\ AtRest /\ LifeEdge /\ UNCHANGED frame_payload

\* What the rest of an event keeps.
Sound == TransmitterInv' /\ CommittedInv' /\ HeldInv'

\* A reply loaded at rest is due.
LEMMA AnswerDue ==
  ASSUME AtRest, NEW kind \in ReplyKinds, NEW status, NEW txn_id, NEW detail,
         Say(kind, status, txn_id, detail), compute' = C_IDLE
  PROVE  TransmitterInv' /\ reply'.kind = kind /\ reply'.status = status
<1>1. /\ tx_start' = TRUE /\ tx' = "idle" /\ fault' \in BOOLEAN
  <2>1. fault' = (status \in FaultStatus)
    BY DEF Say
  <2>2. (status \in FaultStatus) \in BOOLEAN
    OBVIOUS
  <2> QED
    BY <2>1, <2>2, Zenon DEF Say, AtRest
<1>2. reply'.kind = kind /\ reply'.status = status
  BY DEF Say
<1>3. tx' \in {"idle", "active", "done"} /\ tx_start' \in BOOLEAN /\ Responding'
  BY <1>1, Zenon DEF Responding
<1>4. TransmitterInv'
  BY <1>1, <1>2, <1>3, Zenon DEF TransmitterInv
<1> QED
  BY <1>2, <1>4

\* The kinds of reply there are.
LEMMA KindsOfReply ==
  /\ {"fault", "result", "service", "blake_result", "info", "profile", "retired"}
       \subseteq ReplyKinds
  /\ NoReply.kind = None /\ NoReply.kind \notin ReplyKinds
  /\ \A kind \in ReplyKinds : kind # NoReply.kind
<1>1. {"fault", "result", "service", "blake_result", "info", "profile", "retired"}
       \subseteq ReplyKinds
  BY DEF ReplyKinds
<1>2. NoReply.kind = None
  BY DEF NoReply
<1>3. None \notin ReplyKinds
  BY NoneAssumption
<1> QED
  BY <1>1, <1>2, <1>3, Zenon

\* Nothing architectural moves.
LEMMA CommittedStays ==
  ASSUME CommittedInv, UNCHANGED commitVars
  PROVE  CommittedInv'
  BY Zenon DEF CommittedInv, commitVars

\* The question asked of a request.
LEMMA QuestionType ==
  ASSUME NEW request \in Requests, NEW verdict \in {"open", "OK", "FAULT", "SERVICE"}
  PROVE  /\ Asked(request, verdict) \in Questions
         /\ Asked(request, verdict).request = request
         /\ Asked(request, verdict).verdict = verdict
         /\ Asked(request, verdict).digest = None
         /\ Asked(request, verdict) # None
<1>1. /\ Asked(request, verdict).request = request
      /\ Asked(request, verdict).verdict = verdict
      /\ Asked(request, verdict).digest = None
  BY DEF Asked
<1>2. Asked(request, verdict) \in Questions
  BY DEF Asked, Questions
<1>3. None \notin Questions
  BY NoneAssumption
<1> QED
  BY <1>1, <1>2, <1>3, Zenon

\* The verdict on a scalar instruction.
LEMMA VerdictReached ==
  ASSUME NEW request \in Requests, NEW verdict \in {"open", "OK", "FAULT", "SERVICE"},
         asked' = Asked(request, verdict),
         \/ verdict = "open" /\ request.opcode # "BLAKE3_REQUEST"
         \/ verdict = Verdicts(request)
  PROVE  asked' \in Questions /\ VerdictInv'
<1>1. /\ asked' \in Questions /\ asked'.request = request /\ asked'.verdict = verdict
      /\ asked'.digest = None
  BY QuestionType, Zenon
<1>2. VerdictOf(asked)'
  <2>1. VerdictOf(asked)' <=>
          IF asked'.request.opcode # "BLAKE3_REQUEST"
          THEN asked'.verdict # "open" => asked'.verdict = Verdicts(asked'.request)
          ELSE IF asked'.digest = None THEN asked'.verdict = Verdicts(asked'.request)
          ELSE (asked'.verdict = "FAULT") = (Resumed(asked)'.status \in FaultStatus)
    BY Zenon DEF VerdictOf
  <2> HIDE DEF Verdicts
  <2> QED
    BY <1>1, <2>1, Zenon
<1> QED
  BY <1>1, <1>2, Zenon DEF VerdictInv

\* A scalar opcode is not that of the service.
LEMMA ScalarOrService ==
  /\ "BLAKE3_REQUEST" \notin ScalarOpcodes
  /\ INSTRUCTION_OPCODES = ScalarOpcodes \cup {"BLAKE3_REQUEST"}
  BY DEF ScalarOpcodes, INSTRUCTION_OPCODES

\* A refused instruction leaves nothing held.
LEMMA RefusesKeeps ==
  ASSUME Eventful, ~blake_retire_attempt, NEW request, Admitted(request),
         request.opcode \in ScalarOpcodes, Refuses(request)
  PROVE  Sound /\ reply'.kind = "fault" /\ NothingHeld'
<1>1. PICK status \in FaultStatus : Refuse(request, status)
  BY Zenon DEF Refuses
<1>2. /\ Say("fault", status, request.txn_id, None)
      /\ DatapathIdle /\ KeepStaged /\ KeepBlake /\ KeepCommitted
      /\ asked' = Asked(request, "FAULT")
  BY <1>1, Zenon DEF Refuse, emit_fault
<1>3. compute' = C_IDLE /\ scratch' = None /\ alu' = AluIdle /\ encoder' = EncoderIdle
  BY <1>2, Zenon DEF DatapathIdle
<1>4. TransmitterInv' /\ reply'.kind = "fault"
  <2>1. "fault" \in ReplyKinds
    BY KindsOfReply
  <2> QED
    BY <1>2, <1>3, <2>1, AnswerDue, Zenon DEF Eventful
<1>5. CommittedInv'
  BY <1>2, CommittedStays, Zenon DEF KeepCommitted, Eventful, IInv
<1>6. LifeKept
  BY LifeStays, Zenon DEF Eventful, IInv, HeldInv, AtRest
<1>7. NothingHeld'
  <2>1. result_pending' = result_pending /\ staged' = staged
        /\ capture_result_crc' = capture_result_crc
    BY <1>2, StagedKept, Zenon DEF Eventful
  <2>2. result_pending \in BOOLEAN /\ staged = None
    BY Zenon DEF Eventful, IInv, HeldInv, StagedInv, Admitted
  <2>3. capture_result_crc = FALSE /\ blake_pulse = "none"
    BY Zenon DEF Eventful, AtRest
  <2>4. blake_pulse' = "none"
    BY <1>2, <2>3, BlakeKept, Zenon
  <2>5. result_pending' = FALSE
    BY <2>1, <2>2, Zenon DEF Admitted
  <2>6. ~life'.service_pending /\ ~life'.result_pending
    BY <1>6, Zenon DEF LifeKept, Admitted
  <2> QED
    BY <1>3, <2>1, <2>2, <2>3, <2>4, <2>5, <2>6, Zenon DEF NothingHeld
<1>8. LifeInv'
  BY <1>2, ShapedService, LifeTyped, Zenon
     DEF Eventful, IInv, HeldInv, LifeInv, Shaped
<1>9. asked' \in Questions /\ VerdictInv'
  <2>1. request \in Requests /\ "FAULT" \in {"open", "OK", "FAULT", "SERVICE"}
    BY DEF Admitted, Placed
  <2>2. Verdicts(request) = "FAULT"
    BY Zenon DEF Refuses
  <2> QED
    BY <1>2, <2>1, <2>2, VerdictReached, Zenon
<1>10. HeldInv'
  <2>1. tx' # "done" /\ "fault" \notin {"result", "service", "blake_result"}
    BY DEF Eventful, AtRest
  <2> QED
    BY <1>4, <1>7, <1>8, <1>9, <2>1, NothingHeldStep, Zenon
<1> QED
  BY <1>4, <1>5, <1>7, <1>10, Zenon DEF Sound

\* What a step finds and leaves of the service while an instruction is
\* decided.
LEMMA ServiceQuiet ==
  ASSUME Eventful, ~blake_retire_attempt, NEW request, Admitted(request), KeepBlake
  PROVE  /\ blake_pulse' = "none" /\ ~life'.service_pending /\ ~life'.result_pending
         /\ ~ServiceHeld' /\ LifeInv'
<1>1. LifeKept
  BY LifeStays, Zenon DEF Eventful, IInv, HeldInv, AtRest
<1>2. blake_pulse = "none"
  BY Zenon DEF Eventful, AtRest
<1>3. blake_pulse' = "none"
  BY <1>2, BlakeKept, Zenon
<1>4. ~life'.service_pending /\ ~life'.result_pending
  BY <1>1, Zenon DEF LifeKept, Admitted
<1>5. LifeInv'
  BY ShapedService, LifeTyped, Zenon DEF Eventful, IInv, HeldInv, LifeInv, Shaped
<1> QED
  BY <1>3, <1>4, <1>5, Zenon DEF ServiceHeld

\* The request being decided is the one held.
LEMMA HoldsRequest ==
  ASSUME NEW request, Admitted(request), KeepCommitted,
         NEW verdict \in {"open", "OK", "SERVICE"}, asked' = Asked(request, verdict),
         ServiceHeld' => request.opcode = "BLAKE3_REQUEST"
  PROVE  HoldingInv'
<1>1. request \in Requests /\ verdict \in {"open", "OK", "FAULT", "SERVICE"}
  BY DEF Admitted, Placed
<1>2. asked' \in Questions /\ asked' # None /\ asked'.request = request
  BY <1>1, QuestionType, Zenon
<1>3. Placed(asked.request)'
  BY <1>2, Zenon DEF Admitted, Placed
<1>4. state_valid' = state_valid /\ committed' = committed
  BY DEF KeepCommitted, commitVars
<1>5. state_valid' => committed' = [pc |-> asked'.request.pc, fp |-> asked'.request.fp]
  BY <1>2, <1>4, Zenon DEF Admitted
<1>6. ServiceHeld' => asked'.request.opcode = "BLAKE3_REQUEST"
  BY <1>2, Zenon
<1> QED
  BY <1>2, <1>3, <1>5, <1>6, Zenon DEF HoldingInv

\* An instruction that goes on is computed, and nothing else is held.
LEMMA LaunchesKeeps ==
  ASSUME Eventful, ~blake_retire_attempt, NEW request, Admitted(request),
         request.opcode \in ScalarOpcodes, Launches(request)
  PROVE  Sound /\ reply'.kind # "fault"
<1>1. /\ Silent /\ KeepStaged /\ KeepBlake /\ KeepCommitted
      /\ asked' = Asked(request, "open") /\ compute' # C_IDLE
      /\ scratch'.request = request /\ DatapathInv' /\ ScratchInv'
  BY Zenon DEF Launches
<1>2. /\ tx = "idle" /\ reply = NoReply /\ capture_result_crc = FALSE
      /\ tx' = "idle"
  BY Zenon DEF Eventful, AtRest
<1>3. tx_start' = FALSE /\ reply' = NoReply /\ fault' = fault
  <2>1. tx # "done"
    BY <1>2
  <2> QED
    BY <1>1, <1>2, <2>1, Zenon DEF Silent
<1>4. \A kind \in ReplyKinds : reply'.kind # kind
  BY <1>3, KindsOfReply, Zenon
<1>5. /\ reply'.kind # "fault" /\ reply'.kind # "result" /\ reply'.kind # "service"
      /\ reply'.kind # "blake_result"
  BY <1>4, KindsOfReply
<1>6. ~Responding'
  BY <1>2, <1>3, Zenon DEF Responding
<1>7. TransmitterInv'
  <2>1. tx' \in {"idle", "active", "done"} /\ tx_start' \in BOOLEAN
    BY <1>2, <1>3
  <2>2. fault' \in BOOLEAN
    BY <1>3, Zenon DEF Eventful, IInv, TransmitterInv
  <2> QED
    BY <1>2, <1>3, <1>6, <2>1, <2>2, Zenon DEF TransmitterInv
<1>8. CommittedInv'
  BY <1>1, CommittedStays, Zenon DEF KeepCommitted, Eventful, IInv
<1>9. /\ blake_pulse' = "none" /\ ~life'.service_pending /\ ~life'.result_pending
      /\ ~ServiceHeld' /\ LifeInv'
  BY <1>1, ServiceQuiet, Zenon
<1>10. result_pending' = result_pending /\ staged' = staged
       /\ capture_result_crc' = FALSE
  BY <1>1, <1>2, StagedKept, Zenon DEF Eventful
<1>11. ~result_pending' /\ result_pending' \in BOOLEAN /\ staged' = None
  BY <1>10, Zenon DEF Eventful, IInv, HeldInv, StagedInv, Admitted
<1>12. PulseInv'
  BY <1>5, <1>9 DEF PulseInv
<1>13. OneTransaction'
  BY <1>9, <1>11 DEF OneTransaction
<1>14. HoldingInv'
  <2>1. "open" \in {"open", "OK", "SERVICE"}
    OBVIOUS
  <2> QED
    BY <1>1, <1>9, <2>1, HoldsRequest, Zenon
<1>15. StagedInv'
  BY <1>11, Zenon DEF StagedInv
<1>16. VerdictInv'
  <2>1. request \in Requests /\ "open" \in {"open", "OK", "FAULT", "SERVICE"}
        /\ request.opcode # "BLAKE3_REQUEST"
    BY ScalarOrService DEF Admitted, Placed
  <2> QED
    BY <1>1, <2>1, VerdictReached, Zenon
<1>17. SuspendedInv'
  <2>1. blake_pulse' # "start" /\ blake_pulse' # "accept" /\ blake_pulse' \notin {"accept", "discard"}
    BY <1>9
  <2> QED
    BY <1>5, <1>9, <2>1, Zenon DEF SuspendedInv
<1>18. CrcInv'
  <2>1. tx' # "done"
    BY <1>2
  <2> QED
    BY <1>9, <1>10, <1>11, <2>1, Zenon DEF CrcInv
<1>19. DiscardInv'
  BY <1>5, Zenon DEF DiscardInv
<1>20. HeldInv'
  BY <1>1, <1>9, <1>12, <1>13, <1>14, <1>15, <1>16, <1>17, <1>18, <1>19, Zenon DEF HeldInv
<1> QED
  BY <1>5, <1>7, <1>8, <1>20, Zenon DEF Sound

\* What is staged is what was decided.
LEMMA StagedType ==
  ASSUME NEW request, NEW decided \in Decisions, decided.request = request,
         execute(request) = Outcome(decided)
  PROVE  LET result == [txn_id |-> request.txn_id, next_pc |-> decided.next_pc,
                        next_fp |-> decided.next_fp, writes |-> decided.writes,
                        deferred |-> decided.deferred, accesses |-> decided.accesses]
         IN  result \in StagedResults /\ result = ResultOf(request)
<1> DEFINE result == [txn_id |-> request.txn_id, next_pc |-> decided.next_pc,
                      next_fp |-> decided.next_fp, writes |-> decided.writes,
                      deferred |-> decided.deferred, accesses |-> decided.accesses]
<1>1. /\ request \in Requests
      /\ decided.next_pc \in 0..INDEX_LIMIT /\ decided.next_fp \in 0..(INDEX_LIMIT - 1)
      /\ decided.writes \in Seq([address : 0..U32_MAX, value : Word])
      /\ decided.deferred \in Seq([target : 0..U32_MAX, local : 0..U32_MAX])
      /\ decided.accesses \in Seq(0..U32_MAX)
  BY DEF Decisions
<1>2. request.txn_id \in {asking.txn_id : asking \in Requests}
  BY <1>1, Zenon
<1>3. result \in StagedResults
  BY <1>1, <1>2, Zenon DEF StagedResults
<1>4. result = ResultOf(request)
  <2>1. /\ execute(request).next_pc = decided.next_pc
        /\ execute(request).next_fp = decided.next_fp
        /\ execute(request).writes = decided.writes
        /\ execute(request).deferred = decided.deferred
        /\ execute(request).accesses = decided.accesses
    <3>1. /\ Outcome(decided).next_pc = decided.next_pc
          /\ Outcome(decided).next_fp = decided.next_fp
          /\ Outcome(decided).writes = decided.writes
          /\ Outcome(decided).deferred = decided.deferred
          /\ Outcome(decided).accesses = decided.accesses
      BY Zenon DEF Outcome, Decided
    <3> QED
      BY <3>1, Zenon
  <2> QED
    BY <2>1, Zenon DEF ResultOf
<1> QED
  BY <1>3, <1>4, Zenon

\* A decided instruction is offered, and nothing else is held.
LEMMA EmitsKeeps ==
  ASSUME Eventful, ~blake_retire_attempt, NEW request, Admitted(request),
         request.opcode \in ScalarOpcodes, Emits(request)
  PROVE  Sound /\ reply'.kind # "fault"
<1>1. PICK decided \in Decisions :
         emit_result(decided) /\ decided.request = request
         /\ execute(request) = Outcome(decided)
  BY Zenon DEF Emits
<1>2. /\ Say("result", "OK", None, None) /\ DatapathIdle
      /\ result_pending' = TRUE /\ staged_result_crc' = 0 /\ capture_result_crc' = TRUE
      /\ KeepBlake /\ KeepCommitted /\ asked' = Asked(request, "OK")
  BY <1>1, Zenon DEF emit_result
<1>3. staged' \in StagedResults /\ staged' = ResultOf(request)
  <2>1. staged' = [txn_id |-> request.txn_id, next_pc |-> decided.next_pc,
                   next_fp |-> decided.next_fp, writes |-> decided.writes,
                   deferred |-> decided.deferred, accesses |-> decided.accesses]
    BY <1>1, Zenon DEF emit_result
  <2> QED
    BY <1>1, <2>1, StagedType, Zenon
<1>4. compute' = C_IDLE /\ scratch' = None /\ alu' = AluIdle /\ encoder' = EncoderIdle
  BY <1>2, Zenon DEF DatapathIdle
<1>5. TransmitterInv' /\ reply'.kind = "result"
  <2>1. "result" \in ReplyKinds
    BY KindsOfReply
  <2> QED
    BY <1>2, <1>4, <2>1, AnswerDue, Zenon DEF Eventful
<1>6. CommittedInv'
  BY <1>2, CommittedStays, Zenon DEF KeepCommitted, Eventful, IInv
<1>7. /\ blake_pulse' = "none" /\ ~life'.service_pending /\ ~life'.result_pending
      /\ ~ServiceHeld' /\ LifeInv'
  BY <1>2, ServiceQuiet, Zenon
<1>8. DatapathInv'
  <2>1. C_IDLE \notin AluStates /\ C_IDLE \notin EncoderStates
    BY DEF C_IDLE, AluStates, EncoderStates
  <2> QED
    BY <1>4, <2>1, Zenon DEF DatapathInv
<1>9. ScratchInv'
  BY <1>4, Zenon DEF ScratchInv
<1>10. PulseInv'
  BY <1>2, <1>5, <1>7 DEF PulseInv
<1>11. OneTransaction'
  BY <1>4, <1>7 DEF OneTransaction
<1>12. HoldingInv'
  <2>1. "OK" \in {"open", "OK", "SERVICE"}
    OBVIOUS
  <2> QED
    BY <1>2, <1>7, <2>1, HoldsRequest, Zenon
<1>13. /\ request \in Requests /\ "OK" \in {"open", "OK", "FAULT", "SERVICE"}
       /\ request.opcode # "BLAKE3_REQUEST"
  BY ScalarOrService DEF Admitted, Placed
<1>14. asked'.request = request /\ asked'.verdict = "OK"
  BY <1>2, <1>13, QuestionType, Zenon
<1>15. StagedInv'
  <2>1. staged' = ResultOf(asked.request)'
    BY <1>3, <1>14, Zenon
  <2>2. staged' \in StagedResults'
    BY <1>3 DEF StagedResults
  <2>3. result_pending' \in BOOLEAN
    BY <1>2
  <2>4. asked'.verdict = "OK" /\ asked'.request.opcode # "BLAKE3_REQUEST"
    BY <1>13, <1>14, Zenon
  <2>5. result_pending'
    BY <1>2
  <2> QED
    BY <2>1, <2>2, <2>3, <2>4, <2>5, Zenon DEF StagedInv
<1>16. VerdictInv'
  <2>1. Verdicts(request) = "OK"
    BY <1>1, FaultFields, Zenon DEF Verdicts
  <2> QED
    BY <1>2, <1>13, <2>1, VerdictReached, Zenon
<1>17. SuspendedInv'
  <2>1. /\ blake_pulse' # "start" /\ blake_pulse' # "accept"
        /\ blake_pulse' \notin {"accept", "discard"} /\ reply'.kind # "service"
    BY <1>5, <1>7
  <2> QED
    BY <1>7, <2>1, Zenon DEF SuspendedInv
<1>18. CrcInv'
  <2>1. tx' # "done" /\ Responding'
    BY <1>2, Zenon DEF Eventful, AtRest, Responding, Say
  <2>2. capture_result_crc' \in BOOLEAN
    BY <1>2
  <2> QED
    BY <1>2, <1>5, <1>7, <2>1, <2>2, Zenon DEF CrcInv
<1>19. DiscardInv'
  BY <1>5 DEF DiscardInv
<1>20. HeldInv'
  BY <1>7, <1>8, <1>9, <1>10, <1>11, <1>12, <1>15, <1>16, <1>17, <1>18, <1>19, Zenon DEF HeldInv
<1> QED
  BY <1>5, <1>6, <1>20 DEF Sound

\* However an instruction is settled.
LEMMA SettlesKeeps ==
  ASSUME Eventful, ~blake_retire_attempt, NEW request, Admitted(request),
         request.opcode \in ScalarOpcodes, Settles(request)
  PROVE  Sound /\ (compute' # C_IDLE => scratch'.request = request)
<1>1. ASSUME Refuses(request)
      PROVE  Sound /\ compute' = C_IDLE
  <2>1. compute' = C_IDLE
    BY <1>1, Zenon DEF Refuses, Refuse, emit_fault, DatapathIdle
  <2> QED
    BY <1>1, <2>1, RefusesKeeps, Zenon
<1>2. ASSUME Launches(request)
      PROVE  Sound /\ scratch'.request = request
  <2>1. scratch'.request = request
    BY <1>2, Zenon DEF Launches
  <2> QED
    BY <1>2, <2>1, LaunchesKeeps, Zenon
<1>3. ASSUME Emits(request)
      PROVE  Sound /\ compute' = C_IDLE
  <2>1. compute' = C_IDLE
    BY <1>3, Zenon DEF Emits, emit_result, DatapathIdle
  <2> QED
    BY <1>3, <2>1, EmitsKeeps, Zenon
<1> QED
  BY <1>1, <1>2, <1>3, Zenon DEF Settles

-----------------------------------------------------------------------------
(* The other frame events                                                  *)

\* What CommittedInv says, one register at a time.
LEMMA ArchitecturalStays ==
  ASSUME CommittedInv, UNCHANGED <<committed, state_valid, retire_seq>>,
         active_profile' = INTERPRETER_COMPAT
  PROVE  CommittedInv'
  BY Zenon DEF CommittedInv

\* A frame rejected leaves what is held.
LEMMA RejectKeeps ==
  ASSUME Eventful, ~blake_retire_attempt, compute = C_IDLE,
         NEW status, NEW txn_id, status \notin DiscardingFaults, Reject(status, txn_id)
  PROVE  Sound
<1>1. /\ Say("fault", status, txn_id, None) /\ DatapathIdle
      /\ KeepStaged /\ KeepBlake /\ KeepCommitted /\ UNCHANGED asked
  BY Zenon DEF Reject, emit_fault
<1>2. compute' = C_IDLE
  BY <1>1, Zenon DEF DatapathIdle
<1>3. TransmitterInv' /\ reply'.kind = "fault" /\ reply'.status = status
  <2>1. "fault" \in ReplyKinds
    BY KindsOfReply
  <2> QED
    BY <1>1, <1>2, <2>1, AnswerDue, Zenon DEF Eventful
<1>4. CommittedInv'
  BY <1>1, CommittedStays, Zenon DEF KeepCommitted, Eventful, IInv
<1>5. LifeKept
  BY LifeStays, Zenon DEF Eventful, IInv, HeldInv, AtRest
<1>6. LifeInv'
  BY <1>1, ShapedService, LifeTyped, Zenon DEF Eventful, IInv, HeldInv, LifeInv, Shaped
<1>7. UNCHANGED <<committed, state_valid, frame_payload, asked>> /\ tx_start' = TRUE
      /\ reply'.kind \in {"fault", "info", "profile"} /\ reply'.status \notin DiscardingFaults
  BY <1>1, <1>3, Zenon DEF KeepCommitted, commitVars, Eventful, Say
<1>8. HeldInv'
  BY <1>1, <1>5, <1>6, <1>7, HeldStays, Zenon DEF Eventful, IInv
<1> QED
  BY <1>3, <1>4, <1>8, Zenon DEF Sound

\* So does a STATUS or a NEGOTIATE answered.
LEMMA InformKeeps ==
  ASSUME Eventful, ~blake_retire_attempt, compute = C_IDLE,
         NEW kind \in {"info", "profile"}, NEW status, NEW txn_id, NEW detail,
         Inform(kind, status, txn_id, detail), active_profile' = INTERPRETER_COMPAT
  PROVE  Sound
<1>1. /\ Say(kind, status, txn_id, detail) /\ DatapathIdle
      /\ KeepStaged /\ KeepBlake
      /\ UNCHANGED <<committed, state_valid, retire_seq, asked>>
  BY Zenon DEF Inform
<1>2. compute' = C_IDLE
  BY <1>1, Zenon DEF DatapathIdle
<1>3. TransmitterInv' /\ reply'.kind = kind
  <2>1. kind \in ReplyKinds
    BY KindsOfReply
  <2> QED
    BY <1>1, <1>2, <2>1, AnswerDue, Zenon DEF Eventful
<1>4. CommittedInv'
  BY <1>1, ArchitecturalStays, Zenon DEF Eventful, IInv
<1>5. LifeKept
  BY LifeStays, Zenon DEF Eventful, IInv, HeldInv, AtRest
<1>6. LifeInv'
  BY <1>1, ShapedService, LifeTyped, Zenon DEF Eventful, IInv, HeldInv, LifeInv, Shaped
<1>7. reply'.kind \in {"fault", "info", "profile"} /\ reply'.kind # "fault"
  BY <1>3
<1>8. UNCHANGED <<committed, state_valid, frame_payload, asked>> /\ tx_start' = TRUE
  BY <1>1, Zenon DEF Eventful, Say
<1>9. HeldInv'
  BY <1>1, <1>5, <1>6, <1>7, <1>8, HeldStays, Zenon DEF Eventful, IInv
<1> QED
  BY <1>3, <1>4, <1>9, Zenon DEF Sound

\* A RETIRE the shell attempts withdraws its result, match or not.
LEMMA ShellWithdraws ==
  ASSUME Eventful, blake_retire_attempt, KeepStaged, KeepBlake, DatapathIdle
  PROVE  NothingHeld' /\ LifeInv'
<1>1. life.result_pending
  BY DEF blake_retire_attempt
<1>2. blake_pulse = "none" /\ capture_result_crc = FALSE
  BY Zenon DEF Eventful, AtRest
<1>3. OneTransaction /\ StagedInv /\ LifeInv /\ PulseInv
  BY Zenon DEF Eventful, IInv, HeldInv
<1>4. ~result_pending /\ ~life.service_pending
  BY <1>1, <1>3, Zenon DEF OneTransaction
<1>5. result_pending' = FALSE /\ staged' = None /\ capture_result_crc' = FALSE
  <2>1. result_pending = FALSE /\ staged = None
    BY <1>3, <1>4, Zenon DEF StagedInv
  <2> QED
    BY <1>2, <2>1, StagedKept, Zenon DEF Eventful
<1>6. ~life'.result_pending
  BY LifeFields, Zenon DEF LifeResultPending, Eventful
<1>7. ~life'.service_pending
  <2>1. blake_pulse # "start"
    BY <1>2
  <2> QED
    BY <1>4, <2>1, LifeFields, Zenon DEF Eventful
<1>8. blake_pulse' = "none"
  BY <1>2, BlakeKept, Zenon
<1>9. LifeInv'
  BY <1>3, ShapedService, LifeTyped, Zenon DEF Eventful, LifeInv, Shaped
<1> QED
  BY <1>5, <1>6, <1>7, <1>8, <1>9, Zenon DEF NothingHeld, DatapathIdle

\* A scalar result is withdrawn by the frontend.
LEMMA FrontendWithdraws ==
  ASSUME Eventful, ~blake_retire_attempt, result_pending, Withdraw, KeepBlake, DatapathIdle
  PROVE  NothingHeld' /\ LifeInv'
<1>1. blake_pulse = "none"
  BY Zenon DEF Eventful, AtRest
<1>2. OneTransaction /\ LifeInv /\ PulseInv
  BY Zenon DEF Eventful, IInv, HeldInv
<1>3. ~life.service_pending /\ ~life.result_pending
  BY <1>2, Zenon DEF OneTransaction
<1>4. ~life'.service_pending /\ ~life'.result_pending
  <2>1. LifeKept
    BY <1>1, <1>2, LifeStays, Zenon DEF Eventful
  <2> QED
    BY <1>3, <2>1, Zenon DEF LifeKept
<1>5. blake_pulse' = "none"
  BY <1>1, BlakeKept, Zenon
<1>6. LifeInv'
  BY <1>2, ShapedService, LifeTyped, Zenon DEF Eventful, LifeInv, Shaped
<1> QED
  BY <1>4, <1>5, <1>6, Zenon DEF NothingHeld, DatapathIdle, Withdraw

\* With the transaction gone, the question asked keeps its verdict.
LEMMA WithdrawnKeeps ==
  ASSUME Eventful, NothingHeld', LifeInv', UNCHANGED asked,
         reply'.kind \in {"fault", "retired"}
  PROVE  HeldInv'
<1>1. asked' = None \/ asked' \in Questions
  <2>1. asked = None \/ asked \in Questions
    BY Zenon DEF Eventful, IInv, HeldInv, HoldingInv
  <2>2. asked' = asked
    OBVIOUS
  <2> QED
    BY <2>1, <2>2, Zenon
<1>2. VerdictInv'
  <2>1. VerdictInv /\ asked' = asked
    BY Zenon DEF Eventful, IInv, HeldInv
  <2> QED
    BY <2>1, Zenon DEF VerdictInv
<1>3. tx' # "done"
  BY Zenon DEF Eventful, AtRest
<1>4. reply'.kind \notin {"result", "service", "blake_result"}
  OBVIOUS
<1> QED
  BY <1>1, <1>2, <1>3, <1>4, NothingHeldStep, Zenon

\* A commit moves the state to the offer, and holds nothing.
LEMMA CommitKeeps ==
  ASSUME Eventful, rx.state = "frame", frame_opcode = "RETIRE",
         NEW pc \in 0..INDEX_LIMIT, NEW fp \in 0..(INDEX_LIMIT - 1),
         CommitTo(pc, fp), NothingHeld', LifeInv'
  PROVE  Sound
<1>1. /\ Say("retired", "RETIRED", frame_payload.txn_id, None)
      /\ committed' = [pc |-> pc, fp |-> fp] /\ state_valid' = TRUE
      /\ retire_seq' = retire_seq + 1 /\ active_profile' = active_profile /\ asked' = asked
  BY Zenon DEF CommitTo
<1>2. TransmitterInv' /\ reply'.kind = "retired"
  <2>1. "retired" \in ReplyKinds
    BY KindsOfReply
  <2>2. compute' = C_IDLE
    BY Zenon DEF NothingHeld
  <2> QED
    BY <1>1, <2>1, <2>2, AnswerDue, Zenon DEF Eventful
<1>3. CommittedInv'
  <2>1. committed' \in ScalarState
    BY <1>1, Zenon DEF ScalarState
  <2>2. state_valid' \in BOOLEAN
    BY <1>1
  <2>3. retire_seq' \in 0..RetireSeqMax
    <3>1. retire_seq < RetireSeqMax
      BY Zenon DEF Eventful, IInv, ReceiverInv
    <3>2. retire_seq \in 0..RetireSeqMax
      BY Zenon DEF Eventful, IInv, CommittedInv
    <3> QED
      BY <1>1, <3>1, <3>2, FrontendBounds
  <2>4. active_profile' = INTERPRETER_COMPAT
    BY <1>1, Zenon DEF Eventful, IInv, CommittedInv
  <2> QED
    BY <2>1, <2>2, <2>3, <2>4, Zenon DEF CommittedInv, ScalarState
<1>4. HeldInv'
  <2>1. reply'.kind \in {"fault", "retired"}
    BY <1>2
  <2> QED
    BY <1>1, <2>1, WithdrawnKeeps, Zenon
<1> QED
  BY <1>2, <1>3, <1>4, Zenon DEF Sound

\* The transition a service held suspends, from the position asked.
LEMMA HeldService ==
  ASSUME IInv, ServiceHeld
  PROVE  LET request == asked.request
             suspended == execute(request)
         IN  /\ asked \in Questions /\ Placed(request) /\ request.opcode = "BLAKE3_REQUEST"
             /\ suspended.status = "SERVICE_REQUIRED"
             /\ suspended.next_pc = request.pc + 1 /\ suspended.next_fp = request.fp
             /\ suspended.next_pc \in 0..INDEX_LIMIT
             /\ suspended.next_fp \in 0..(INDEX_LIMIT - 1)
<1> DEFINE request == asked.request
           suspended == execute(request)
<1>1. Holding
  BY Zenon DEF Holding
<1>2. asked \in Questions /\ Placed(request) /\ request.opcode = "BLAKE3_REQUEST"
  BY <1>1, Zenon DEF IInv, HeldInv, HoldingInv
<1>3. suspended.status = "SERVICE_REQUIRED"
  BY Zenon DEF IInv, HeldInv, SuspendedInv
<1>4. suspended.next_pc = request.pc + 1 /\ suspended.next_fp = request.fp
  <2> DEFINE all == blake3_addresses(request)
             frame == Frame(all, request.cells)
             operands == [i \in 1..(Len(all) - 2) |-> Read(frame, all[i])]
  <2>1. suspended =
              [status |-> "SERVICE_REQUIRED", next_pc |-> request.pc + 1,
               next_fp |-> request.fp, accesses |-> all, frame |-> frame,
               operands |-> operands]
    BY <1>2, <1>3, SuspendedRule, Zenon
  <2> HIDE DEF all, frame, operands, suspended, request
  <2> QED
    BY <2>1
<1>5. request.pc \in 0..(INDEX_LIMIT - 1) /\ request.fp \in 0..(INDEX_LIMIT - 1)
  BY <1>2, Zenon DEF Placed
<1> HIDE DEF request, suspended
<1>6. suspended.next_pc \in 0..INDEX_LIMIT /\ suspended.next_fp \in 0..(INDEX_LIMIT - 1)
  BY <1>4, <1>5, U32Assumption
<1> QED
  BY <1>2, <1>3, <1>4, <1>6, Zenon DEF request, suspended

\* A frame's contents, by its opcode.
LEMMA FrameKinds ==
  ASSUME NEW frame \in Frames
  PROVE  /\ frame.opcode \in INSTRUCTION_OPCODES => frame \in Requests
         /\ frame.opcode = "MALFORMED" => frame.status \in ContentFaults
         /\ frame.opcode = "SERVICE_RESPONSE" => frame.digest \in Digests
<1>1. CASE frame \in Requests
  <2>1. frame.opcode \in INSTRUCTION_OPCODES
    BY <1>1, RequestAssumption, Zenon DEF IsRequest
  <2>2. frame.opcode # "MALFORMED" /\ frame.opcode # "SERVICE_RESPONSE"
    BY <2>1 DEF INSTRUCTION_OPCODES, ScalarOpcodes
  <2> QED
    BY <1>1, <2>2
<1>2. CASE frame \in [opcode : {"MALFORMED"}, status : ContentFaults]
  BY <1>2 DEF INSTRUCTION_OPCODES, ScalarOpcodes
<1>3. CASE frame \in [opcode : {"STATUS_QUERY"}]
           \/ frame \in [opcode : {"NEGOTIATE"}, profile : Profile, version_ok : BOOLEAN]
           \/ frame \in [opcode : {"RETIRE"}, txn_id : TxnIds, result_crc : CrcWords]
  <2>1. frame.opcode \in {"STATUS_QUERY", "NEGOTIATE", "RETIRE"}
    BY <1>3
  <2> QED
    BY <2>1 DEF INSTRUCTION_OPCODES, ScalarOpcodes
<1>4. CASE frame \in [opcode : {"SERVICE_RESPONSE"}, txn_id : TxnIds,
                      service_id : ServiceIds, kind_ok : BOOLEAN, digest : Digests]
  BY <1>4 DEF INSTRUCTION_OPCODES, ScalarOpcodes
<1> QED
  BY <1>1, <1>2, <1>3, <1>4, Zenon DEF Frames

\* The shell's RETIRE, matched or not.
LEMMA BlakeRetireKeeps ==
  ASSUME Eventful, compute = C_IDLE, event_ready, BlakeRetireEvent
  PROVE  Sound
<1>1. rx.state = "frame" /\ frame_opcode = "RETIRE" /\ life.result_pending
  BY Zenon DEF BlakeRetireEvent
<1>2. blake_retire_attempt
  BY <1>1, Zenon DEF blake_retire_attempt
<1>3. CASE retire_match
  <2>1. CommitTo(life.next_pc, life.next_fp) /\ KeepStaged
    BY <1>3, Zenon DEF BlakeRetireEvent
  <2>2. NothingHeld' /\ LifeInv'
    BY <1>2, <2>1, ShellWithdraws, Zenon DEF CommitTo
  <2>3. life.next_pc \in 0..INDEX_LIMIT /\ life.next_fp \in 0..(INDEX_LIMIT - 1)
    <3>1. ServiceHeld
      BY <1>1, Zenon DEF ServiceHeld
    <3>2. /\ life.next_pc = execute(asked.request).next_pc
          /\ life.next_fp = execute(asked.request).next_fp
      BY <1>1, Zenon DEF Eventful, IInv, HeldInv, SuspendedInv
    <3>3. /\ execute(asked.request).next_pc \in 0..INDEX_LIMIT
          /\ execute(asked.request).next_fp \in 0..(INDEX_LIMIT - 1)
      BY <3>1, HeldService, Zenon DEF Eventful
    <3> QED
      BY <3>2, <3>3, Zenon
  <2> QED
    BY <1>1, <2>1, <2>2, <2>3, CommitKeeps, Zenon
<1>4. CASE ~retire_match
  <2>1. Reject("RETIRE_MISMATCH", frame_payload.txn_id)
    BY <1>4, Zenon DEF BlakeRetireEvent
  <2>2. /\ Say("fault", "RETIRE_MISMATCH", frame_payload.txn_id, None) /\ DatapathIdle
        /\ KeepStaged /\ KeepBlake /\ KeepCommitted /\ UNCHANGED asked
    BY <2>1, Zenon DEF Reject, emit_fault
  <2>3. NothingHeld' /\ LifeInv'
    BY <1>2, <2>2, ShellWithdraws, Zenon
  <2>4. TransmitterInv' /\ reply'.kind = "fault"
    <3>1. "fault" \in ReplyKinds
      BY KindsOfReply
    <3> QED
      BY <2>2, <2>3, <3>1, AnswerDue, Zenon DEF Eventful, NothingHeld
  <2>5. CommittedInv'
    BY <2>2, CommittedStays, Zenon DEF KeepCommitted, Eventful, IInv
  <2>6. reply'.kind \in {"fault", "retired"}
    BY <2>4
  <2>7. HeldInv'
    BY <2>2, <2>3, <2>6, WithdrawnKeeps, Zenon
  <2> QED
    BY <2>4, <2>5, <2>7, Zenon DEF Sound
<1> QED
  BY <1>3, <1>4

\* The frontend's RETIRE, matched or not.
LEMMA RetireKeeps ==
  ASSUME Eventful, compute = C_IDLE, event_ready, RetireEvent
  PROVE  Sound
<1>1. rx.state = "frame" /\ frame_opcode = "RETIRE" /\ ~life.result_pending
  BY Zenon DEF RetireEvent
<1>2. ~blake_retire_attempt
  BY <1>1, Zenon DEF blake_retire_attempt
<1>3. CASE Reject("BAD_STATE", frame_payload.txn_id)
  <2>1. "BAD_STATE" \notin DiscardingFaults
    BY DEF DiscardingFaults
  <2> QED
    BY <1>2, <1>3, <2>1, RejectKeeps, Zenon
<1>4. CASE result_pending /\ ScalarRetire
  <2>1. CommitTo(staged.next_pc, staged.next_fp) /\ Withdraw
    BY <1>4, Zenon DEF ScalarRetire
  <2>2. NothingHeld' /\ LifeInv'
    BY <1>2, <1>4, <2>1, FrontendWithdraws, Zenon DEF CommitTo
  <2>3. staged.next_pc \in 0..INDEX_LIMIT /\ staged.next_fp \in 0..(INDEX_LIMIT - 1)
    <3>1. staged \in StagedResults
      BY <1>4, Zenon DEF Eventful, IInv, HeldInv, StagedInv
    <3> QED
      BY <3>1 DEF StagedResults
  <2> QED
    BY <1>1, <2>1, <2>2, <2>3, CommitKeeps, Zenon
<1>5. CASE result_pending /\ RetireMismatch
  <2>1. /\ Say("fault", "RETIRE_MISMATCH", frame_payload.txn_id, None)
        /\ DatapathIdle /\ KeepBlake /\ KeepCommitted /\ Withdraw /\ UNCHANGED asked
    BY <1>5, Zenon DEF RetireMismatch
  <2>2. NothingHeld' /\ LifeInv'
    BY <1>2, <1>5, <2>1, FrontendWithdraws, Zenon
  <2>3. TransmitterInv' /\ reply'.kind = "fault"
    <3>1. "fault" \in ReplyKinds
      BY KindsOfReply
    <3> QED
      BY <2>1, <2>2, <3>1, AnswerDue, Zenon DEF Eventful, NothingHeld
  <2>4. CommittedInv'
    BY <2>1, CommittedStays, Zenon DEF KeepCommitted, Eventful, IInv
  <2>5. reply'.kind \in {"fault", "retired"}
    BY <2>3
  <2>6. HeldInv'
    BY <2>1, <2>2, <2>5, WithdrawnKeeps, Zenon
  <2> QED
    BY <2>3, <2>4, <2>6, Zenon DEF Sound
<1> QED
  BY <1>3, <1>4, <1>5, Zenon DEF RetireEvent

\* A service refused leaves nothing held.
LEMMA ServiceRefusedKeeps ==
  ASSUME Eventful, ~blake_retire_attempt, NEW request, Admitted(request),
         request.opcode = "BLAKE3_REQUEST", BlakeFault(request) # "OK",
         DecodeBlake3(request)
  PROVE  Sound
<1>1. /\ DatapathIdle /\ KeepStaged /\ KeepCommitted
      /\ Say("fault", BlakeFault(request), request.txn_id, None)
      /\ service' = [service EXCEPT !.access = ServiceBases(request)]
      /\ blake_pulse' = "none"
      /\ asked' = IF life.service_seq >= ServiceSeqMax THEN None
                  ELSE Asked(request, "FAULT")
  BY Zenon DEF DecodeBlake3
<1>2. compute' = C_IDLE /\ scratch' = None /\ alu' = AluIdle /\ encoder' = EncoderIdle
  BY <1>1, Zenon DEF DatapathIdle
<1>3. TransmitterInv' /\ reply'.kind = "fault"
  <2>1. "fault" \in ReplyKinds
    BY KindsOfReply
  <2> QED
    BY <1>1, <1>2, <2>1, AnswerDue, Zenon DEF Eventful
<1>4. CommittedInv'
  BY <1>1, CommittedStays, Zenon DEF KeepCommitted, Eventful, IInv
<1>5. LifeKept
  BY LifeStays, Zenon DEF Eventful, IInv, HeldInv, AtRest
<1>6. LifeInv'
  <2>1. Shaped(service)
    BY Zenon DEF Eventful, IInv, HeldInv, LifeInv, Shaped
  <2>2. ASSUME NEW x PROVE Shaped([service EXCEPT !.access = x])
    BY <2>1 DEF Shaped
  <2>3. PICK s : s = service' /\ Shaped(s)
    BY <1>1, <2>2, Zenon
  <2>4. Shaped(service)'
    BY <2>3, Zenon DEF Shaped
  <2> QED
    BY <2>4, LifeTyped, Zenon DEF Eventful, IInv, HeldInv
<1>7. NothingHeld'
  <2>1. result_pending' = result_pending /\ staged' = staged
        /\ capture_result_crc' = FALSE
    BY <1>1, StagedKept, Zenon DEF Eventful, AtRest
  <2>2. result_pending' = FALSE /\ staged' = None
    BY <2>1, Zenon DEF Eventful, IInv, HeldInv, StagedInv, Admitted
  <2>3. ~life'.service_pending /\ ~life'.result_pending
    BY <1>5, Zenon DEF LifeKept, Admitted
  <2> QED
    BY <1>1, <1>2, <2>1, <2>2, <2>3, Zenon DEF NothingHeld
<1>8. (asked' = None \/ asked' \in Questions) /\ VerdictInv'
  <2>1. CASE life.service_seq >= ServiceSeqMax
    BY <1>1, <2>1, Zenon DEF VerdictInv
  <2>2. CASE ~(life.service_seq >= ServiceSeqMax)
    <3>1. asked' = Asked(request, "FAULT")
      BY <1>1, <2>2, Zenon
    <3>2. Verdicts(request) = "FAULT" /\ request \in Requests
      BY <2>2, ServiceRefused, Zenon DEF Admitted, Placed
    <3>3. "FAULT" \in {"open", "OK", "FAULT", "SERVICE"}
      OBVIOUS
    <3> QED
      BY <3>1, <3>2, <3>3, VerdictReached, Zenon
  <2> QED
    BY <2>1, <2>2
<1>9. HeldInv'
  <2>1. tx' # "done" /\ reply'.kind \notin {"result", "service", "blake_result"}
    BY <1>3 DEF Eventful, AtRest
  <2> QED
    BY <1>6, <1>7, <1>8, <2>1, NothingHeldStep, Zenon
<1> QED
  BY <1>3, <1>4, <1>9, Zenon DEF Sound

\* A service started is the suspended transition.
LEMMA ServiceStartedKeeps ==
  ASSUME Eventful, ~blake_retire_attempt, NEW request, Admitted(request),
         request.opcode = "BLAKE3_REQUEST", BlakeFault(request) = "OK",
         request = frame_payload, DecodeBlake3(request)
  PROVE  Sound
<1> DEFINE n == Len(request.cells)
           suspended == execute(request)
<1>1. /\ DatapathIdle /\ KeepStaged /\ KeepCommitted
      /\ Say("service", "SERVICE_REQUIRED", None, None)
      /\ service' = [service EXCEPT
                       !.access = ServiceBases(request),
                       !.out = <<request.cells[n - 1], request.cells[n]>>]
      /\ blake_pulse' = "start"
      /\ blake_start' = [txn_id |-> request.txn_id,
                         next_pc |-> request.pc + 1, next_fp |-> request.fp]
      /\ asked' = Asked(request, "SERVICE")
  BY Zenon DEF DecodeBlake3
<1>2. compute' = C_IDLE /\ scratch' = None /\ alu' = AluIdle /\ encoder' = EncoderIdle
  BY <1>1, Zenon DEF DatapathIdle
<1>3. TransmitterInv' /\ reply'.kind = "service"
  <2>1. "service" \in ReplyKinds
    BY KindsOfReply
  <2> QED
    BY <1>1, <1>2, <2>1, AnswerDue, Zenon DEF Eventful
<1>4. CommittedInv'
  BY <1>1, CommittedStays, Zenon DEF KeepCommitted, Eventful, IInv
<1>5. LifeKept
  BY LifeStays, Zenon DEF Eventful, IInv, HeldInv, AtRest
<1>6. /\ ~life'.service_pending /\ ~life'.result_pending
      /\ life'.service_seq = life.service_seq
  BY <1>5, Zenon DEF LifeKept, Admitted
<1>7. service'.access = ServiceBases(request)
      /\ service'.out = <<request.cells[n - 1], request.cells[n]>>
      /\ Shaped(service)'
  <2>1. Shaped(service)
    BY Zenon DEF Eventful, IInv, HeldInv, LifeInv, Shaped
  <2> DEFINE bases == ServiceBases(request)
             outs  == <<request.cells[n - 1], request.cells[n]>>
             kept  == service.writes
             oldA  == service.access
             oldO  == service.out
  <2>2. service = [access |-> oldA, out |-> oldO, writes |-> kept]
    BY <2>1, Zenon DEF Shaped
  <2>3. service' = [service EXCEPT !.access = bases, !.out = outs]
    BY <1>1, Zenon
  <2> HIDE DEF bases, outs, kept, oldA, oldO
  <2>4. service' = [access |-> bases, out |-> outs, writes |-> kept]
    BY ONLY <2>2, <2>3
  <2>5. service'.access = bases /\ service'.out = outs /\ service'.writes = kept
    BY ONLY <2>4
  <2> QED
    BY <2>4, <2>5, Zenon DEF Shaped, bases, outs
<1>8. LifeInv'
  BY <1>7, LifeTyped, Zenon DEF Eventful, IInv, HeldInv
<1>9. result_pending' = FALSE /\ staged' = None /\ capture_result_crc' = FALSE
  <2>1. result_pending' = result_pending /\ staged' = staged
        /\ capture_result_crc' = FALSE
    BY <1>1, StagedKept, Zenon DEF Eventful, AtRest
  <2> QED
    BY <2>1, Zenon DEF Eventful, IInv, HeldInv, StagedInv, Admitted
<1>10. ~(life.service_seq >= ServiceSeqMax) /\ suspended.status = "SERVICE_REQUIRED"
  BY ServiceStarted, Zenon DEF Admitted
<1>11. DatapathInv'
  <2>1. C_IDLE \notin AluStates /\ C_IDLE \notin EncoderStates
    BY DEF C_IDLE, AluStates, EncoderStates
  <2> QED
    BY <1>2, <2>1, Zenon DEF DatapathInv
<1>12. ScratchInv'
  BY <1>2, Zenon DEF ScratchInv
<1>13. PulseInv'
  <2>1. life'.service_seq < ServiceSeqMax
    <3>1. life.service_seq \in 0..ServiceSeqMax
      BY DEF Eventful, IInv, HeldInv, LifeInv
    <3> QED
      BY <1>6, <1>10, <3>1, FrontendBounds
  <2>2. tx_start'
    BY <1>1, Zenon DEF Say
  <2> QED
    BY <1>1, <1>3, <2>1, <2>2 DEF PulseInv
<1>14. OneTransaction'
  BY <1>1, <1>2, <1>6, <1>9 DEF OneTransaction
<1>15. HoldingInv'
  <2>1. "SERVICE" \in {"open", "OK", "SERVICE"}
    OBVIOUS
  <2> QED
    BY <1>1, <2>1, HoldsRequest, Zenon
<1>16. StagedInv'
  BY <1>9, Zenon DEF StagedInv
<1>17. Placed(request) /\ request \in Requests
       /\ "SERVICE" \in {"open", "OK", "FAULT", "SERVICE"}
  BY DEF Admitted, Placed
<1>18. VerdictInv'
  <2>1. Verdicts(request) = "SERVICE"
    BY <1>10, <1>17, SuspendedRule, Zenon
  <2> QED
    BY <1>1, <1>17, <2>1, VerdictReached, Zenon
<1>19. asked'.request = request /\ asked'.digest = None
  BY <1>1, <1>17, QuestionType, Zenon
<1>20. SuspendedInv'
  <2> DEFINE all == blake3_addresses(request)
             frame == Frame(all, request.cells)
             operands == [i \in 1..(Len(all) - 2) |-> Read(frame, all[i])]
  <2>1. ~Overflows(all)
        /\ suspended = [status |-> "SERVICE_REQUIRED", next_pc |-> request.pc + 1,
                        next_fp |-> request.fp, accesses |-> all, frame |-> frame,
                        operands |-> operands]
    BY <1>10, <1>17, SuspendedRule, Zenon
  <2>2. Companions(ServiceBases(request)) = all
    BY <1>17, <2>1, ServiceCompanions, Zenon
  <2> HIDE DEF all, frame, operands, suspended
  <2>3. suspended.accesses = all /\ suspended.next_pc = request.pc + 1
        /\ suspended.next_fp = request.fp
    BY <2>1
  <2>4. execute(asked.request)' = suspended
    BY <1>19, Zenon DEF suspended
  <2>5. Companions(service.access)' = suspended.accesses
    <3>1. Companions(service.access)' = Companions(ServiceBases(request))
      BY <1>7, Zenon DEF Companions
    <3> QED
      BY <2>2, <2>3, <3>1, Zenon
  <2>6. blake_start' = [txn_id |-> asked'.request.txn_id,
                        next_pc |-> suspended.next_pc, next_fp |-> suspended.next_fp]
    BY <1>1, <1>19, <2>3, Zenon
  <2>7. service'.out = <<asked'.request.cells[Len(asked'.request.cells) - 1],
                         asked'.request.cells[Len(asked'.request.cells)]>>
    BY <1>7, <1>19, Zenon
  <2>8. frame_payload' = asked'.request
    BY <1>19, Zenon DEF Eventful
  <2>9. /\ blake_pulse' # "accept" /\ blake_pulse' \notin {"accept", "discard"}
    BY <1>1
  <2>10. suspended.status = "SERVICE_REQUIRED"
    BY <1>10, Zenon DEF suspended
  <2> QED
    BY <1>6, <1>19, <2>4, <2>5, <2>6, <2>7, <2>8, <2>9, <2>10, Zenon DEF SuspendedInv
<1>21. CrcInv'
  <2>1. tx' # "done"
    BY DEF Eventful, AtRest
  <2> QED
    BY <1>6, <1>9, <2>1, Zenon DEF CrcInv
<1>22. DiscardInv'
  BY <1>3 DEF DiscardInv
<1>23. HeldInv'
  BY <1>8, <1>11, <1>12, <1>13, <1>14, <1>15, <1>16, <1>18, <1>20, <1>21, <1>22, Zenon DEF HeldInv
<1> QED
  BY <1>3, <1>4, <1>23 DEF Sound

\* A service answered for the pending identifiers, at rest.
Answered(digest) ==
    /\ Eventful /\ ~blake_retire_attempt /\ life.service_pending
    /\ rx.state = "frame" /\ frame_opcode = "SERVICE_RESPONSE"
    /\ digest = frame_payload.digest

\* What an answer finds.
LEMMA AnswerFinds ==
  ASSUME NEW digest, Answered(digest)
  PROVE  /\ ServiceHeld /\ ~life.result_pending /\ ~result_pending /\ staged = None
         /\ digest \in Digests /\ digest # None /\ LifeKept
         /\ asked \in Questions /\ asked # None /\ Placed(asked.request)
         /\ asked.request.opcode = "BLAKE3_REQUEST"
         /\ execute(asked.request).status = "SERVICE_REQUIRED"
<1>1. life.service_pending /\ Eventful
  BY Zenon DEF Answered
<1>2. ServiceHeld
  BY <1>1, Zenon DEF ServiceHeld
<1>3. OneTransaction /\ StagedInv /\ LifeInv /\ ReceiverInv
  BY <1>1, Zenon DEF Eventful, IInv, HeldInv
<1>4. ~life.result_pending /\ ~result_pending /\ staged = None
  BY <1>1, <1>3, Zenon DEF OneTransaction, StagedInv
<1>5. digest \in Digests
  <2>1. frame_payload \in Frames /\ frame_payload.opcode = "SERVICE_RESPONSE"
    BY <1>3, Zenon DEF ReceiverInv, Answered
  <2> QED
    BY <2>1, FrameKinds, Zenon DEF Answered
<1>6. digest # None
  BY <1>5, NoneAssumption
<1>7. LifeKept
  BY <1>1, <1>3, LifeStays, Zenon DEF Eventful, AtRest, Answered
<1>8. IInv
  BY <1>1, Zenon DEF Eventful
<1>9. /\ asked \in Questions /\ Placed(asked.request)
      /\ asked.request.opcode = "BLAKE3_REQUEST"
      /\ execute(asked.request).status = "SERVICE_REQUIRED"
  BY <1>2, <1>8, HeldService, Zenon
<1>10. asked # None
  BY <1>9, NoneAssumption
<1> QED
  BY <1>2, <1>4, <1>5, <1>6, <1>7, <1>9, <1>10, Zenon

\* The rules resume the same service, and to the same end.
LEMMA AnswerResumes ==
  ASSUME NEW digest, Answered(digest), NEW verdict \in {"OK", "FAULT"},
         asked' = [asked EXCEPT !.verdict = verdict, !.digest = digest],
         (verdict = "FAULT") = OutputConflict(digest)
  PROVE  /\ asked' \in Questions /\ asked' # None
         /\ asked'.request = asked.request /\ asked'.verdict = verdict
         /\ asked'.digest = digest
         /\ VerdictInv'
         /\ ~OutputConflict(digest) => OutputWrites(digest) = Resumed(asked)'.writes
<1>1. /\ asked \in Questions /\ Placed(asked.request) /\ digest \in Digests /\ digest # None
      /\ asked.request.opcode = "BLAKE3_REQUEST"
      /\ execute(asked.request).status = "SERVICE_REQUIRED"
  BY AnswerFinds, Zenon
<1>2. asked' \in Questions /\ asked'.request = asked.request
      /\ asked'.verdict = verdict /\ asked'.digest = digest
  <2>1. PICK q \in Questions : q = asked
    BY <1>1
  <2>2. asked' = [q EXCEPT !.verdict = verdict, !.digest = digest]
    BY <2>1
  <2>3. q = [request |-> q.request, verdict |-> q.verdict, digest |-> q.digest]
        /\ q.request \in Requests
    BY DEF Questions
  <2>4. asked' = [request |-> q.request, verdict |-> verdict, digest |-> digest]
    BY ONLY <2>2, <2>3
  <2>5. asked'.request = q.request /\ asked'.verdict = verdict /\ asked'.digest = digest
    BY ONLY <2>4
  <2>6. verdict \in {"open", "OK", "FAULT", "SERVICE"} /\ digest \in Digests \cup {None}
    BY <1>1
  <2>7. asked' \in Questions
    BY ONLY <2>3, <2>4, <2>6 DEF Questions
  <2> QED
    BY <2>1, <2>5, <2>7, Zenon
<1>3. asked' # None
  BY <1>2, NoneAssumption
<1> DEFINE suspended == execute(asked.request)
           resumed   == resume_blake3(suspended.frame, suspended.accesses, digest)
<1>4. Resumed(asked)' = resumed
  BY <1>2, Zenon DEF Resumed
<1>5. /\ OutputConflict(digest) <=> resumed.status \in FaultStatus
      /\ ~OutputConflict(digest) => OutputWrites(digest) = resumed.writes
  <2>1. /\ service.access = suspended.accesses
        /\ service.out = <<asked.request.cells[Len(asked.request.cells) - 1],
                           asked.request.cells[Len(asked.request.cells)]>>
    BY Zenon DEF Answered, Eventful, IInv, HeldInv, SuspendedInv
  <2> QED
    BY <1>1, <2>1, ServiceResumes, Zenon
<1> HIDE DEF resumed, suspended
<1>6. VerdictOf(asked)'
  <2>1. VerdictOf(asked)' <=>
          IF asked'.request.opcode # "BLAKE3_REQUEST"
          THEN asked'.verdict # "open" => asked'.verdict = Verdicts(asked'.request)
          ELSE IF asked'.digest = None THEN asked'.verdict = Verdicts(asked'.request)
          ELSE (asked'.verdict = "FAULT") = (Resumed(asked)'.status \in FaultStatus)
    BY Zenon DEF VerdictOf
  <2>2. (asked'.verdict = "FAULT") = (Resumed(asked)'.status \in FaultStatus)
    <3>1. (verdict = "FAULT") <=> (resumed.status \in FaultStatus)
      BY <1>5, Zenon
    <3>2. (verdict = "FAULT") = (resumed.status \in FaultStatus)
      BY ONLY <3>1
    <3> QED
      BY <1>2, <1>4, <3>2, Zenon
  <2> HIDE DEF Verdicts
  <2> QED
    BY <1>1, <1>2, <2>1, <2>2, Zenon
<1>7. VerdictInv'
  BY <1>6, Zenon DEF VerdictInv
<1> QED
  BY <1>2, <1>3, <1>4, <1>5, <1>7, Zenon

\* The parts of the invariant an answer touches, its pulse still to come.
LEMMA AnswerKeeps ==
  ASSUME NEW digest, Answered(digest), NEW verdict \in {"OK", "FAULT"},
         asked' = [asked EXCEPT !.verdict = verdict, !.digest = digest],
         (verdict = "FAULT") = OutputConflict(digest),
         DatapathIdle, KeepStaged, KeepCommitted, tx_start' = TRUE,
         blake_pulse' = (IF verdict = "FAULT" THEN "discard" ELSE "accept"),
         reply'.kind = (IF verdict = "FAULT" THEN "fault" ELSE "blake_result"),
         service'.access = service.access, service'.out = service.out, Shaped(service)',
         verdict = "OK" => service'.writes = OutputWrites(digest)
  PROVE  CommittedInv' /\ HeldInv'
<1>1. /\ ~life.result_pending /\ ~result_pending /\ staged = None
      /\ digest # None /\ LifeKept /\ ServiceHeld
      /\ asked \in Questions /\ asked # None /\ Placed(asked.request)
      /\ asked.request.opcode = "BLAKE3_REQUEST"
      /\ execute(asked.request).status = "SERVICE_REQUIRED"
  BY AnswerFinds, Zenon
<1>2. Eventful /\ life.service_pending
  BY Zenon DEF Answered
<1>3. /\ asked' \in Questions /\ asked' # None /\ asked'.request = asked.request
      /\ asked'.digest = digest /\ VerdictInv'
      /\ ~OutputConflict(digest) => OutputWrites(digest) = Resumed(asked)'.writes
  BY AnswerResumes, Zenon
<1>4. compute' = C_IDLE /\ scratch' = None /\ alu' = AluIdle /\ encoder' = EncoderIdle
  BY Zenon DEF DatapathIdle
<1>5. /\ life'.service_pending /\ ~life'.result_pending
      /\ life'.service_seq = life.service_seq
      /\ life'.txn_id = life.txn_id /\ life'.service_id = life.service_id
      /\ life'.next_pc = life.next_pc /\ life'.next_fp = life.next_fp
  BY <1>1, <1>2, Zenon DEF LifeKept
<1>6. ~result_pending' /\ result_pending' \in BOOLEAN /\ staged' = None
      /\ capture_result_crc' = FALSE
  <2>1. result_pending' = result_pending /\ staged' = staged
        /\ capture_result_crc' = FALSE
    BY <1>2, StagedKept, Zenon DEF Eventful, AtRest
  <2> QED
    BY <1>1, <1>2, <2>1, Zenon DEF Eventful, IInv, HeldInv, StagedInv
<1>7. CommittedInv'
  BY <1>2, CommittedStays, Zenon DEF KeepCommitted, Eventful, IInv
<1>8. LifeInv'
  BY <1>2, LifeTyped, Zenon DEF Eventful, IInv, HeldInv
<1>9. blake_pulse' \in {"accept", "discard"} /\ blake_pulse' # "none" /\ blake_pulse' # "start"
      /\ (blake_pulse' = "accept" => verdict = "OK")
  BY Zenon
<1>10. reply'.kind # "service" /\ reply'.kind # "result"
       /\ (reply'.kind = "blake_result" <=> blake_pulse' = "accept")
       /\ (reply'.kind = "fault" <=> blake_pulse' = "discard")
  <2>1. CASE verdict = "FAULT"
    BY <2>1
  <2>2. CASE verdict # "FAULT"
    BY <2>2
  <2> QED
    BY <2>1, <2>2
<1>11. DatapathInv'
  <2>1. C_IDLE \notin AluStates /\ C_IDLE \notin EncoderStates
    BY DEF C_IDLE, AluStates, EncoderStates
  <2> QED
    BY <1>4, <2>1, Zenon DEF DatapathInv
<1>12. ScratchInv'
  BY <1>4, Zenon DEF ScratchInv
<1>13. PulseInv'
  <2>1. blake_pulse' \in {"none", "start", "accept", "discard"}
    BY <1>9
  <2> QED
    BY <1>9, <1>10, <2>1, Zenon DEF PulseInv
<1>14. OneTransaction'
  BY <1>4, <1>5, <1>6, <1>9, Zenon DEF OneTransaction
<1>15. HoldingInv'
  <2>1. Holding
    BY <1>1, Zenon DEF Holding
  <2>2. state_valid => committed = [pc |-> asked.request.pc, fp |-> asked.request.fp]
    BY <1>2, <2>1, Zenon DEF Eventful, IInv, HeldInv, HoldingInv
  <2>3. state_valid' = state_valid /\ committed' = committed
    BY DEF KeepCommitted, commitVars
  <2>4. state_valid' => committed' = [pc |-> asked'.request.pc, fp |-> asked'.request.fp]
    BY <1>3, <2>2, <2>3, Zenon
  <2>5. Placed(asked.request)' /\ asked'.request.opcode = "BLAKE3_REQUEST"
    BY <1>1, <1>3, Zenon DEF Placed
  <2> QED
    BY <1>3, <2>4, <2>5, Zenon DEF HoldingInv
<1>16. StagedInv'
  BY <1>6, Zenon DEF StagedInv
<1>17. SuspendedInv'
  <2> DEFINE suspended == execute(asked.request)
  <2>1. execute(asked.request)' = suspended
    BY <1>3, Zenon
  <2>2. /\ life.txn_id = asked.request.txn_id
        /\ life.next_pc = suspended.next_pc
        /\ life.next_fp = suspended.next_fp
        /\ service.access = suspended.accesses
        /\ life.service_id = life.service_seq
        /\ service.out = <<asked.request.cells[Len(asked.request.cells) - 1],
                           asked.request.cells[Len(asked.request.cells)]>>
    BY <1>2, Zenon DEF Eventful, IInv, HeldInv, SuspendedInv
  <2>3. /\ life'.txn_id = asked'.request.txn_id
        /\ life'.next_pc = suspended.next_pc
        /\ life'.next_fp = suspended.next_fp
        /\ service'.access = suspended.accesses
        /\ life'.service_id = life'.service_seq
    BY <1>3, <1>5, <2>2, Zenon
  <2>4. service'.out = <<asked'.request.cells[Len(asked'.request.cells) - 1],
                         asked'.request.cells[Len(asked'.request.cells)]>>
    BY <1>3, <2>2, Zenon
  <2>5. blake_pulse' = "accept" => service'.writes = Resumed(asked)'.writes
    <3>1. ASSUME verdict = "OK" PROVE ~OutputConflict(digest)
      BY <3>1
    <3> QED
      BY <1>3, <1>9, <3>1, Zenon
  <2>6. asked'.digest # None
    BY <1>1, <1>3
  <2>7. suspended.status = "SERVICE_REQUIRED"
    BY <1>1, Zenon
  <2> HIDE DEF suspended
  <2> QED
    BY <1>5, <1>9, <1>10, <2>1, <2>3, <2>4, <2>5, <2>6, <2>7, Zenon DEF SuspendedInv
<1>18. CrcInv'
  <2>1. tx' # "done"
    BY <1>2 DEF Eventful, AtRest
  <2> QED
    BY <1>5, <1>6, <2>1, Zenon DEF CrcInv
<1>19. DiscardInv'
  BY <1>5, <1>6, <1>9, <1>10 DEF DiscardInv
<1>20. HeldInv'
  BY <1>3, <1>8, <1>11, <1>12, <1>13, <1>14, <1>15, <1>16, <1>17, <1>18, <1>19, Zenon DEF HeldInv
<1> QED
  BY <1>7, <1>20

\* Every answer, for the pending service or not.
LEMMA ServiceKeeps ==
  ASSUME Eventful, compute = C_IDLE, ServiceEvent
  PROVE  Sound
<1> DEFINE digest == frame_payload.digest
<1>1. rx.state = "frame" /\ frame_opcode = "SERVICE_RESPONSE"
  BY Zenon DEF ServiceEvent
<1>2. ~blake_retire_attempt
  BY <1>1 DEF blake_retire_attempt
<1>3. CASE ServiceFault # "OK"
  <2>1. Reject(ServiceFault, frame_payload.txn_id)
    BY <1>3, Zenon DEF ServiceEvent
  <2>2. ServiceFault \notin DiscardingFaults
    BY <1>3 DEF ServiceFault, DiscardingFaults
  <2> QED
    BY <1>2, <2>1, <2>2, RejectKeeps, Zenon
<1>4. CASE ServiceFault = "OK"
  <2>1. life.service_pending
    BY <1>4 DEF ServiceFault
  <2>2. Answered(digest)
    BY <1>1, <1>2, <2>1, Zenon DEF Answered
  <2>3. DatapathIdle /\ KeepStaged /\ KeepCommitted
    BY <1>4, Zenon DEF ServiceEvent
  <2>4. compute' = C_IDLE
    BY <2>3, Zenon DEF DatapathIdle
  <2>5. Shaped(service)
    BY Zenon DEF Eventful, IInv, HeldInv, LifeInv, Shaped
  <2>6. CASE OutputConflict(digest)
    <3>1. /\ Say("fault", "WRITE_CONFLICT", frame_payload.txn_id, None)
          /\ blake_pulse' = "discard" /\ service' = service
          /\ asked' = [asked EXCEPT !.verdict = "FAULT", !.digest = digest]
      BY <1>4, <2>6, Zenon DEF ServiceEvent
    <3>2. TransmitterInv' /\ reply'.kind = "fault"
      <4>1. "fault" \in ReplyKinds
        BY KindsOfReply
      <4> QED
        BY <2>4, <3>1, <4>1, AnswerDue, Zenon DEF Eventful
    <3>3. Shaped(service)'
      BY <2>5, <3>1, Zenon DEF Shaped
    <3>4. tx_start' = TRUE
      BY <3>1, Zenon DEF Say
    <3> DEFINE verdict == "FAULT"
    <3>5. /\ verdict \in {"OK", "FAULT"} /\ (verdict = "FAULT") = OutputConflict(digest)
          /\ blake_pulse' = (IF verdict = "FAULT" THEN "discard" ELSE "accept")
          /\ reply'.kind = (IF verdict = "FAULT" THEN "fault" ELSE "blake_result")
          /\ (verdict = "OK" => service'.writes = OutputWrites(digest))
      <4>1. OutputConflict(digest) \in BOOLEAN
        BY Zenon DEF OutputConflict
      <4> HIDE DEF digest
      <4> QED
        BY <2>6, <3>1, <3>2, <4>1
    <3>6. service'.access = service.access /\ service'.out = service.out
      BY <3>1
    <3> HIDE DEF verdict
    <3>7. asked' = [asked EXCEPT !.verdict = verdict, !.digest = digest]
      BY <3>1 DEF verdict
    <3>8. CommittedInv' /\ HeldInv'
      BY <2>2, <2>3, <3>3, <3>4, <3>5, <3>6, <3>7, AnswerKeeps, Zenon
    <3> QED
      BY <3>2, <3>8, Zenon DEF Sound
  <2>7. CASE ~OutputConflict(digest)
    <3>1. /\ Say("blake_result", "OK", None, None)
          /\ blake_pulse' = "accept"
          /\ service' = [service EXCEPT !.writes = OutputWrites(digest)]
          /\ asked' = [asked EXCEPT !.verdict = "OK", !.digest = digest]
      BY <1>4, <2>7, Zenon DEF ServiceEvent
    <3>2. TransmitterInv' /\ reply'.kind = "blake_result"
      <4>1. "blake_result" \in ReplyKinds
        BY KindsOfReply
      <4> QED
        BY <2>4, <3>1, <4>1, AnswerDue, Zenon DEF Eventful
    <3>3. /\ service'.access = service.access /\ service'.out = service.out
          /\ service'.writes = OutputWrites(digest) /\ Shaped(service)'
      <4> DEFINE new == OutputWrites(digest)
                 access == service.access
                 out == service.out
                 old == service.writes
      <4>1. service = [access |-> access, out |-> out, writes |-> old]
        BY <2>5, Zenon DEF Shaped
      <4>2. service' = [service EXCEPT !.writes = new]
        BY <3>1, Zenon
      <4> HIDE DEF new, access, out, old
      <4>3. service' = [access |-> access, out |-> out, writes |-> new]
        BY ONLY <4>1, <4>2
      <4>4. service'.access = access /\ service'.out = out /\ service'.writes = new
        BY ONLY <4>3
      <4> QED
        BY <4>3, <4>4, Zenon DEF Shaped, new, access, out
    <3>4. tx_start' = TRUE
      BY <3>1, Zenon DEF Say
    <3> DEFINE verdict == "OK"
    <3>5. /\ verdict \in {"OK", "FAULT"} /\ (verdict = "FAULT") = OutputConflict(digest)
          /\ blake_pulse' = (IF verdict = "FAULT" THEN "discard" ELSE "accept")
          /\ reply'.kind = (IF verdict = "FAULT" THEN "fault" ELSE "blake_result")
          /\ (verdict = "OK" => service'.writes = OutputWrites(digest))
      <4>1. OutputConflict(digest) \in BOOLEAN
        BY Zenon DEF OutputConflict
      <4> HIDE DEF digest
      <4> QED
        BY <2>7, <3>1, <3>2, <3>3, <4>1
    <3> HIDE DEF verdict
    <3>7. asked' = [asked EXCEPT !.verdict = verdict, !.digest = digest]
      BY <3>1 DEF verdict
    <3>8. CommittedInv' /\ HeldInv'
      BY <2>2, <2>3, <3>3, <3>4, <3>5, <3>7, AnswerKeeps, Zenon
    <3> QED
      BY <3>2, <3>8, Zenon DEF Sound
  <2> QED
    BY <2>6, <2>7
<1> QED
  BY <1>3, <1>4

-----------------------------------------------------------------------------
(* Events and datapaths preserve the invariant                             *)

\* A request the guard lets through, with nothing pending, is admitted.
LEMMA GuardAdmits ==
  ASSUME IInv, rx.state = "frame", frame_opcode \in INSTRUCTION_OPCODES,
         ~Pending, GuardFault(frame_payload) = "OK"
  PROVE  Admitted(frame_payload) /\ frame_payload.opcode = frame_opcode
<1> DEFINE request == frame_payload
<1>1. request \in Frames /\ frame_opcode = request.opcode
  BY Zenon DEF IInv, ReceiverInv
<1>2. request \in Requests
  BY <1>1, FrameKinds, Zenon
<1>3. request.pc \in Nat /\ request.fp \in Nat
  BY <1>2, RequestAssumption, Zenon DEF IsRequest
<1>4. /\ request.profile = active_profile
      /\ ~(state_valid /\ <<request.pc, request.fp>> # <<committed.pc, committed.fp>>)
      /\ ~(request.pc >= INDEX_LIMIT) /\ ~(request.fp >= INDEX_LIMIT)
  BY DEF GuardFault
<1>5. request.pc \in 0..(INDEX_LIMIT - 1) /\ request.fp \in 0..(INDEX_LIMIT - 1)
  BY <1>3, <1>4, U32Assumption
<1>6. request.profile = INTERPRETER_COMPAT
  BY <1>4, Zenon DEF IInv, CommittedInv
<1>7. state_valid => committed = [pc |-> request.pc, fp |-> request.fp]
  <2>1. committed \in ScalarState
    BY DEF IInv, CommittedInv
  <2>2. committed = [pc |-> committed.pc, fp |-> committed.fp]
    BY <2>1 DEF ScalarState
  <2>3. state_valid => committed.pc = request.pc /\ committed.fp = request.fp
    BY <1>4
  <2> QED
    BY <2>2, <2>3, Zenon
<1> QED
  BY <1>1, <1>2, <1>5, <1>6, <1>7, Zenon DEF Admitted, Placed, Pending

\* The faults of frames that nothing is held against.
LEMMA HarmlessFaults ==
  /\ \A status \in BodyFaults \cup {"BAD_SOF"} \cup ContentFaults :
        status \notin DiscardingFaults
  /\ {"BAD_STATE", "BAD_VERSION", "BAD_PROFILE", "STATE_MISMATCH", "INDEX_RANGE"}
        \cap DiscardingFaults = {}
  BY DEF BodyFaults, ContentFaults, DiscardingFaults

\* Every frame event keeps what is held in order.
LEMMA EventKeeps ==
  ASSUME Eventful, compute = C_IDLE, event_ready,
         \/ DefectEvent \/ StatusEvent \/ NegotiateEvent
         \/ BlakeRetireEvent \/ RetireEvent
         \/ ServiceEvent \/ InstructionEvent
  PROVE  Sound /\ (compute' # C_IDLE => scratch'.request.opcode = frame_opcode)
<1> DEFINE Goal == Sound /\ (compute' # C_IDLE => scratch'.request.opcode = frame_opcode)
<1>1. ASSUME NEW status, NEW txn_id, Reject(status, txn_id) PROVE compute' = C_IDLE
  BY <1>1, Zenon DEF Reject, emit_fault, DatapathIdle
<1>2. ASSUME NEW status, NEW txn_id, Reject(status, txn_id), status \notin DiscardingFaults,
             rx.state # "frame" \/ frame_opcode # "RETIRE"
      PROVE  Goal
  <2>1. ~blake_retire_attempt
    BY <1>2, Zenon DEF blake_retire_attempt
  <2> QED
    BY <1>1, <1>2, <2>1, RejectKeeps, Zenon
<1>3. ReceiverInv /\ CommittedInv
  BY Zenon DEF Eventful, IInv
<1>4. CASE DefectEvent
  <2>1. CASE rx.state = "fault" /\ Reject(rx.status, 0)
    <3>1. rx.status \in BodyFaults \cup {"BAD_SOF"}
      BY <1>3, <2>1, Zenon DEF ReceiverInv
    <3>2. rx.status \notin DiscardingFaults /\ rx.state # "frame"
      BY <2>1, <3>1, HarmlessFaults
    <3> QED
      BY <1>2, <2>1, <3>2, Zenon
  <2>2. CASE rx.state = "frame" /\ frame_opcode = "MALFORMED" /\ Reject(frame_payload.status, 0)
    <3>1. frame_payload.status \in ContentFaults
      BY <1>3, <2>2, FrameKinds, Zenon DEF ReceiverInv
    <3>2. frame_payload.status \notin DiscardingFaults /\ frame_opcode # "RETIRE"
      BY <2>2, <3>1, HarmlessFaults
    <3> QED
      BY <1>2, <2>2, <3>2, Zenon
  <2> QED
    BY <1>4, <2>1, <2>2, Zenon DEF DefectEvent
<1>5. CASE StatusEvent
  <2> DEFINE txn_id == IF life.result_pending \/ life.service_pending THEN life.txn_id
                       ELSE IF result_pending THEN staged.txn_id ELSE 0
  <2>1. frame_opcode = "STATUS_QUERY" /\ Inform("info", "INFO", txn_id, None)
        /\ active_profile' = active_profile
    BY <1>5, Zenon DEF StatusEvent
  <2> HIDE DEF txn_id
  <2>2. ~blake_retire_attempt
    BY <2>1 DEF blake_retire_attempt
  <2>3. active_profile' = INTERPRETER_COMPAT
    BY <1>3, <2>1, Zenon DEF CommittedInv
  <2>4. compute' = C_IDLE
    BY <2>1, Zenon DEF Inform, DatapathIdle
  <2>5. "info" \in {"info", "profile"}
    OBVIOUS
  <2> QED
    BY <2>1, <2>2, <2>3, <2>4, <2>5, InformKeeps, Zenon
<1>6. CASE NegotiateEvent
  <2>1. frame_opcode = "NEGOTIATE" /\ frame_opcode # "RETIRE"
    BY <1>6 DEF NegotiateEvent
  <2>2. \/ \E status \in {"BAD_STATE", "BAD_VERSION", "BAD_PROFILE"} : Reject(status, 0)
        \/ /\ frame_payload.profile = INTERPRETER_COMPAT
           /\ Inform("profile", "OK", None, frame_payload.profile)
           /\ active_profile' = frame_payload.profile
    BY <1>6, Zenon DEF NegotiateEvent
  <2>3. ASSUME NEW status \in {"BAD_STATE", "BAD_VERSION", "BAD_PROFILE"}, Reject(status, 0)
        PROVE  Goal
    <3>1. status \notin DiscardingFaults
      BY DEF DiscardingFaults
    <3> QED
      BY <1>2, <2>1, <2>3, <3>1, Zenon
  <2>4. CASE /\ frame_payload.profile = INTERPRETER_COMPAT
             /\ Inform("profile", "OK", None, frame_payload.profile)
             /\ active_profile' = frame_payload.profile
    <3>1. ~blake_retire_attempt
      BY <2>1, Zenon DEF blake_retire_attempt
    <3>2. active_profile' = INTERPRETER_COMPAT
      BY <2>4
    <3>3. compute' = C_IDLE
      BY <2>4, Zenon DEF Inform, DatapathIdle
    <3>4. "profile" \in {"info", "profile"}
      OBVIOUS
    <3> QED
      BY <2>4, <3>1, <3>2, <3>3, <3>4, InformKeeps, Zenon
  <2> QED
    BY <2>2, <2>3, <2>4, Zenon
<1>7. CASE BlakeRetireEvent
  <2>1. Sound
    BY <1>7, BlakeRetireKeeps, Zenon
  <2>2. compute' = C_IDLE
    BY <1>1, <1>7, Zenon DEF BlakeRetireEvent, CommitTo, DatapathIdle
  <2> QED
    BY <2>1, <2>2
<1>8. CASE RetireEvent
  <2>1. Sound
    BY <1>8, RetireKeeps, Zenon
  <2>2. compute' = C_IDLE
    BY <1>1, <1>8, Zenon
       DEF RetireEvent, ScalarRetire, RetireMismatch, CommitTo, DatapathIdle
  <2> QED
    BY <2>1, <2>2
<1>9. CASE ServiceEvent
  <2>1. Sound
    BY <1>9, ServiceKeeps, Zenon
  <2>2. compute' = C_IDLE
    BY <1>1, <1>9, Zenon DEF ServiceEvent, DatapathIdle
  <2> QED
    BY <2>1, <2>2
<1>10. CASE InstructionEvent
  <2>1. rx.state = "frame" /\ frame_opcode \in INSTRUCTION_OPCODES
    BY <1>10, Zenon DEF InstructionEvent
  <2>2. frame_opcode # "RETIRE"
    BY <2>1 DEF INSTRUCTION_OPCODES, ScalarOpcodes
  <2>3. ~blake_retire_attempt
    BY <2>2, Zenon DEF blake_retire_attempt
  <2>4. CASE Pending
    <3>1. Reject("BAD_STATE", frame_payload.txn_id)
      BY <1>10, <2>4, Zenon DEF InstructionEvent
    <3>2. "BAD_STATE" \notin DiscardingFaults
      BY HarmlessFaults
    <3> QED
      BY <1>2, <2>2, <3>1, <3>2, Zenon
  <2>5. CASE ~Pending /\ GuardFault(frame_payload) # "OK"
    <3>1. Reject(GuardFault(frame_payload), frame_payload.txn_id)
      BY <1>10, <2>5, Zenon DEF InstructionEvent
    <3>2. GuardFault(frame_payload) \notin DiscardingFaults
      BY <2>5 DEF GuardFault, DiscardingFaults
    <3> QED
      BY <1>2, <2>2, <3>1, <3>2, Zenon
  <2>6. CASE ~Pending /\ GuardFault(frame_payload) = "OK"
    <3>1. Decode(frame_payload)
      BY <1>10, <2>6, Zenon DEF InstructionEvent
    <3>2. Admitted(frame_payload) /\ frame_payload.opcode = frame_opcode
      BY <2>1, <2>6, GuardAdmits, Zenon DEF Eventful
    <3>3. Placed(frame_payload)
      BY <3>2, Zenon DEF Admitted
    <3>4. CASE frame_payload.opcode \in ScalarOpcodes
      <4>1. Settles(frame_payload)
        BY <3>1, <3>3, <3>4, DecodeSettles, Zenon
      <4>2. Sound /\ (compute' # C_IDLE => scratch'.request = frame_payload)
        BY <2>3, <3>2, <3>4, <4>1, SettlesKeeps, Zenon
      <4> QED
        BY <3>2, <4>2, Zenon
    <3>5. CASE frame_payload.opcode = "BLAKE3_REQUEST"
      <4>1. DecodeBlake3(frame_payload)
        BY <3>1, <3>5 DEF Decode
      <4>2. compute' = C_IDLE
        BY <4>1, Zenon DEF DecodeBlake3, DatapathIdle
      <4>3. Sound
        BY <2>3, <3>2, <3>5, <4>1, ServiceRefusedKeeps, ServiceStartedKeeps, Zenon
      <4> QED
        BY <4>2, <4>3
    <3> QED
      BY <2>1, <3>2, <3>4, <3>5, ScalarOrService
  <2> QED
    BY <2>4, <2>5, <2>6, Zenon
<1> QED
  BY <1>4, <1>5, <1>6, <1>7, <1>8, <1>9, <1>10

\* A frame event preserves the invariant.
LEMMA FrameEventStep ==
  ASSUME IInv, TxEdge, LifeEdge, RxConsumed, FrameEvent
  PROVE  IInv'
<1>1. event_ready /\ compute = C_IDLE
  BY Zenon DEF FrameEvent, event_ready
<1>2. rx.state \in {"frame", "fault"}
  BY DEF FrameEvent, DefectEvent, StatusEvent, NegotiateEvent, BlakeRetireEvent,
         RetireEvent, ServiceEvent, InstructionEvent
<1>3. AtRest
  BY <1>2, EventAtRest, Zenon DEF IInv, HeldInv
<1>4. Eventful
  BY <1>3, Zenon DEF Eventful, RxConsumed
<1>5. Sound /\ (compute' # C_IDLE => scratch'.request.opcode = frame_opcode)
  <2>1. \/ DefectEvent \/ StatusEvent \/ NegotiateEvent
        \/ BlakeRetireEvent \/ RetireEvent
        \/ ServiceEvent \/ InstructionEvent
    BY Zenon DEF FrameEvent
  <2> QED
    BY <1>1, <1>4, <2>1, EventKeeps, Zenon
<1>6. ReceiverInv'
  <2>1. rx'.state = "sof" /\ frame_opcode' = frame_opcode
    BY DEF RxConsumed
  <2>2. rx'.state \in {"sof", "body", "frame", "fault"} /\ rx'.state # "frame"
        /\ rx'.state # "fault"
    BY <2>1
  <2>3. compute' # C_IDLE => frame_opcode' = scratch'.request.opcode
    BY <1>5, <2>1, Zenon
  <2> QED
    BY <2>1, <2>2, <2>3, Zenon DEF ReceiverInv
<1> QED
  BY <1>5, <1>6, Zenon DEF Sound, IInv

\* So does a datapath that is done.
LEMMA DatapathStep ==
  ASSUME IInv, TxEdge, LifeEdge, RxEdge, DatapathDone
  PROVE  IInv'
<1> DEFINE request == scratch.request
<1>1. /\ compute # C_IDLE /\ request \in Requests /\ request.opcode \in ScalarOpcodes
      /\ Settles(request)
  BY DatapathSettles, Zenon DEF IInv, HeldInv
<1>2. AtRest
  BY <1>1, EventAtRest, Zenon DEF IInv, HeldInv
<1>3. UNCHANGED <<rx, frame_opcode, frame_payload>>
  <2>1. ~lane_enable
    BY <1>1, Zenon DEF lane_enable
  <2> QED
    BY <2>1, Zenon DEF RxEdge, RxStart, RxFrame, RxFault, RxIdle, rxVars
<1>4. ~blake_retire_attempt
  BY <1>1, Zenon DEF blake_retire_attempt, event_ready
<1>5. Eventful
  BY <1>2, <1>3, Zenon DEF Eventful
<1>6. Admitted(request)
  <2>1. asked = Asked(request, "open")
    BY <1>1, Zenon DEF IInv, HeldInv, ScratchInv
  <2>2. asked.request = request
    BY <2>1 DEF Asked
  <2>3. Holding
    BY <1>1, Zenon DEF Holding
  <2>4. Placed(asked.request)
        /\ (state_valid => committed = [pc |-> asked.request.pc, fp |-> asked.request.fp])
    BY <2>3, Zenon DEF IInv, HeldInv, HoldingInv
  <2>5. ~result_pending /\ ~life.service_pending /\ ~life.result_pending
    BY <1>1, Zenon DEF IInv, HeldInv, OneTransaction
  <2> HIDE DEF request
  <2> QED
    BY <2>2, <2>4, <2>5, Zenon DEF Admitted
<1>7. Sound /\ (compute' # C_IDLE => scratch'.request = request)
  BY <1>1, <1>4, <1>5, <1>6, SettlesKeeps, Zenon
<1>8. ReceiverInv'
  <2>1. rx.state = "sof" /\ frame_opcode = request.opcode
    BY <1>1, Zenon DEF IInv, ReceiverInv
  <2>2. rx'.state = "sof" /\ frame_opcode' = frame_opcode
    BY <1>3, <2>1
  <2>3. rx'.state \in {"sof", "body", "frame", "fault"} /\ rx'.state # "frame"
        /\ rx'.state # "fault"
    BY <2>2
  <2>4. compute' # C_IDLE => frame_opcode' = scratch'.request.opcode
    BY <1>7, <2>1, <2>2, Zenon
  <2> QED
    BY <2>2, <2>3, <2>4, Zenon DEF ReceiverInv
<1> QED
  BY <1>7, <1>8, Zenon DEF Sound, IInv

-----------------------------------------------------------------------------
(* A quiet edge preserves the invariant                                    *)

\* What a quiet edge does whatever is in flight.
Advances ==
    /\ ~blake_retire_attempt
    /\ tx_start' = FALSE /\ fault' = fault
    /\ reply' = IF tx = "done" THEN NoReply ELSE reply
    /\ compute' = compute /\ scratch' = scratch
    /\ result_pending' = result_pending /\ staged' = staged
    /\ blake_pulse' = "none"
    /\ UNCHANGED commitVars
    /\ ~lane_enable => UNCHANGED <<rx, frame_opcode, frame_payload, asked>>

\* Quiet is such an edge.
LEMMA QuietAdvances ==
  ASSUME RxEdge, Quiet
  PROVE  Advances
<1>1. ~blake_retire_attempt
  BY DEF Quiet, Waiting, blake_retire_attempt
<1>2. Silent /\ KeepStaged /\ KeepBlake /\ KeepCommitted
      /\ UNCHANGED <<compute, scratch>>
  BY Zenon DEF Quiet
<1>3. ASSUME ~lane_enable PROVE UNCHANGED <<rx, frame_opcode, frame_payload, asked>>
  <2>1. UNCHANGED <<rx, frame_opcode, frame_payload>>
    BY <1>3, Zenon DEF RxEdge, RxStart, RxFrame, RxFault, RxIdle, rxVars
  <2>2. asked' = asked
    <3>1. ~(rx.state = "sof" /\ rx'.state # "sof")
      BY <2>1, Zenon
    <3> QED
      BY <3>1, Zenon DEF Quiet
  <2> QED
    BY <2>1, <2>2
<1> QED
  BY <1>1, <1>2, <1>3, Zenon
     DEF Advances, Silent, KeepStaged, KeepBlake, KeepCommitted

\* The receiver takes a byte only when nothing is computed or answered.
LEMMA QuietReceiver ==
  ASSUME IInv, TxEdge, RxEdge, Quiet
  PROVE  ReceiverInv'
<1>1. Advances
  BY QuietAdvances
<1>2. /\ compute' = compute /\ scratch' = scratch /\ retire_seq' = retire_seq
      /\ tx_start' = FALSE
  BY <1>1, Zenon DEF Advances, commitVars
<1>3. ReceiverInv /\ TransmitterInv
  BY DEF IInv
<1>4. tx' # "idle" => tx_start \/ tx = "active"
  BY <1>3 DEF TransmitterInv, TxEdge
<1>5. CASE UNCHANGED rxVars
  <2>1. rx' = rx /\ frame_opcode' = frame_opcode /\ frame_payload' = frame_payload
    BY <1>5, Zenon DEF rxVars
  <2>2. Responding' => Responding
    <3>1. tx = "active" => tx # "idle"
      OBVIOUS
    <3> QED
      BY <1>2, <1>4, <3>1, Zenon DEF Responding
  <2>3. (compute' # C_IDLE \/ Responding') => rx'.state = "sof"
    BY <1>2, <1>3, <2>1, <2>2, Zenon DEF ReceiverInv
  <2>4. compute' # C_IDLE => frame_opcode' = scratch'.request.opcode
    BY <1>2, <1>3, <2>1, Zenon DEF ReceiverInv
  <2>5. /\ rx'.state \in {"sof", "body", "frame", "fault"}
        /\ rx'.state = "frame" => /\ frame_payload' \in Frames
                                 /\ frame_opcode' = frame_payload'.opcode
        /\ rx'.state = "frame" /\ frame_opcode' = "RETIRE" => retire_seq' < RetireSeqMax
        /\ rx'.state = "fault" => rx'.status \in BodyFaults \cup {"BAD_SOF"}
    BY <1>2, <1>3, <2>1, Zenon DEF ReceiverInv
  <2> QED
    BY <2>3, <2>4, <2>5, Zenon DEF ReceiverInv
<1>6. CASE lane_enable
  <2>1. compute' = C_IDLE /\ ~Responding'
    <3>1. compute = C_IDLE /\ ~tx_start /\ tx # "active"
      BY <1>6, Zenon DEF lane_enable
    <3> QED
      BY <1>2, <1>4, <3>1, Zenon DEF Responding
  <2>2. CASE RxStart
    <3>1. rx' \in {[state |-> "body", status |-> "OK"], Received("BAD_SOF")}
      BY <2>2, Zenon DEF RxStart
    <3>2. rx'.state \in {"body", "fault"} /\ (rx'.state = "fault" => rx'.status = "BAD_SOF")
      BY <3>1 DEF Received
    <3>3. /\ rx'.state \in {"sof", "body", "frame", "fault"} /\ rx'.state # "frame"
          /\ rx'.state = "fault" => rx'.status \in BodyFaults \cup {"BAD_SOF"}
      BY <3>2
    <3> QED
      BY <2>1, <3>3, Zenon DEF ReceiverInv
  <2>3. CASE RxFrame
    <3>1. PICK frame \in Frames :
             /\ frame.opcode = "RETIRE" => retire_seq < RetireSeqMax
             /\ frame_opcode' = frame.opcode
             /\ frame_payload' = frame
      BY <2>3, Zenon DEF RxFrame
    <3>2. rx'.state = "frame"
      BY <2>3 DEF RxFrame, Received
    <3>3. rx'.state \in {"sof", "body", "frame", "fault"} /\ rx'.state # "fault"
      BY <3>2
    <3>4. frame_payload' \in Frames /\ frame_opcode' = frame_payload'.opcode
          /\ (frame_opcode' = "RETIRE" => retire_seq' < RetireSeqMax)
      BY <1>2, <3>1, Zenon
    <3> QED
      BY <2>1, <3>3, <3>4, Zenon DEF ReceiverInv
  <2>4. CASE RxFault
    <3>1. PICK status \in BodyFaults : rx' = Received(status)
      BY <2>4, Zenon DEF RxFault
    <3>2. rx'.state = "fault" /\ rx'.status = status
      BY <3>1 DEF Received, BodyFaults
    <3>3. /\ rx'.state \in {"sof", "body", "frame", "fault"} /\ rx'.state # "frame"
          /\ rx'.status \in BodyFaults \cup {"BAD_SOF"}
      BY <3>2
    <3> QED
      BY <2>1, <3>3, Zenon DEF ReceiverInv
  <2> QED
    BY <1>5, <2>2, <2>3, <2>4, Zenon DEF RxEdge, RxIdle
<1>7. CASE ~lane_enable
  BY <1>5, <1>7, Zenon DEF RxEdge, RxStart, RxFrame, RxFault, RxIdle
<1> QED
  BY <1>6, <1>7

\* A reply stays loaded while it is on the wire.
LEMMA QuietTransmitter ==
  ASSUME IInv, TxEdge, Advances
  PROVE  TransmitterInv'
<1>1. /\ compute' = compute /\ tx_start' = FALSE /\ fault' = fault
      /\ reply' = IF tx = "done" THEN NoReply ELSE reply
  BY Zenon DEF Advances
<1>2. TransmitterInv
  BY DEF IInv
<1>3. tx \in {"idle", "active", "done"} /\ (tx_start => tx = "idle")
  BY <1>2, Zenon DEF TransmitterInv
<1>4. /\ tx = "active" => tx' \in {"active", "done"}
      /\ tx # "active" => tx' = (IF tx_start THEN "active" ELSE "idle")
  BY DEF TxEdge
<1>5. tx' \in {"idle", "active", "done"}
  BY <1>4
<1>6. Responding' <=> tx' # "idle"
  BY <1>1, Zenon DEF Responding
<1>7. tx' # "idle" => tx # "done" /\ Responding
  <2>1. tx' # "idle" => tx = "active" \/ (tx = "idle" /\ tx_start)
    BY <1>3, <1>4
  <2>2. tx = "active" => tx # "idle" /\ tx # "done"
    OBVIOUS
  <2>3. tx = "idle" => tx # "done"
    OBVIOUS
  <2> QED
    BY <2>1, <2>2, <2>3, Zenon DEF Responding
<1>8. compute' # C_IDLE => ~Responding'
  BY <1>1, <1>2, <1>6, <1>7, Zenon DEF TransmitterInv
<1>9. ~Responding' => reply' = NoReply
  <2>1. ASSUME tx' = "idle" PROVE tx = "done" \/ (tx = "idle" /\ ~tx_start)
    BY <1>3, <1>4, <2>1
  <2>2. tx = "idle" /\ ~tx_start => ~Responding
    BY Zenon DEF Responding
  <2> QED
    BY <1>1, <1>2, <1>6, <2>1, <2>2, Zenon DEF TransmitterInv
<1>10. Responding' => reply'.kind \in ReplyKinds
  <2>1. ASSUME Responding' PROVE reply' = reply /\ Responding
    BY <1>1, <1>6, <1>7, <2>1, Zenon
  <2>2. ASSUME Responding' PROVE reply.kind \in ReplyKinds
    BY <1>2, <2>1, <2>2, Zenon DEF TransmitterInv
  <2>3. ReplyKinds' = ReplyKinds
    BY DEF ReplyKinds
  <2> QED
    BY <2>1, <2>2, <2>3, Zenon
<1>11. fault' \in BOOLEAN /\ tx_start' \in BOOLEAN
  BY <1>1, <1>2, Zenon DEF TransmitterInv
<1>12. ~tx_start'
  BY <1>1
<1> QED
  BY <1>5, <1>8, <1>9, <1>10, <1>11, <1>12, Zenon DEF TransmitterInv

\* A datapath in use advances on its operands.
LEMMA QuietDatapath ==
  ASSUME IInv, RxEdge, Quiet
  PROVE  DatapathInv' /\ ScratchInv'
<1>1. Advances /\ DatapathInv /\ ScratchInv
  BY QuietAdvances, Zenon DEF IInv, HeldInv
<1>2. compute' = compute /\ scratch' = scratch
  BY <1>1, Zenon DEF Advances
<1>3. compute \in AluStates \cup EncoderStates \cup {C_IDLE}
  BY <1>1, Zenon DEF DatapathInv
<1>4. AluEdge /\ EncoderEdge /\ alu.phase # "done" /\ encoder.phase # "done"
  BY Zenon DEF Quiet
<1>5. ASSUME compute \in AluStates
      PROVE  /\ alu' \in AluRecord /\ alu'.operation = alu.operation
             /\ alu'.a = alu.a /\ alu'.b = alu.b
  <2>1. alu \in AluRecord
    BY <1>1, <1>5, Zenon DEF DatapathInv
  <2>2. alu.phase \in {"start", "busy"}
    BY <1>4, <2>1 DEF AluRecord
  <2>3. alu' = alu \/ \E phase \in {"busy", "done"} : alu' = [alu EXCEPT !.phase = phase]
    BY <1>4, <2>2 DEF AluEdge
  <2>4. ASSUME NEW phase \in {"busy", "done"}, NEW next, next = [alu EXCEPT !.phase = phase]
        PROVE  /\ next \in AluRecord /\ next.operation = alu.operation
               /\ next.a = alu.a /\ next.b = alu.b
    BY <2>1, <2>4 DEF AluRecord
  <2> QED
    BY <2>1, <2>3, <2>4, Zenon
<1>6. ASSUME compute \notin AluStates PROVE alu' = AluIdle
  <2>1. alu = AluIdle
    BY <1>1, <1>6, Zenon DEF DatapathInv
  <2> QED
    BY <1>4, <2>1 DEF AluEdge, AluIdle
<1>7. ASSUME compute \in EncoderStates
      PROVE  encoder' \in EncoderRecord /\ encoder'.index = encoder.index
  <2>1. encoder \in EncoderRecord
    BY <1>1, <1>7, Zenon DEF DatapathInv
  <2>2. encoder.phase \in {"start", "busy"}
    BY <1>4, <2>1 DEF EncoderRecord
  <2>3. encoder' = encoder
        \/ \E phase \in {"busy", "done"} : encoder' = [encoder EXCEPT !.phase = phase]
    BY <1>4, <2>2 DEF EncoderEdge
  <2>4. ASSUME NEW phase \in {"busy", "done"}, NEW next, next = [encoder EXCEPT !.phase = phase]
        PROVE  next \in EncoderRecord /\ next.index = encoder.index
    BY <2>1, <2>4 DEF EncoderRecord
  <2> QED
    BY <2>1, <2>3, <2>4, Zenon
<1>8. ASSUME compute \notin EncoderStates PROVE encoder' = EncoderIdle
  <2>1. encoder = EncoderIdle
    BY <1>1, <1>8, Zenon DEF DatapathInv
  <2> QED
    BY <1>4, <2>1 DEF EncoderEdge, EncoderIdle
<1>9. DatapathInv'
  <2>1. AluRecord' = AluRecord /\ EncoderRecord' = EncoderRecord
    BY DEF AluRecord, EncoderRecord
  <2> QED
    BY <1>2, <1>3, <1>5, <1>6, <1>7, <1>8, <2>1, Zenon DEF DatapathInv
<1>10. ASSUME compute = C_IDLE PROVE ScratchInv'
  <2>1. scratch' = None /\ compute' = C_IDLE
    BY <1>1, <1>2, <1>10, Zenon DEF ScratchInv
  <2> QED
    BY <1>9, <2>1, Zenon DEF ScratchInv
<1>11. ASSUME compute # C_IDLE PROVE ScratchInv'
  <2>1. asked' = asked
    <3>1. ~lane_enable
      BY <1>11, Zenon DEF lane_enable
    <3> QED
      BY <1>1, <3>1, Zenon DEF Advances
  <2>2. compute \in AluStates => alu_result' = alu_result
    BY <1>5, Zenon DEF alu_result
  <2>3. compute \in EncoderStates => encoder_result' = encoder_result
    BY <1>7, Zenon DEF encoder_result
  <2>4. PICK decided : decided = scratch
    OBVIOUS
  <2>5. Remaining(decided)' = Remaining(decided)
    <3>1. CASE compute \in AluStates
      <4>1. compute \in {"C_VERIFY_INVERSE", "C_SOLVE", "C_FORWARD", "C_SET", "C_XOR_SOLVE",
                         "C_JUMP_INVERSE"}
        BY <3>1, Zenon DEF AluStates
      <4> QED
        BY <1>2, <2>2, <3>1, <4>1, RemainingNow, RemainingNext, Zenon
    <3>2. CASE compute \in EncoderStates
      <4>1. compute \in {"C_DEREF_POINTER", "C_DEREF_VALUE", "C_JUMP_PC", "C_JUMP_FP"}
        BY <3>2, Zenon DEF EncoderStates
      <4> QED
        BY <1>2, <2>3, <3>2, <4>1, RemainingNow, RemainingNext, Zenon
    <3> QED
      BY <1>3, <1>11, <3>1, <3>2, Zenon
  <2>6. execute(decided.request) = Remaining(decided)
    <3>1. execute(scratch.request) = Remaining(scratch)
      BY <1>1, <1>11, Zenon DEF ScratchInv
    <3> QED
      BY <2>4, <3>1, Zenon
  <2>7. execute(scratch.request)' = Remaining(scratch)'
    <3>1. Remaining(scratch)' = Remaining(decided)'
      BY <1>2, <2>4, Zenon DEF Remaining
    <3>2. execute(scratch.request)' = execute(decided.request)
      BY <1>2, <2>4, Zenon
    <3> QED
      BY <2>5, <2>6, <3>1, <3>2, Zenon
  <2>8. compute' = "C_SET" => alu'.operation = "SET" /\ alu'.a = scratch'.request.constant
    <3>1. "C_SET" \in AluStates
      BY DEF AluStates
    <3> QED
      BY <1>1, <1>2, <1>5, <1>11, <3>1, Zenon DEF ScratchInv
  <2>9. scratch' \in Decisions'
    <3>1. Decisions' = Decisions
      BY DEF Decisions
    <3> QED
      BY <1>1, <1>2, <1>11, <3>1, Zenon DEF ScratchInv
  <2> QED
    BY <1>1, <1>2, <1>11, <2>1, <2>7, <2>8, <2>9, Zenon DEF ScratchInv
<1>12. ScratchInv'
  BY <1>10, <1>11
<1> QED
  BY <1>9, <1>12

\* The shell and the service arrays keep their type.
LEMMA QuietShell ==
  ASSUME IInv, LifeEdge, Quiet
  PROVE  LifeInv'
<1>1. KeepBlake
  BY Zenon DEF Quiet
<1> QED
  BY <1>1, ShapedService, LifeTyped, Zenon DEF IInv, HeldInv, LifeInv, Shaped

\* With nothing pending the question asked before is forgotten.
LEMMA QuietForgets ==
  ASSUME IInv, TxEdge, LifeEdge, RxEdge, Quiet, asked' # asked
  PROVE  HeldInv'
<1>1. Advances /\ KeepStaged /\ KeepBlake
  BY QuietAdvances, Zenon DEF Quiet
<1>2. NothingPending /\ asked' = None
  BY Zenon DEF Quiet
<1>3. lane_enable
  BY <1>1, Zenon DEF Advances
<1>4. compute = C_IDLE /\ tx_start = FALSE /\ tx # "active"
  <2>1. tx_start \in BOOLEAN
    BY Zenon DEF IInv, TransmitterInv
  <2> QED
    BY <1>3, <2>1, Zenon DEF lane_enable
<1>5. tx' = "idle"
  BY <1>4 DEF TxEdge
<1>6. reply' = NoReply
  <2>1. CASE tx = "done"
    BY <1>1, <2>1, Zenon DEF Advances
  <2>2. CASE tx # "done"
    <3>1. tx = "idle"
      BY <1>4, <2>2, Zenon DEF IInv, TransmitterInv
    <3>2. reply = NoReply
      BY <1>4, <3>1, Zenon DEF IInv, TransmitterInv, Responding
    <3> QED
      BY <1>1, <2>2, <3>2, Zenon DEF Advances
  <2> QED
    BY <2>1, <2>2
<1>7. LifeKept
  BY <1>1, <1>2, LifeStays, Zenon DEF IInv, HeldInv, Advances, NothingPending
<1>8. NothingHeld'
  <2>1. C_IDLE \notin AluStates /\ C_IDLE \notin EncoderStates
    BY DEF C_IDLE, AluStates, EncoderStates
  <2>2. compute' = C_IDLE
    BY <1>1, <1>4, Zenon DEF Advances
  <2>3. scratch' = None /\ alu' = AluIdle /\ encoder' = EncoderIdle
    <3>1. DatapathInv' /\ ScratchInv'
      BY QuietDatapath
    <3> QED
      BY <2>1, <2>2, <3>1, Zenon DEF DatapathInv, ScratchInv
  <2>4. result_pending = FALSE /\ staged = None /\ capture_result_crc = FALSE
    <3>1. result_pending \in BOOLEAN /\ capture_result_crc \in BOOLEAN
          /\ (capture_result_crc => result_pending) /\ (~result_pending => staged = None)
      BY Zenon DEF IInv, HeldInv, StagedInv, CrcInv
    <3> QED
      BY <1>2, <3>1, Zenon DEF NothingPending
  <2>5. capture_result_crc' = FALSE
    BY <1>1, <2>4, Zenon DEF KeepStaged, CaptureEdge
  <2>6. result_pending' = FALSE /\ staged' = None /\ blake_pulse' = "none"
    BY <1>1, <2>4, Zenon DEF Advances
  <2>7. ~life'.service_pending /\ ~life'.result_pending
    BY <1>2, <1>7, Zenon DEF LifeKept, NothingPending
  <2> QED
    BY <2>2, <2>3, <2>5, <2>6, <2>7, Zenon DEF NothingHeld
<1>9. LifeInv'
  BY QuietShell
<1>10. VerdictInv'
  BY <1>2, Zenon DEF VerdictInv
<1>11. tx' # "done" /\ reply'.kind \notin {"result", "service", "blake_result"}
  <2>1. NoReply.kind \notin {"result", "service", "blake_result"}
    BY KindsOfReply
  <2> QED
    BY <1>5, <1>6, <2>1
<1> QED
  BY <1>2, <1>8, <1>9, <1>10, <1>11, NothingHeldStep, Zenon

\* The edge after a pulse: its response starts.
LEMMA PulseStarts ==
  ASSUME IInv, TxEdge, Advances, blake_pulse # "none"
  PROVE  /\ tx_start /\ tx = "idle" /\ tx' = "active" /\ reply' = reply
         /\ UNCHANGED <<rx, frame_opcode, frame_payload, asked>>
         /\ result_pending = FALSE /\ compute = C_IDLE
<1>1. tx_start /\ tx = "idle"
  BY Zenon DEF IInv, TransmitterInv, HeldInv, PulseInv
<1>2. tx' = "active" /\ tx # "done"
  BY <1>1 DEF TxEdge
<1>3. reply' = reply
  BY <1>2, Zenon DEF Advances
<1>4. ~lane_enable
  BY <1>1, Zenon DEF lane_enable
<1>5. UNCHANGED <<rx, frame_opcode, frame_payload, asked>>
  BY <1>4, Zenon DEF Advances
<1>6. result_pending = FALSE /\ compute = C_IDLE
  <2>1. result_pending \in BOOLEAN
    BY Zenon DEF IInv, HeldInv, StagedInv
  <2>2. ~result_pending /\ compute = C_IDLE
    BY Zenon DEF IInv, HeldInv, OneTransaction
  <2> QED
    BY <2>1, <2>2, Zenon
<1> QED
  BY <1>1, <1>2, <1>3, <1>5, <1>6, Zenon

\* A discarded service is gone when its fault is sent.
LEMMA QuietDiscards ==
  ASSUME IInv, TxEdge, LifeEdge, RxEdge, Quiet, blake_pulse = "discard"
  PROVE  HeldInv'
<1>1. Advances /\ KeepStaged /\ KeepBlake
  BY QuietAdvances, Zenon DEF Quiet
<1>2. blake_pulse # "none" /\ blake_pulse # "start" /\ blake_pulse # "accept"
      /\ blake_pulse \in {"accept", "discard"}
  OBVIOUS
<1>3. /\ tx' = "active" /\ reply' = reply /\ asked' = asked
      /\ result_pending = FALSE /\ compute = C_IDLE
  BY <1>1, <1>2, PulseStarts, Zenon
<1>4. life'.service_pending = FALSE
  <2>1. life'.service_pending
          = (blake_pulse = "start"
               \/ (life.service_pending /\ blake_pulse \notin {"accept", "discard"}))
    BY LifeFields, Zenon
  <2> QED
    BY <1>2, <2>1, Zenon
<1>5. ~life'.result_pending
  <2>1. life'.result_pending = LifeResultPending
    BY LifeFields, Zenon
  <2>2. ~life.result_pending
    BY <1>2, Zenon DEF IInv, HeldInv, OneTransaction
  <2> QED
    BY <1>2, <2>1, <2>2, Zenon DEF LifeResultPending
<1>6. NothingHeld'
  <2>1. C_IDLE \notin AluStates /\ C_IDLE \notin EncoderStates
    BY DEF C_IDLE, AluStates, EncoderStates
  <2>2. compute' = C_IDLE
    BY <1>1, <1>3, Zenon DEF Advances
  <2>3. scratch' = None /\ alu' = AluIdle /\ encoder' = EncoderIdle
    <3>1. DatapathInv' /\ ScratchInv'
      BY QuietDatapath
    <3> QED
      BY <2>1, <2>2, <3>1, Zenon DEF DatapathInv, ScratchInv
  <2>4. staged = None /\ capture_result_crc = FALSE
    <3>1. capture_result_crc \in BOOLEAN
          /\ (capture_result_crc => result_pending) /\ (~result_pending => staged = None)
      BY Zenon DEF IInv, HeldInv, StagedInv, CrcInv
    <3> QED
      BY <1>3, <3>1, Zenon
  <2>5. capture_result_crc' = FALSE
    BY <1>1, <2>4, Zenon DEF KeepStaged, CaptureEdge
  <2>6. result_pending' = FALSE /\ staged' = None /\ blake_pulse' = "none"
    BY <1>1, <1>3, <2>4, Zenon DEF Advances
  <2> QED
    BY <1>4, <1>5, <2>2, <2>3, <2>5, <2>6, Zenon DEF NothingHeld
<1>7. LifeInv'
  BY QuietShell
<1>8. VerdictInv' /\ (asked' = None \/ asked' \in Questions)
  BY <1>3, Zenon DEF IInv, HeldInv, VerdictInv, HoldingInv
<1>9. reply'.kind = "fault"
  BY <1>3, Zenon DEF IInv, HeldInv, PulseInv
<1>10. tx' # "done" /\ reply'.kind \notin {"result", "service", "blake_result"}
  BY <1>3, <1>9
<1> QED
  BY <1>6, <1>7, <1>8, <1>10, NothingHeldStep, Zenon

\* What the mux reads of a BLAKE3 result while it is sent.
LEMMA ServicePayloadSent ==
  ASSUME reply.kind = "blake_result"
  PROVE  Payload = ServicePayload /\ IsResult(reply.kind)
  BY DEF Payload, ServicePayload, IsResult

\* And of a scalar result.
LEMMA ScalarPayloadSent ==
  ASSUME reply.kind = "result"
  PROVE  Payload = staged /\ IsResult(reply.kind)
  BY DEF Payload, IsResult

\* A quiet edge ends no response but the one that has drained.
LEMMA QuietReply ==
  ASSUME IInv, TxEdge, Advances
  PROVE  /\ tx' # "idle" => /\ reply' = reply /\ tx # "done" /\ ~lane_enable
                            /\ tx_start \/ tx = "active"
         /\ tx' = "done" => tx = "active"
         /\ reply' # reply => tx = "done" /\ reply' = NoReply /\ tx' = "idle"
<1>1. tx \in {"idle", "active", "done"} /\ (tx_start => tx = "idle")
  BY Zenon DEF IInv, TransmitterInv
<1>2. /\ tx' # "idle" => tx_start \/ tx = "active"
      /\ tx' = "done" => tx = "active"
      /\ tx = "done" => tx' = "idle"
  BY <1>1 DEF TxEdge
<1>3. tx = "active" => tx # "done"
  OBVIOUS
<1>4. tx_start => tx # "done"
  BY <1>1
<1>5. tx_start \/ tx = "active" => ~lane_enable
  BY Zenon DEF lane_enable
<1> QED
  BY <1>2, <1>3, <1>4, <1>5, Zenon DEF Advances

\* The CRC of the scalar result follows it out.
LEMMA QuietStaged ==
  ASSUME IInv, TxEdge, Advances, KeepStaged, asked' = asked
  PROVE  /\ StagedInv' /\ VerdictInv'
         /\ capture_result_crc' \in BOOLEAN
         /\ capture_result_crc' =>
               result_pending' /\ Responding' /\ reply'.kind = "result"
         /\ result_pending' /\ ~capture_result_crc' => staged_result_crc' = Crc(staged')
         /\ tx' = "done" /\ reply'.kind = "result" => tx_crc' = Crc(staged')
<1>1. result_pending' = result_pending /\ staged' = staged /\ CaptureEdge
  BY Zenon DEF KeepStaged
<1>2. StagedInv' /\ VerdictInv'
  BY <1>1, Zenon DEF IInv, HeldInv, StagedInv, VerdictInv
<1>3. CrcInv
  BY Zenon DEF IInv, HeldInv
<1>4. CASE tx = "done" /\ capture_result_crc
  <2>1. staged_result_crc' = tx_crc /\ capture_result_crc' = FALSE
    BY <1>1, <1>4, Zenon DEF CaptureEdge
  <2>2. tx_crc = Crc(staged)
    BY <1>3, <1>4, Zenon DEF CrcInv
  <2>3. tx' # "done"
    BY <1>4 DEF TxEdge
  <2> QED
    BY <1>1, <1>2, <2>1, <2>2, <2>3, Zenon
<1>5. CASE ~(tx = "done" /\ capture_result_crc)
  <2>1. staged_result_crc' = staged_result_crc /\ capture_result_crc' = capture_result_crc
    BY <1>1, <1>5, Zenon DEF CaptureEdge
  <2>2. ASSUME capture_result_crc
        PROVE  result_pending' /\ Responding' /\ reply'.kind = "result"
    <3>1. result_pending /\ Responding /\ reply.kind = "result" /\ tx # "done"
      BY <1>3, <1>5, <2>2, Zenon DEF CrcInv
    <3>2. tx' # "idle"
      <4>1. tx_start \/ tx = "active"
        BY <3>1, Zenon DEF Responding, IInv, TransmitterInv
      <4>2. tx \in {"idle", "active", "done"} /\ (tx_start => tx = "idle")
        BY Zenon DEF IInv, TransmitterInv
      <4> QED
        BY <4>1, <4>2 DEF TxEdge
    <3> QED
      BY <1>1, <3>1, <3>2, QuietReply, Zenon DEF Responding
  <2>3. result_pending' /\ ~capture_result_crc' => staged_result_crc' = Crc(staged')
    BY <1>1, <1>3, <2>1, Zenon DEF CrcInv
  <2>4. ASSUME tx' = "done", reply'.kind = "result" PROVE tx_crc' = Crc(staged')
    <3>1. tx = "active" /\ reply' = reply /\ tx' # "active" /\ tx' # "idle"
      <4>1. tx' # "idle" /\ tx' # "active"
        BY <2>4
      <4> QED
        BY <2>4, <4>1, QuietReply, Zenon
    <3>2. tx_crc' = IF IsResult(reply.kind) THEN Crc(Payload) ELSE 0
      BY <2>4, <3>1 DEF TxEdge
    <3> QED
      BY <1>1, <2>4, <3>1, <3>2, ScalarPayloadSent, Zenon
  <2>5. capture_result_crc' \in BOOLEAN
    BY <1>3, <2>1, Zenon DEF CrcInv
  <2> QED
    BY <1>2, <2>1, <2>2, <2>3, <2>4, <2>5, Zenon
<1> QED
  BY <1>4, <1>5, Zenon

\* A service that starts is held by the shell one edge later.
LEMMA QuietStarts ==
  ASSUME IInv, TxEdge, LifeEdge, RxEdge, Quiet, blake_pulse = "start"
  PROVE  HeldInv'
<1>1. Advances /\ KeepStaged /\ KeepBlake
  BY QuietAdvances, Zenon DEF Quiet
<1>2. blake_pulse # "none" /\ blake_pulse # "accept"
  OBVIOUS
<1>3. /\ tx = "idle" /\ tx' = "active" /\ reply' = reply
      /\ UNCHANGED <<rx, frame_opcode, frame_payload, asked>>
      /\ result_pending = FALSE /\ compute = C_IDLE
  BY <1>1, <1>2, PulseStarts, Zenon
<1>4. reply.kind = "service"
  BY Zenon DEF IInv, HeldInv, PulseInv
<1>5. /\ blake_pulse' = "none" /\ result_pending' = FALSE /\ compute' = C_IDLE
      /\ UNCHANGED commitVars
  BY <1>1, <1>3, Zenon DEF Advances
<1>6. ServiceHeld /\ Holding
  BY <1>2, Zenon DEF ServiceHeld, Holding
<1> DEFINE suspended == execute(asked.request)
<1>7. SuspendedInv
  BY Zenon DEF IInv, HeldInv
<1>8. /\ suspended.status = "SERVICE_REQUIRED"
      /\ blake_start = [txn_id |-> asked.request.txn_id,
                        next_pc |-> suspended.next_pc, next_fp |-> suspended.next_fp]
      /\ Companions(service.access) = suspended.accesses
      /\ service.out = <<asked.request.cells[Len(asked.request.cells) - 1],
                         asked.request.cells[Len(asked.request.cells)]>>
      /\ frame_payload = asked.request
      /\ asked.digest = None
  BY <1>4, <1>6, <1>7, Zenon DEF SuspendedInv
<1>9. life'.service_pending /\ ~life'.result_pending
      /\ life'.service_id = life'.service_seq
  <2>1. life'.service_pending = (blake_pulse = "start"
               \/ (life.service_pending /\ blake_pulse \notin {"accept", "discard"}))
    BY LifeFields, Zenon
  <2>2. life'.result_pending = LifeResultPending
    BY LifeFields, Zenon
  <2>3. ~LifeResultPending
    BY <1>2, Zenon DEF LifeResultPending
  <2>4. life'.service_id = life.service_seq + 1 /\ life'.service_seq = life.service_seq + 1
    BY LifeFields, Zenon
  <2> QED
    BY <2>1, <2>2, <2>3, <2>4, Zenon
<1>10. /\ life'.txn_id = asked.request.txn_id
       /\ life'.next_pc = suspended.next_pc /\ life'.next_fp = suspended.next_fp
  <2>1. /\ life'.txn_id = blake_start.txn_id
        /\ life'.next_pc = blake_start.next_pc /\ life'.next_fp = blake_start.next_fp
    BY LifeFields, Zenon
  <2> DEFINE t == asked.request.txn_id
             p == suspended.next_pc
             f == suspended.next_fp
  <2>2. blake_start = [txn_id |-> t, next_pc |-> p, next_fp |-> f]
    BY <1>8, Zenon
  <2> HIDE DEF t, p, f
  <2>3. blake_start.txn_id = t /\ blake_start.next_pc = p /\ blake_start.next_fp = f
    BY ONLY <2>2
  <2> QED
    BY <2>1, <2>3, Zenon DEF t, p, f
<1>11. service'.access = suspended.accesses /\ service'.out = service.out
  <2> DEFINE a == Companions(service.access)
             o == service.out
             w == service.writes
  <2>1. service' = [service EXCEPT !.access = a]
    BY <1>1, Zenon DEF KeepBlake
  <2>2. service = [access |-> service.access, out |-> o, writes |-> w]
    BY Zenon DEF IInv, HeldInv, LifeInv
  <2> HIDE DEF a, o, w
  <2>3. service'.access = a /\ service'.out = o
    BY ONLY <2>1, <2>2
  <2> QED
    BY <1>8, <2>3, Zenon DEF a, o
<1>12. DatapathInv' /\ ScratchInv' /\ LifeInv'
  BY QuietDatapath, QuietShell
<1>13. PulseInv'
  <2>1. reply'.kind = "service" /\ reply'.kind # "blake_result" /\ reply'.kind # "result"
    BY <1>3, <1>4
  <2>2. blake_pulse' \in {"none", "start", "accept", "discard"}
        /\ blake_pulse' # "start" /\ blake_pulse' # "accept" /\ blake_pulse' # "discard"
    BY <1>5
  <2> QED
    BY <1>5, <1>9, <2>1, <2>2, Zenon DEF PulseInv
<1>14. OneTransaction'
  <2>1. blake_pulse' # "start" /\ blake_pulse' \notin {"accept", "discard"}
    BY <1>5
  <2> QED
    BY <1>5, <1>9, <2>1, Zenon DEF OneTransaction
<1>15. HoldingInv'
  <2>1. UNCHANGED <<committed, state_valid, asked>>
    BY <1>3, <1>5, Zenon DEF commitVars
  <2> QED
    BY <1>6, <2>1, HoldingKept, Zenon DEF IInv, HeldInv
<1>16. StagedInv' /\ VerdictInv' /\ capture_result_crc' \in BOOLEAN
       /\ ~capture_result_crc'
  <2>1. asked' = asked
    BY <1>3
  <2> QED
    BY <1>1, <1>5, <2>1, QuietStaged, Zenon
<1>17. SuspendedInv'
  <2>1. asked' = asked /\ execute(asked.request)' = suspended /\ frame_payload' = asked.request
    BY <1>3, <1>8, Zenon
  <2>2. blake_pulse' # "start" /\ blake_pulse' # "accept" /\ blake_pulse' \notin {"accept", "discard"}
    BY <1>5
  <2> HIDE DEF suspended
  <2> QED
    BY <1>8, <1>9, <1>10, <1>11, <2>1, <2>2, Zenon DEF SuspendedInv
<1>18. CrcInv'
  <2>1. tx' # "done"
    BY <1>3
  <2> QED
    BY <1>5, <1>9, <1>16, <2>1, Zenon DEF CrcInv
<1>19. DiscardInv'
  <2>1. reply'.kind # "fault"
    BY <1>3, <1>4
  <2> QED
    BY <2>1, Zenon DEF DiscardInv
<1> QED
  BY <1>12, <1>13, <1>14, <1>15, <1>16, <1>17, <1>18, <1>19, Zenon DEF HeldInv

\* The result of a service is pending in the shell one edge after its digest
\* is folded in.
LEMMA QuietAccepts ==
  ASSUME IInv, TxEdge, LifeEdge, RxEdge, Quiet, blake_pulse = "accept"
  PROVE  HeldInv'
<1>1. Advances /\ KeepStaged /\ KeepBlake
  BY QuietAdvances, Zenon DEF Quiet
<1>2. blake_pulse # "none" /\ blake_pulse # "start" /\ blake_pulse \in {"accept", "discard"}
  OBVIOUS
<1>3. /\ tx = "idle" /\ tx' = "active" /\ reply' = reply
      /\ UNCHANGED <<rx, frame_opcode, frame_payload, asked>>
      /\ result_pending = FALSE /\ compute = C_IDLE
  BY <1>1, <1>2, PulseStarts, Zenon
<1>4. reply.kind = "blake_result"
  BY Zenon DEF IInv, HeldInv, PulseInv
<1>5. /\ blake_pulse' = "none" /\ result_pending' = FALSE /\ compute' = C_IDLE
      /\ UNCHANGED commitVars /\ ~blake_retire_attempt
  BY <1>1, <1>3, Zenon DEF Advances
<1>6. ServiceHeld /\ Holding
  BY <1>2, Zenon DEF ServiceHeld, Holding
<1>7. life.service_pending /\ ~life.result_pending
  BY <1>2, Zenon DEF IInv, HeldInv, OneTransaction
<1> DEFINE suspended == execute(asked.request)
<1>8. /\ suspended.status = "SERVICE_REQUIRED"
      /\ life.txn_id = asked.request.txn_id
      /\ life.next_pc = suspended.next_pc
      /\ life.next_fp = suspended.next_fp
      /\ service.access = suspended.accesses
      /\ asked.digest # None
      /\ service.writes = Resumed(asked).writes
  BY <1>2, <1>6, <1>7, Zenon DEF SuspendedInv, IInv, HeldInv
<1>9. ~life'.service_pending /\ life'.result_pending
  <2>1. life'.service_pending = (blake_pulse = "start"
               \/ (life.service_pending /\ blake_pulse \notin {"accept", "discard"}))
    BY LifeFields, Zenon
  <2>2. life'.result_pending = LifeResultPending
    BY LifeFields, Zenon
  <2>3. LifeResultPending
    BY <1>5, Zenon DEF LifeResultPending
  <2> QED
    BY <1>2, <2>1, <2>2, <2>3, Zenon
<1>10. /\ life'.txn_id = life.txn_id
       /\ life'.next_pc = life.next_pc /\ life'.next_fp = life.next_fp
  BY <1>2, <1>7, LifeFields, Zenon
<1>11. service' = service
  BY <1>1, <1>2, <1>7, Zenon DEF KeepBlake
<1>12. DatapathInv' /\ ScratchInv' /\ LifeInv'
  BY QuietDatapath, QuietShell
<1>13. blake_pulse' # "start" /\ blake_pulse' # "accept" /\ blake_pulse' # "discard"
       /\ blake_pulse' \notin {"accept", "discard"}
  BY <1>5
<1>14. reply'.kind = "blake_result" /\ reply'.kind # "service" /\ reply'.kind # "result"
       /\ reply'.kind # "fault"
  BY <1>3, <1>4
<1>15. PulseInv'
  <2>1. blake_pulse' \in {"none", "start", "accept", "discard"}
    BY <1>5
  <2> QED
    BY <1>5, <1>9, <1>13, <1>14, <2>1, Zenon DEF PulseInv
<1>16. OneTransaction'
  BY <1>5, <1>9, <1>13, Zenon DEF OneTransaction
<1>17. HoldingInv'
  <2>1. UNCHANGED <<committed, state_valid, asked>>
    BY <1>3, <1>5, Zenon DEF commitVars
  <2> QED
    BY <1>6, <2>1, HoldingKept, Zenon DEF IInv, HeldInv
<1>18. StagedInv' /\ VerdictInv' /\ capture_result_crc' \in BOOLEAN
       /\ ~capture_result_crc'
  <2>1. asked' = asked
    BY <1>3
  <2> QED
    BY <1>1, <1>5, <2>1, QuietStaged, Zenon
<1>19. SuspendedInv'
  <2>1. asked' = asked /\ execute(asked.request)' = suspended
        /\ Resumed(asked)' = Resumed(asked)
    BY <1>3, Zenon DEF Resumed
  <2> HIDE DEF suspended
  <2> QED
    BY <1>8, <1>9, <1>10, <1>11, <1>13, <1>14, <2>1, Zenon DEF SuspendedInv
<1>20. CrcInv'
  <2>1. tx' # "done" /\ tx' # "idle"
    BY <1>3
  <2> QED
    BY <1>5, <1>14, <1>18, <2>1, Zenon DEF CrcInv
<1>21. DiscardInv'
  BY <1>14, Zenon DEF DiscardInv
<1> QED
  BY <1>12, <1>15, <1>16, <1>17, <1>18, <1>19, <1>20, <1>21, Zenon DEF HeldInv

\* Between pulses, what is held stays held.
LEMMA QuietHolds ==
  ASSUME IInv, TxEdge, LifeEdge, RxEdge, Quiet, blake_pulse = "none", asked' = asked
  PROVE  HeldInv'
<1>1. Advances /\ KeepStaged /\ KeepBlake
  BY QuietAdvances, Zenon DEF Quiet
<1>2. /\ blake_pulse' = "none"
      /\ life.service_pending \/ life.result_pending => service' = service
  BY <1>1, BlakeKept, Zenon
<1>3. blake_pulse # "start" /\ blake_pulse # "accept" /\ blake_pulse \notin {"accept", "discard"}
  OBVIOUS
<1>4. blake_pulse' # "start" /\ blake_pulse' # "accept" /\ blake_pulse' # "discard"
      /\ blake_pulse' \notin {"accept", "discard"}
  BY <1>2
<1>5. LifeKept
  BY <1>1, LifeStays, Zenon DEF IInv, HeldInv, Advances
<1>6. /\ life'.service_pending = life.service_pending
      /\ life'.result_pending = life.result_pending
      /\ life'.service_seq = life.service_seq
      /\ (life.service_pending \/ life.result_pending) =>
          /\ life'.txn_id = life.txn_id /\ life'.service_id = life.service_id
          /\ life'.next_pc = life.next_pc /\ life'.next_fp = life.next_fp
  BY <1>5, Zenon DEF LifeKept
<1>7. /\ compute' = compute /\ result_pending' = result_pending /\ staged' = staged
      /\ UNCHANGED <<committed, state_valid, asked>>
  BY <1>1, Zenon DEF Advances, commitVars
<1>8. /\ reply' = reply \/ (tx = "done" /\ reply' = NoReply /\ tx' = "idle")
      /\ tx' # "idle" => reply' = reply /\ tx # "done" /\ ~lane_enable
  BY <1>1, QuietReply, Zenon
<1>9. NoReply.kind \notin {"result", "service", "blake_result"} /\ NoReply.kind # "fault"
  BY KindsOfReply
<1>10. DatapathInv' /\ ScratchInv' /\ LifeInv'
  BY QuietDatapath, QuietShell
<1>11. ASSUME reply'.kind \in {"result", "service", "blake_result", "fault"}
       PROVE  reply' = reply
  BY <1>8, <1>9, <1>11
<1>12. PulseInv'
  <2>1. blake_pulse' \in {"none", "start", "accept", "discard"}
    BY <1>2
  <2>2. PulseInv
    BY Zenon DEF IInv, HeldInv
  <2>3. reply'.kind = "blake_result" => life'.result_pending
    BY <1>3, <1>6, <1>11, <2>2, Zenon DEF PulseInv
  <2>4. reply'.kind = "service" => life'.service_pending
    BY <1>3, <1>6, <1>11, <2>2, Zenon DEF PulseInv
  <2>5. reply'.kind = "result" => result_pending'
    BY <1>7, <1>11, <2>2, Zenon DEF PulseInv
  <2> QED
    BY <1>2, <1>4, <2>1, <2>3, <2>4, <2>5, Zenon DEF PulseInv
<1>13. OneTransaction'
  BY <1>2, <1>4, <1>6, <1>7, Zenon DEF IInv, HeldInv, OneTransaction
<1>14. (ServiceHeld' <=> ServiceHeld) /\ (Holding' <=> Holding)
  <2>1. ServiceHeld' <=> ServiceHeld
    BY <1>2, <1>6, Zenon DEF ServiceHeld
  <2> QED
    BY <1>7, <2>1, Zenon DEF Holding
<1>15. HoldingInv'
  BY <1>7, <1>14, HoldingKept, Zenon DEF IInv, HeldInv
<1>16. /\ StagedInv' /\ VerdictInv'
       /\ capture_result_crc' \in BOOLEAN
       /\ capture_result_crc' =>
             result_pending' /\ Responding' /\ reply'.kind = "result"
       /\ result_pending' /\ ~capture_result_crc' => staged_result_crc' = Crc(staged')
       /\ tx' = "done" /\ reply'.kind = "result" => tx_crc' = Crc(staged')
  BY <1>1, QuietStaged, Zenon
<1>17. SuspendedInv'
  <2> DEFINE suspended == execute(asked.request)
  <2>1. asked' = asked /\ execute(asked.request)' = suspended
        /\ Resumed(asked)' = Resumed(asked)
    BY Zenon DEF Resumed
  <2>2. SuspendedInv
    BY Zenon DEF IInv, HeldInv
  <2>3. ServiceHeld' => suspended.status = "SERVICE_REQUIRED"
    BY <1>14, <2>2, Zenon DEF SuspendedInv
  <2>4. life'.service_pending \/ life'.result_pending =>
              /\ life'.txn_id = asked.request.txn_id
              /\ life'.next_pc = suspended.next_pc
              /\ life'.next_fp = suspended.next_fp
              /\ service'.access = suspended.accesses
    BY <1>2, <1>6, <2>2, Zenon DEF SuspendedInv
  <2>5. /\ life'.service_pending => life'.service_id = life'.service_seq
        /\ life'.service_pending =>
              service'.out = <<asked.request.cells[Len(asked.request.cells) - 1],
                               asked.request.cells[Len(asked.request.cells)]>>
        /\ life'.service_pending => asked.digest = None
        /\ life'.result_pending => asked.digest # None
        /\ life'.result_pending => service'.writes = Resumed(asked).writes
    BY <1>2, <1>6, <2>2, Zenon DEF SuspendedInv
  <2>6. reply'.kind = "service" => frame_payload' = asked.request
    <3>1. ASSUME reply'.kind = "service" PROVE frame_payload' = asked.request
      <4>1. reply' = reply /\ frame_payload = asked.request
        BY <1>11, <2>2, <3>1, Zenon DEF SuspendedInv
      <4>2. Responding'
        <5>1. reply' # NoReply
          BY <1>9, <3>1
        <5>2. TransmitterInv'
          BY <1>1, QuietTransmitter
        <5> QED
          BY <5>1, <5>2, Zenon DEF TransmitterInv
      <4>3. tx' # "idle"
        BY <1>1, <4>2, Zenon DEF Responding, Advances
      <4>4. frame_payload' = frame_payload
        BY <1>1, <1>8, <4>3, Zenon DEF Advances
      <4> QED
        BY <4>1, <4>4
    <3> QED
      BY <3>1
  <2> HIDE DEF suspended
  <2> QED
    BY ONLY <1>4, <2>1, <2>3, <2>4, <2>5, <2>6, Zenon DEF SuspendedInv, suspended
<1>18. life.result_pending => ServicePayload' = ServicePayload
  BY <1>2, <1>6, Zenon DEF ServicePayload
<1>19. tx' = "done" /\ reply'.kind = "blake_result" => tx_crc' = Crc(ServicePayload')
  <2>1. ASSUME tx' = "done", reply'.kind = "blake_result"
        PROVE  tx_crc' = Crc(ServicePayload')
    <3>1. tx = "active" /\ reply' = reply
      <4>1. tx' # "idle"
        BY <2>1
      <4> QED
        BY <1>1, <2>1, <4>1, QuietReply, Zenon
    <3>2. tx_crc' = IF IsResult(reply.kind) THEN Crc(Payload) ELSE 0
      BY <2>1, <3>1 DEF TxEdge
    <3>3. life.result_pending
      BY <1>3, <2>1, <3>1, Zenon DEF PulseInv, IInv, HeldInv
    <3> QED
      BY <1>18, <2>1, <3>1, <3>2, <3>3, ServicePayloadSent, Zenon
  <2> QED
    BY <2>1
<1>20. ASSUME life'.result_pending
       PROVE  \/ life'.crc = Crc(ServicePayload')
              \/ reply'.kind = "blake_result" /\ tx' # "idle"
  <2>1. life.result_pending /\ CrcInv /\ ServicePayload' = ServicePayload
    BY <1>6, <1>18, <1>20, Zenon DEF IInv, HeldInv
  <2>2. CASE tx = "done" /\ reply.kind = "blake_result"
    <3>1. life'.crc = tx_crc
      BY <2>1, <2>2, LifeFields, Zenon
    <3>2. tx_crc = Crc(ServicePayload)
      BY <2>1, <2>2, Zenon DEF CrcInv
    <3> QED
      BY <2>1, <3>1, <3>2, Zenon
  <2>3. CASE ~(tx = "done" /\ reply.kind = "blake_result")
    <3>1. life'.crc = life.crc
      <4>1. blake_pulse \notin {"start", "accept"}
        BY <1>3
      <4> QED
        BY <2>1, <2>3, <4>1, LifeFields, Zenon
    <3>2. CASE life.crc = Crc(ServicePayload)
      BY <2>1, <3>1, <3>2, Zenon
    <3>3. CASE reply.kind = "blake_result" /\ tx # "idle"
      <4>1. tx = "active"
        BY <2>3, <3>3, Zenon DEF IInv, TransmitterInv
      <4>2. tx' # "idle"
        BY <4>1 DEF TxEdge
      <4> QED
        BY <1>8, <3>3, <4>2, Zenon
    <3> QED
      BY <2>1, <3>2, <3>3, Zenon DEF CrcInv
  <2> QED
    BY <2>2, <2>3, Zenon
<1>21. CrcInv'
  BY <1>16, <1>19, <1>20, Zenon DEF CrcInv
<1>22. DiscardInv'
  <2>1. ASSUME reply'.kind = "fault", reply'.status \in DiscardingFaults
        PROVE  /\ ~result_pending' /\ ~life'.result_pending /\ ~life'.service_pending
               /\ blake_pulse' \in {"none", "discard"}
    <3>1. reply' = reply
      BY <1>11, <2>1
    <3>2. blake_pulse # "discard"
      OBVIOUS
    <3>3. DiscardInv
      BY Zenon DEF IInv, HeldInv
    <3>4. ~result_pending /\ ~life.result_pending /\ ~life.service_pending
      BY <2>1, <3>1, <3>2, <3>3, Zenon DEF DiscardInv
    <3> QED
      BY <1>2, <1>6, <1>7, <3>4, Zenon
  <2> QED
    BY <2>1, Zenon DEF DiscardInv, DiscardingFaults
<1> QED
  BY <1>10, <1>12, <1>13, <1>15, <1>16, <1>17, <1>21, <1>22, Zenon DEF HeldInv

\* An edge with nothing to handle preserves the invariant.
LEMMA QuietStep ==
  ASSUME IInv, TxEdge, LifeEdge, RxEdge, Quiet
  PROVE  IInv'
<1>1. Advances
  BY QuietAdvances
<1>2. ReceiverInv' /\ TransmitterInv'
  BY <1>1, QuietReceiver, QuietTransmitter
<1>3. CommittedInv'
  BY <1>1, CommittedStays, Zenon DEF Advances, IInv
<1>4. blake_pulse \in {"none", "start", "accept", "discard"}
  BY Zenon DEF IInv, HeldInv, PulseInv
<1>5. HeldInv'
  BY <1>4, QuietForgets, QuietStarts, QuietAccepts, QuietDiscards, QuietHolds, Zenon
<1> QED
  BY <1>2, <1>3, <1>5, Zenon DEF IInv

-----------------------------------------------------------------------------
(* ABORT, reset and the whole next-state relation                          *)

\* What ABORT and reset have in common leaves nothing in flight.
LEMMA QuiesceClears ==
  ASSUME Quiesce, ~life'.service_pending, ~life'.result_pending, LifeInv', CommittedInv',
         fault' \in BOOLEAN
  PROVE  IInv'
<1>1. /\ rx' = [state |-> "sof", status |-> "OK"] /\ DatapathIdle /\ tx_start' = FALSE
      /\ tx' = "idle" /\ reply' = NoReply /\ Withdraw /\ blake_pulse' = "none"
      /\ asked' = None
  BY Zenon DEF Quiesce
<1>2. NothingHeld'
  BY <1>1, Zenon DEF DatapathIdle, Withdraw, NothingHeld
<1>3. /\ rx'.state \in {"sof", "body", "frame", "fault"} /\ rx'.state # "frame"
      /\ rx'.state # "fault"
  BY <1>1
<1>4. compute' = C_IDLE /\ ~Responding' /\ tx' \in {"idle", "active", "done"}
      /\ tx_start' \in BOOLEAN
  BY <1>1, Zenon DEF Responding, DatapathIdle
<1>5. ReceiverInv'
  BY <1>3, <1>4, Zenon DEF ReceiverInv
<1>6. TransmitterInv'
  BY <1>1, <1>4, Zenon DEF TransmitterInv
<1>7. tx' # "done" /\ reply'.kind \notin {"result", "service", "blake_result"}
  <2>1. NoReply.kind \notin {"result", "service", "blake_result"}
    BY KindsOfReply
  <2> QED
    BY <1>1, <2>1
<1>8. VerdictInv'
  BY <1>1, Zenon DEF VerdictInv
<1>9. HeldInv'
  BY <1>1, <1>2, <1>7, <1>8, NothingHeldStep, Zenon
<1> QED
  BY <1>5, <1>6, <1>9, Zenon DEF IInv

\* The service arrays after ABORT or reset.
LEMMA QuiesceShapes ==
  ASSUME Quiesce
  PROVE  Shaped(service)'
<1>1. Shaped(NoService)
  BY DEF Shaped, NoService
<1>2. service' = NoService
  BY Zenon DEF Quiesce
<1> QED
  BY <1>1, <1>2, Zenon DEF Shaped

\* ABORT keeps the identifiers, the counters and what is committed.
LEMMA AbortStep ==
  ASSUME IInv, Abort
  PROVE  IInv'
<1>1. Quiesce /\ fault' = TRUE /\ UNCHANGED commitVars
      /\ life' = [life EXCEPT !.service_pending = FALSE, !.result_pending = FALSE,
                              !.crc = 0, !.done_pulse = FALSE]
  BY Zenon DEF Abort, LifeAbort
<1> DEFINE t == life.txn_id
           i == life.service_id
           p == life.next_pc
           f == life.next_fp
           s == life.service_seq
           held == life.service_pending
           pending == life.result_pending
           crc == life.crc
           pulse == life.done_pulse
<1>2. life = [service_pending |-> held, result_pending |-> pending, txn_id |-> t,
              service_id |-> i, next_pc |-> p, next_fp |-> f, crc |-> crc,
              service_seq |-> s, done_pulse |-> pulse]
  BY Zenon DEF IInv, HeldInv, LifeInv
<1>3. s \in 0..ServiceSeqMax
  BY Zenon DEF IInv, HeldInv, LifeInv
<1> HIDE DEF t, i, p, f, s, held, pending, crc, pulse
<1>4. life' = [service_pending |-> FALSE, result_pending |-> FALSE, txn_id |-> t,
               service_id |-> i, next_pc |-> p, next_fp |-> f, crc |-> 0,
               service_seq |-> s, done_pulse |-> FALSE]
  <2>1. life' = [life EXCEPT !.service_pending = FALSE, !.result_pending = FALSE,
                             !.crc = 0, !.done_pulse = FALSE]
    BY <1>1
  <2> QED
    BY ONLY <1>2, <2>1
<1>5. /\ life' = [service_pending |-> life'.service_pending,
                  result_pending |-> life'.result_pending, txn_id |-> life'.txn_id,
                  service_id |-> life'.service_id, next_pc |-> life'.next_pc,
                  next_fp |-> life'.next_fp, crc |-> life'.crc,
                  service_seq |-> life'.service_seq, done_pulse |-> life'.done_pulse]
      /\ life'.service_pending = FALSE /\ life'.result_pending = FALSE
      /\ life'.service_seq = s
  BY ONLY <1>4
<1>6. LifeInv'
  <2>1. Shaped(service)'
    BY <1>1, QuiesceShapes
  <2>2. life'.service_pending \in BOOLEAN /\ life'.result_pending \in BOOLEAN
    BY <1>5, Zenon
  <2> QED
    BY <1>3, <1>5, <2>1, <2>2, Zenon DEF LifeInv, Shaped
<1>7. CommittedInv'
  BY <1>1, CommittedStays, Zenon DEF IInv
<1> QED
  BY <1>1, <1>5, <1>6, <1>7, QuiesceClears, Zenon

\* What the shell and the committed state come back as.
LEMMA ResetShell ==
  /\ LifeReset = [service_pending |-> LifeReset.service_pending,
                  result_pending |-> LifeReset.result_pending,
                  txn_id |-> LifeReset.txn_id, service_id |-> LifeReset.service_id,
                  next_pc |-> LifeReset.next_pc, next_fp |-> LifeReset.next_fp,
                  crc |-> LifeReset.crc, service_seq |-> LifeReset.service_seq,
                  done_pulse |-> LifeReset.done_pulse]
  /\ LifeReset.service_pending = FALSE /\ LifeReset.result_pending = FALSE
  /\ LifeReset.service_seq \in 0..ServiceSeqMax
  /\ Origin \in ScalarState /\ 0 \in 0..RetireSeqMax
<1>1. /\ LifeReset = [service_pending |-> LifeReset.service_pending,
                  result_pending |-> LifeReset.result_pending,
                  txn_id |-> LifeReset.txn_id, service_id |-> LifeReset.service_id,
                  next_pc |-> LifeReset.next_pc, next_fp |-> LifeReset.next_fp,
                  crc |-> LifeReset.crc, service_seq |-> LifeReset.service_seq,
                  done_pulse |-> LifeReset.done_pulse]
      /\ LifeReset.service_pending = FALSE /\ LifeReset.result_pending = FALSE
      /\ LifeReset.service_seq = 0
  BY DEF LifeReset
<1>2. 0 \in 0..ServiceSeqMax /\ 0 \in 0..RetireSeqMax
  BY FrontendBounds
<1>3. Origin \in ScalarState
  BY U32Assumption DEF Origin, ScalarState
<1> QED
  BY <1>1, <1>2, <1>3, Zenon

\* Reset clears the counters and the profile too.
LEMMA ResetStep ==
  ASSUME Reset
  PROVE  IInv'
<1>1. Quiesce /\ fault' = FALSE /\ life' = LifeReset /\ committed' = Origin
      /\ state_valid' = FALSE /\ retire_seq' = 0 /\ active_profile' = INTERPRETER_COMPAT
  BY Zenon DEF Reset
<1>2. LifeInv'
  <2>1. Shaped(service)'
    BY <1>1, QuiesceShapes
  <2>2. LifeReset.service_pending \in BOOLEAN /\ LifeReset.result_pending \in BOOLEAN
    BY ResetShell, Zenon
  <2>3. PICK l : l = LifeReset
    OBVIOUS
  <2> QED
    BY <1>1, <2>1, <2>2, ResetShell, Zenon DEF LifeInv, Shaped
<1>3. CommittedInv'
  <2>1. ScalarState' = ScalarState
    BY DEF ScalarState
  <2> QED
    BY <1>1, <2>1, ResetShell, Zenon DEF CommittedInv
<1> QED
  BY <1>1, <1>2, <1>3, QuiesceClears, ResetShell, Zenon

\* Out of reset nothing is held.
LEMMA InitInv ==
  ASSUME Init
  PROVE  IInv
<1>1. /\ rx = [state |-> "sof", status |-> "OK"] /\ compute = C_IDLE /\ scratch = None
      /\ alu = AluIdle /\ encoder = EncoderIdle /\ tx_start = FALSE /\ tx = "idle"
      /\ reply = NoReply /\ result_pending = FALSE /\ staged = None
      /\ capture_result_crc = FALSE /\ blake_pulse = "none"
      /\ service = NoService /\ life = LifeReset /\ committed = Origin
      /\ state_valid = FALSE /\ retire_seq = 0
      /\ active_profile = INTERPRETER_COMPAT /\ fault = FALSE /\ asked = None
  BY Zenon DEF Init
<1>2. /\ rx.state \in {"sof", "body", "frame", "fault"} /\ rx.state # "frame"
      /\ rx.state # "fault"
  BY <1>1
<1>3. ~Responding /\ tx \in {"idle", "active", "done"} /\ tx_start \in BOOLEAN
  BY <1>1, Zenon DEF Responding
<1>4. ReceiverInv
  BY <1>1, <1>2, <1>3, Zenon DEF ReceiverInv
<1>5. TransmitterInv
  BY <1>1, <1>3, Zenon DEF TransmitterInv
<1>6. CommittedInv
  BY <1>1, ResetShell, Zenon DEF CommittedInv
<1>7. ~life.service_pending /\ ~life.result_pending
  BY <1>1, ResetShell, Zenon
<1>8. C_IDLE \notin AluStates /\ C_IDLE \notin EncoderStates
  BY DEF C_IDLE, AluStates, EncoderStates
<1>9. DatapathInv /\ ScratchInv
  BY <1>1, <1>8, Zenon DEF DatapathInv, ScratchInv
<1>10. LifeInv
  <2>1. Shaped(service)
    <3>1. Shaped(NoService)
      BY DEF Shaped, NoService
    <3> QED
      BY <1>1, <3>1, Zenon DEF Shaped
  <2>2. LifeReset.service_pending \in BOOLEAN /\ LifeReset.result_pending \in BOOLEAN
    BY ResetShell, Zenon
  <2> QED
    BY <1>1, <2>1, <2>2, ResetShell, Zenon DEF LifeInv, Shaped
<1>11. /\ blake_pulse # "start" /\ blake_pulse # "accept" /\ blake_pulse # "discard"
       /\ blake_pulse \notin {"accept", "discard"}
       /\ blake_pulse \in {"none", "start", "accept", "discard"}
  BY <1>1
<1>12. /\ reply.kind # "service" /\ reply.kind # "blake_result" /\ reply.kind # "result"
       /\ reply.kind # "fault"
  BY <1>1, KindsOfReply
<1>13. tx # "done"
  BY <1>1
<1>14. PulseInv
  BY <1>1, <1>11, <1>12, Zenon DEF PulseInv
<1>15. OneTransaction
  BY <1>1, <1>7, <1>11, Zenon DEF OneTransaction
<1>16. ~ServiceHeld /\ ~Holding
  BY <1>1, <1>7, Zenon DEF ServiceHeld, Holding
<1>17. HoldingInv
  BY <1>1, <1>16, Zenon DEF HoldingInv
<1>18. StagedInv
  BY <1>1, Zenon DEF StagedInv
<1>19. VerdictInv
  BY <1>1, Zenon DEF VerdictInv
<1>20. SuspendedInv
  BY <1>7, <1>11, <1>12, <1>16, Zenon DEF SuspendedInv
<1>21. CrcInv
  BY <1>1, <1>7, <1>13, Zenon DEF CrcInv
<1>22. DiscardInv
  BY <1>12, Zenon DEF DiscardInv
<1>23. HeldInv
  BY <1>9, <1>10, <1>14, <1>15, <1>17, <1>18, <1>19, <1>20, <1>21, <1>22, Zenon DEF HeldInv
<1> QED
  BY <1>4, <1>5, <1>6, <1>23, Zenon DEF IInv

\* A step that changes nothing.
LEMMA StutterStep ==
  ASSUME IInv, UNCHANGED vars
  PROVE  IInv'
<1>1. /\ rx' = rx /\ frame_opcode' = frame_opcode /\ frame_payload' = frame_payload
      /\ compute' = compute /\ scratch' = scratch /\ alu' = alu /\ encoder' = encoder
      /\ tx_start' = tx_start /\ tx' = tx /\ reply' = reply /\ tx_crc' = tx_crc
      /\ result_pending' = result_pending /\ staged' = staged
      /\ staged_result_crc' = staged_result_crc /\ capture_result_crc' = capture_result_crc
      /\ blake_pulse' = blake_pulse /\ blake_start' = blake_start /\ service' = service
      /\ life' = life /\ committed' = committed /\ state_valid' = state_valid
      /\ retire_seq' = retire_seq /\ core_done_pulse' = core_done_pulse
      /\ active_profile' = active_profile /\ fault' = fault /\ asked' = asked
      /\ owed' = owed
  BY Zenon DEF vars, rxVars, stageVars, blakeVars, commitVars
<1>2. ReceiverInv' /\ TransmitterInv' /\ CommittedInv'
  BY <1>1, Zenon DEF IInv, ReceiverInv, TransmitterInv, CommittedInv, Responding
<1>3. DatapathInv' /\ LifeInv' /\ PulseInv' /\ OneTransaction'
  BY <1>1, Zenon DEF IInv, HeldInv, DatapathInv, LifeInv, PulseInv, OneTransaction
<1>4. ScratchInv'
  <2>1. execute(scratch.request)' = execute(scratch.request)
    BY <1>1, Zenon
  <2>2. Remaining(scratch)' = Remaining(scratch)
    BY <1>1, Zenon
       DEF Remaining, alu_result, encoder_result
  <2> QED
    BY <1>1, <2>1, <2>2, Zenon DEF IInv, HeldInv, ScratchInv
<1>5. HoldingInv'
  <2>1. ServiceHeld' => ServiceHeld
    BY <1>1, Zenon DEF ServiceHeld
  <2>2. Holding' => Holding
    BY <1>1, <2>1, Zenon DEF Holding
  <2> QED
    BY <1>1, <2>1, <2>2, HoldingKept, Zenon DEF IInv, HeldInv
<1>6. StagedInv' /\ VerdictInv' /\ DiscardInv'
  BY <1>1, Zenon DEF IInv, HeldInv, StagedInv, VerdictInv, DiscardInv
<1>7. SuspendedInv'
  <2>1. Resumed(asked)' = Resumed(asked) /\ execute(asked.request)' = execute(asked.request)
    BY <1>1, Zenon DEF Resumed
  <2>2. ServiceHeld' <=> ServiceHeld
    BY <1>1, Zenon DEF ServiceHeld
  <2> QED
    BY <1>1, <2>1, <2>2, Zenon DEF IInv, HeldInv, SuspendedInv
<1>8. CrcInv'
  BY <1>1, Zenon DEF IInv, HeldInv, CrcInv, Responding, ServicePayload
<1> QED
  BY <1>2, <1>3, <1>4, <1>5, <1>6, <1>7, <1>8, Zenon DEF IInv, HeldInv

\* The invariant, on every behaviour.
LEMMA Invariant == Spec => []IInv
<1>1. Init => IInv
  BY InitInv
<1>2. IInv /\ [Next]_vars => IInv'
  <2> SUFFICES ASSUME IInv, [Next]_vars PROVE IInv'
    OBVIOUS
  <2>1. CASE Edge
    BY <2>1, QuietStep, DatapathStep, FrameEventStep, Zenon DEF Edge
  <2>2. CASE Abort
    BY <2>2, AbortStep
  <2>3. CASE Reset
    BY <2>3, ResetStep
  <2>4. CASE UNCHANGED vars
    BY <2>4, StutterStep
  <2> QED
    BY <2>1, <2>2, <2>3, <2>4, Zenon DEF Next
<1> QED
  BY <1>1, <1>2, PTL DEF Spec

-----------------------------------------------------------------------------
(* What the invariant says of the frontend                                 *)

\* Every register keeps its type.
LEMMA RegistersTyped == IInv => TypeOK
<1> SUFFICES ASSUME IInv PROVE TypeOK
  OBVIOUS
<1>1. ReceiverInv /\ TransmitterInv /\ CommittedInv /\ DatapathInv /\ ScratchInv
      /\ LifeInv /\ PulseInv /\ StagedInv
  BY Zenon DEF IInv, HeldInv
<1>2. compute \in Computing \cup {C_IDLE}
  BY <1>1 DEF DatapathInv, AluStates, EncoderStates, Computing
<1>3. (compute = C_IDLE) = (scratch = None)
  <2>1. compute = C_IDLE <=> scratch = None
    BY <1>1, NoneAssumption, Zenon DEF ScratchInv
  <2>2. (compute = C_IDLE) \in BOOLEAN /\ (scratch = None) \in BOOLEAN
    OBVIOUS
  <2>3. \A a, b \in BOOLEAN : (a <=> b) => a = b
    OBVIOUS
  <2> QED
    BY <2>1, <2>2, <2>3, Zenon
<1>4. alu.phase \in {"idle", "start", "busy", "done"}
  <2>1. alu \in AluRecord \/ alu = AluIdle
    BY <1>1, Zenon DEF DatapathInv
  <2> QED
    BY <2>1 DEF AluRecord, AluIdle
<1>5. encoder.phase = "idle" \/ encoder.index \in 0..(INDEX_LIMIT - 1)
  <2>1. encoder \in EncoderRecord \/ encoder = EncoderIdle
    BY <1>1, Zenon DEF DatapathInv
  <2> QED
    BY <2>1 DEF EncoderRecord, EncoderIdle
<1>6. result_pending = (staged # None)
  <2>1. result_pending <=> staged # None
    BY <1>1, NoneAssumption, Zenon DEF StagedInv
  <2>2. result_pending \in BOOLEAN /\ (staged # None) \in BOOLEAN
    BY <1>1, Zenon DEF StagedInv
  <2>3. \A a, b \in BOOLEAN : (a <=> b) => a = b
    OBVIOUS
  <2> QED
    BY <2>1, <2>2, <2>3, Zenon
<1>7. active_profile \in Profile
  <2>1. INTERPRETER_COMPAT \in Profile
    BY DEF Profile, INTERPRETER_COMPAT
  <2> QED
    BY <1>1, <2>1, Zenon DEF CommittedInv
<1> QED
  BY <1>1, <1>2, <1>3, <1>4, <1>5, <1>6, <1>7, Zenon
     DEF TypeOK, ReceiverInv, TransmitterInv, CommittedInv, LifeInv, PulseInv

\* A scalar instruction is decided as the rules decide it.
LEMMA ScalarsDecided == IInv => ScalarResultIsTheModels
<1> SUFFICES ASSUME IInv, asked # None, asked.request.opcode # "BLAKE3_REQUEST",
                    asked.verdict # "open"
             PROVE  /\ asked.verdict = Verdicts(asked.request)
                    /\ result_pending =>
                         LET decided == execute(asked.request) IN
                         staged = [txn_id |-> asked.request.txn_id,
                                   next_pc |-> decided.next_pc, next_fp |-> decided.next_fp,
                                   writes |-> decided.writes, deferred |-> decided.deferred,
                                   accesses |-> decided.accesses]
  BY Zenon DEF ScalarResultIsTheModels
<1>1. asked.verdict = Verdicts(asked.request)
  BY Zenon DEF IInv, HeldInv, VerdictInv, VerdictOf
<1>2. result_pending => staged = ResultOf(asked.request)
  BY Zenon DEF IInv, HeldInv, StagedInv
<1> QED
  BY <1>1, <1>2, Zenon DEF ResultOf

\* The service goes out as the suspended transition, and comes back as the
\* resumed one.
LEMMA ServicesDecided == IInv => ServiceIsTheModels
<1> DEFINE suspended == execute(asked.request)
<1> SUFFICES ASSUME IInv, asked # None, asked.request.opcode = "BLAKE3_REQUEST"
             PROVE  IF asked.digest = None
                    THEN /\ asked.verdict = Verdicts(asked.request)
                         /\ tx = "active" /\ reply.kind = "service" =>
                              Payload = [txn_id |-> asked.request.txn_id,
                                         service_id |-> life.service_seq,
                                         operands |-> suspended.operands]
                    ELSE /\ (asked.verdict = "FAULT") = (Resumed(asked).status \in FaultStatus)
                         /\ life.result_pending /\ reply.kind = "blake_result" =>
                              Payload = [txn_id |-> asked.request.txn_id,
                                         next_pc |-> suspended.next_pc,
                                         next_fp |-> suspended.next_fp,
                                         writes |-> Resumed(asked).writes, deferred |-> <<>>,
                                         accesses |-> suspended.accesses]
  BY Zenon DEF ServiceIsTheModels, Resumed
<1>1. SuspendedInv /\ PulseInv /\ VerdictOf(asked) /\ HoldingInv /\ TransmitterInv
  BY Zenon DEF IInv, HeldInv, VerdictInv
<1>2. asked.digest = None => asked.verdict = Verdicts(asked.request)
  BY <1>1, Zenon DEF VerdictOf
<1>3. asked.digest # None =>
        (asked.verdict = "FAULT") = (Resumed(asked).status \in FaultStatus)
  BY <1>1, Zenon DEF VerdictOf
<1>4. ASSUME tx = "active", reply.kind = "service"
      PROVE  Payload = [txn_id |-> asked.request.txn_id,
                        service_id |-> life.service_seq,
                        operands |-> suspended.operands]
  <2>1. life.service_pending
    <3>1. blake_pulse # "start"
      <4>1. ~tx_start
        <5>1. tx # "idle"
          BY <1>4
        <5> QED
          BY <1>1, <5>1, Zenon DEF TransmitterInv
      <4>2. blake_pulse = "start" => blake_pulse # "none"
        OBVIOUS
      <4> QED
        BY <1>1, <4>1, <4>2, Zenon DEF PulseInv
    <3> QED
      BY <1>1, <1>4, <3>1, Zenon DEF PulseInv
  <2>2. ServiceHeld /\ Holding
    BY <2>1, Zenon DEF ServiceHeld, Holding
  <2>3. /\ life.txn_id = asked.request.txn_id /\ life.service_id = life.service_seq
        /\ frame_payload = asked.request /\ suspended.status = "SERVICE_REQUIRED"
    BY <1>1, <1>4, <2>1, <2>2, Zenon DEF SuspendedInv
  <2>4. Placed(asked.request)
    BY <1>1, <2>2, Zenon DEF HoldingInv
  <2>5. asked.request # None
    BY <2>4, NoneAssumption, Zenon DEF Placed
  <2>6. suspended.operands = [i \in 1..(Len(asked.request.cells) - 2) |->
                                 asked.request.cells[i].value]
    BY <2>3, <2>4, ServiceOperands, Zenon
  <2>7. Payload = [txn_id |-> life.txn_id, service_id |-> life.service_id,
                   operands |-> IF frame_payload = None THEN None
                                ELSE [i \in 1..(Len(frame_payload.cells) - 2) |->
                                         frame_payload.cells[i].value]]
    BY <1>4, Zenon DEF Payload
  <2> HIDE DEF suspended
  <2> QED
    BY <2>3, <2>5, <2>6, <2>7, Zenon
<1>5. ASSUME life.result_pending, reply.kind = "blake_result"
      PROVE  Payload = [txn_id |-> asked.request.txn_id,
                        next_pc |-> suspended.next_pc,
                        next_fp |-> suspended.next_fp,
                        writes |-> Resumed(asked).writes, deferred |-> <<>>,
                        accesses |-> suspended.accesses]
  <2>1. Payload = ServicePayload
    BY <1>5, ServicePayloadSent
  <2>2. /\ life.txn_id = asked.request.txn_id
        /\ life.next_pc = suspended.next_pc /\ life.next_fp = suspended.next_fp
        /\ service.access = suspended.accesses
        /\ service.writes = Resumed(asked).writes
    BY <1>1, <1>5, Zenon DEF SuspendedInv
  <2> HIDE DEF suspended
  <2> QED
    BY <2>1, <2>2, Zenon DEF ServicePayload
<1> HIDE DEF suspended
<1> QED
  BY <1>2, <1>3, <1>4, <1>5, Zenon

\* The CRC a RETIRE is compared with is that of what was sent.
LEMMA DrainedCrc == IInv => DrainedResultRetires
<1> SUFFICES ASSUME IInv PROVE DrainedResultRetires
  OBVIOUS
<1>1. CrcInv /\ TransmitterInv
  BY Zenon DEF IInv, HeldInv
<1>2. (result_pending /\ ~capture_result_crc) => staged_result_crc = Crc(staged)
  BY <1>1, Zenon DEF CrcInv
<1>3. (result_pending /\ capture_result_crc) => ~lane_enable \/ tx = "done"
  <2>1. capture_result_crc => tx_start \/ tx # "idle"
    BY <1>1, Zenon DEF CrcInv, Responding
  <2> QED
    BY <1>1, <2>1, Zenon DEF TransmitterInv, lane_enable
<1>4. (life.result_pending /\ lane_enable /\ tx # "done") => life.crc = Crc(ServicePayload)
  BY <1>1, Zenon DEF CrcInv, TransmitterInv, lane_enable
<1> QED
  BY <1>2, <1>3, <1>4, Zenon DEF DrainedResultRetires, ServicePayload

\* The clocked frontend (lsc1_packet_frontend.sv with its receiver, shell,
\* mux and transmitter) is the executable model of scalar_lsc.py, for every
\* request, interleaving of bytes, datapath delay, ABORT and reset: the
\* compute states decide what the transition rules decide, a service goes out
\* and comes back as the suspended and the resumed transition, at most one
\* transaction is held, in one place, and the CRC a RETIRE is compared with
\* is that of the payload that was sent.
THEOREM FrontendRefinesTheRules == Spec => []FrontendIsTheModel
<1>1. IInv => FrontendIsTheModel
  <2>1. IInv => OneTransaction
    BY Zenon DEF IInv, HeldInv
  <2> QED
    BY <2>1, RegistersTyped, ScalarsDecided, ServicesDecided, DrainedCrc, Zenon
       DEF FrontendIsTheModel
<1> QED
  BY <1>1, Invariant, PTL

-----------------------------------------------------------------------------
(* What an edge may do to what is offered and committed                    *)

\* Nothing is committed, and a fault that discards nothing leaves what is held.
Spares ==
    /\ core_done_pulse' = FALSE /\ ~LifeDonePulse
    /\ committed' = committed /\ state_valid' = state_valid /\ retire_seq' = retire_seq
    /\ (reply'.kind = "fault" /\ reply'.status \notin DiscardingFaults) =>
          /\ ~blake_retire_attempt
          /\ result_pending' = result_pending /\ staged' = staged

\* The transition on offer is committed, and withdrawn.
Commits ==
    /\ (core_done_pulse' = TRUE /\ ~LifeDonePulse) \/ (core_done_pulse' = FALSE /\ LifeDonePulse)
    /\ retire_seq' = retire_seq + 1 /\ state_valid' = TRUE
    /\ reply'.kind = "retired"
    /\ \/ /\ result_pending /\ result_pending' = FALSE /\ ~life.result_pending
          /\ committed' = [pc |-> staged.next_pc, fp |-> staged.next_fp]
       \/ /\ ~result_pending /\ result_pending' = FALSE /\ life.result_pending
          /\ committed' = [pc |-> life.next_pc, fp |-> life.next_fp]
          /\ blake_retire_attempt

\* An edge that keeps the committed registers and what is staged.
LEMMA KeepingSpares ==
  ASSUME Eventful, ~blake_retire_attempt, KeepStaged, core_done_pulse' = FALSE,
         UNCHANGED <<committed, state_valid, retire_seq>>
  PROVE  Spares
<1>1. result_pending' = result_pending /\ staged' = staged
  BY Zenon DEF KeepStaged
<1> QED
  BY <1>1, Zenon DEF Spares, LifeDonePulse

\* A frame refused.
LEMMA RejectSpares ==
  ASSUME Eventful, NEW status, NEW txn_id, Reject(status, txn_id), ~blake_retire_attempt
  PROVE  Spares
<1>1. KeepStaged /\ KeepCommitted
  BY Zenon DEF Reject, emit_fault
<1> QED
  BY <1>1, KeepingSpares, Zenon DEF KeepCommitted, commitVars

\* A short reply.
LEMMA InformSpares ==
  ASSUME Eventful, NEW kind, NEW status, NEW txn_id, NEW detail,
         Inform(kind, status, txn_id, detail), ~blake_retire_attempt
  PROVE  Spares
  BY KeepingSpares, Zenon DEF Inform

\* An instruction refused, launched or decided.
LEMMA SettlesSpares ==
  ASSUME Eventful, NEW request, Settles(request), ~blake_retire_attempt
  PROVE  Spares
<1>1. CASE Refuses(request)
  <2>1. PICK status \in FaultStatus : Refuse(request, status)
    BY <1>1, Zenon DEF Refuses
  <2>2. KeepStaged /\ KeepCommitted
    BY <2>1, Zenon DEF Refuse, emit_fault
  <2> QED
    BY <2>2, KeepingSpares, Zenon DEF KeepCommitted, commitVars
<1>2. CASE Launches(request)
  BY <1>2, KeepingSpares, Zenon DEF Launches, KeepCommitted, commitVars
<1>3. CASE Emits(request)
  <2>1. PICK decided \in Decisions : emit_result(decided)
    BY <1>3, Zenon DEF Emits
  <2>2. KeepCommitted /\ Say("result", "OK", None, None)
    BY <2>1, Zenon DEF emit_result
  <2>3. reply'.kind # "fault"
    BY <2>2 DEF Say
  <2> QED
    BY <2>2, <2>3, Zenon DEF Spares, KeepCommitted, commitVars, LifeDonePulse
<1> QED
  BY <1>1, <1>2, <1>3, Zenon DEF Settles

\* A service requested.
LEMMA ServiceSpares ==
  ASSUME Eventful, NEW request, DecodeBlake3(request), ~blake_retire_attempt
  PROVE  Spares
<1>1. KeepStaged /\ KeepCommitted
  BY Zenon DEF DecodeBlake3
<1> QED
  BY <1>1, KeepingSpares, Zenon DEF KeepCommitted, commitVars

\* The shell's RETIRE.
LEMMA BlakeRetireEffect ==
  ASSUME Eventful, compute = C_IDLE, event_ready, BlakeRetireEvent
  PROVE  Spares \/ Commits
<1>1. rx.state = "frame" /\ frame_opcode = "RETIRE" /\ life.result_pending
  BY Zenon DEF BlakeRetireEvent
<1>2. blake_retire_attempt
  BY <1>1, Zenon DEF blake_retire_attempt
<1>3. ~result_pending /\ result_pending \in BOOLEAN
  BY <1>1, Zenon DEF Eventful, IInv, HeldInv, OneTransaction, StagedInv
<1>4. CASE retire_match
  <2>1. CommitTo(life.next_pc, life.next_fp) /\ KeepStaged /\ core_done_pulse' = FALSE
    BY <1>4, Zenon DEF BlakeRetireEvent
  <2>2. LifeDonePulse
    BY <1>2, <1>4, Zenon DEF LifeDonePulse
  <2>3. result_pending' = FALSE
    BY <1>3, <2>1, Zenon DEF KeepStaged
  <2>4. reply'.kind = "retired" /\ retire_seq' = retire_seq + 1 /\ state_valid' = TRUE
        /\ committed' = [pc |-> life.next_pc, fp |-> life.next_fp]
    BY <2>1 DEF CommitTo, Say
  <2> QED
    BY <1>1, <1>2, <1>3, <2>1, <2>2, <2>3, <2>4, Zenon DEF Commits
<1>5. CASE ~retire_match
  <2>1. Reject("RETIRE_MISMATCH", frame_payload.txn_id)
    BY <1>5, Zenon DEF BlakeRetireEvent
  <2>2. reply'.status = "RETIRE_MISMATCH" /\ KeepCommitted
    BY <2>1 DEF Reject, emit_fault, Say
  <2>3. reply'.status \in DiscardingFaults
    BY <2>2 DEF DiscardingFaults
  <2>4. ~LifeDonePulse
    BY <1>5, Zenon DEF LifeDonePulse
  <2> QED
    BY <2>2, <2>3, <2>4, Zenon DEF Spares, KeepCommitted, commitVars
<1> QED
  BY <1>4, <1>5

\* The frontend's RETIRE.
LEMMA RetireEffect ==
  ASSUME Eventful, compute = C_IDLE, event_ready, RetireEvent
  PROVE  Spares \/ Commits
<1>1. rx.state = "frame" /\ frame_opcode = "RETIRE" /\ ~life.result_pending
  BY Zenon DEF RetireEvent
<1>2. ~blake_retire_attempt /\ ~LifeDonePulse
  BY <1>1, Zenon DEF blake_retire_attempt, LifeDonePulse
<1>3. CASE Reject("BAD_STATE", frame_payload.txn_id)
  BY <1>2, <1>3, RejectSpares, Zenon
<1>4. CASE result_pending /\ ScalarRetire
  <2>1. CommitTo(staged.next_pc, staged.next_fp) /\ Withdraw /\ core_done_pulse' = TRUE
    BY <1>4, Zenon DEF ScalarRetire
  <2>2. reply'.kind = "retired" /\ retire_seq' = retire_seq + 1 /\ state_valid' = TRUE
        /\ committed' = [pc |-> staged.next_pc, fp |-> staged.next_fp]
    BY <2>1 DEF CommitTo, Say
  <2> QED
    BY <1>1, <1>2, <1>4, <2>1, <2>2, Zenon DEF Commits, Withdraw
<1>5. CASE result_pending /\ RetireMismatch
  <2>1. Say("fault", "RETIRE_MISMATCH", frame_payload.txn_id, None) /\ KeepCommitted
    BY <1>5, Zenon DEF RetireMismatch
  <2>2. reply'.status = "RETIRE_MISMATCH"
    BY <2>1 DEF Say
  <2>3. reply'.status \in DiscardingFaults
    BY <2>2 DEF DiscardingFaults
  <2> QED
    BY <1>2, <2>1, <2>3, Zenon DEF Spares, KeepCommitted, commitVars
<1> QED
  BY <1>3, <1>4, <1>5, Zenon DEF RetireEvent

\* The digest of a service.
LEMMA AnswerSpares ==
  ASSUME Eventful, compute = C_IDLE, event_ready, ServiceEvent
  PROVE  Spares
<1>1. rx.state = "frame" /\ frame_opcode # "RETIRE"
  BY DEF ServiceEvent
<1>2. ~blake_retire_attempt
  BY <1>1, Zenon DEF blake_retire_attempt
<1>3. (\E status, txn_id : Reject(status, txn_id)) \/ (KeepStaged /\ KeepCommitted)
  BY Zenon DEF ServiceEvent
<1>4. KeepStaged /\ KeepCommitted => Spares
  BY <1>2, KeepingSpares, Zenon DEF KeepCommitted, commitVars
<1> QED
  BY <1>2, <1>3, <1>4, RejectSpares, Zenon

\* Every frame event spares or commits.
LEMMA FrameEffect ==
  ASSUME IInv, TxEdge, LifeEdge, RxConsumed, FrameEvent
  PROVE  AtRest /\ (Spares \/ Commits)
<1>1. event_ready /\ compute = C_IDLE
  BY Zenon DEF FrameEvent, event_ready
<1>2. rx.state \in {"frame", "fault"}
  BY DEF FrameEvent, DefectEvent, StatusEvent, NegotiateEvent, BlakeRetireEvent,
         RetireEvent, ServiceEvent, InstructionEvent
<1>3. AtRest
  BY <1>2, EventAtRest, Zenon DEF IInv, HeldInv
<1>4. Eventful
  BY <1>3, Zenon DEF Eventful, RxConsumed
<1>5. CASE DefectEvent
  <2>1. ~blake_retire_attempt
    BY <1>5 DEF DefectEvent, blake_retire_attempt
  <2> QED
    BY <1>3, <1>4, <1>5, <2>1, RejectSpares, Zenon DEF DefectEvent
<1>6. CASE StatusEvent
  <2>1. ~blake_retire_attempt
    BY <1>6 DEF StatusEvent, blake_retire_attempt
  <2>2. \E kind, status, txn_id, detail : Inform(kind, status, txn_id, detail)
    BY <1>6, Zenon DEF StatusEvent
  <2> QED
    BY <1>3, <1>4, <2>1, <2>2, InformSpares, Zenon
<1>7. CASE NegotiateEvent
  <2>1. ~blake_retire_attempt
    BY <1>7 DEF NegotiateEvent, blake_retire_attempt
  <2>2. (\E status, txn_id : Reject(status, txn_id))
        \/ (\E kind, status, txn_id, detail : Inform(kind, status, txn_id, detail))
    BY <1>7, Zenon DEF NegotiateEvent
  <2> QED
    BY <1>3, <1>4, <2>1, <2>2, RejectSpares, InformSpares, Zenon
<1>8. CASE BlakeRetireEvent
  BY <1>1, <1>3, <1>4, <1>8, BlakeRetireEffect, Zenon
<1>9. CASE RetireEvent
  BY <1>1, <1>3, <1>4, <1>9, RetireEffect, Zenon
<1>10. CASE ServiceEvent
  BY <1>1, <1>3, <1>4, <1>10, AnswerSpares, Zenon
<1>11. CASE InstructionEvent
  <2>1. rx.state = "frame" /\ frame_opcode \in INSTRUCTION_OPCODES
    BY <1>11, Zenon DEF InstructionEvent
  <2>2. frame_opcode # "RETIRE"
    BY <2>1 DEF INSTRUCTION_OPCODES, ScalarOpcodes
  <2>3. ~blake_retire_attempt
    BY <2>2, Zenon DEF blake_retire_attempt
  <2>4. (\E status, txn_id : Reject(status, txn_id))
        \/ (~Pending /\ GuardFault(frame_payload) = "OK" /\ Decode(frame_payload))
    BY <1>11, Zenon DEF InstructionEvent
  <2>5. ASSUME ~Pending, GuardFault(frame_payload) = "OK", Decode(frame_payload)
        PROVE  Spares
    <3>1. Admitted(frame_payload) /\ frame_payload.opcode = frame_opcode
      BY <2>1, <2>5, GuardAdmits, Zenon DEF Eventful
    <3>2. Placed(frame_payload)
      BY <3>1, Zenon DEF Admitted
    <3>3. CASE frame_payload.opcode \in ScalarOpcodes
      <4>1. Settles(frame_payload)
        BY <2>5, <3>2, <3>3, DecodeSettles, Zenon
      <4> QED
        BY <1>4, <2>3, <4>1, SettlesSpares, Zenon
    <3>4. CASE frame_payload.opcode = "BLAKE3_REQUEST"
      <4>1. DecodeBlake3(frame_payload)
        BY <2>5, <3>4 DEF Decode
      <4> QED
        BY <1>4, <2>3, <4>1, ServiceSpares, Zenon
    <3> QED
      BY <2>1, <3>1, <3>3, <3>4, ScalarOrService
  <2> QED
    BY <1>3, <1>4, <2>3, <2>4, <2>5, RejectSpares, Zenon
<1> QED
  BY <1>5, <1>6, <1>7, <1>8, <1>9, <1>10, <1>11, Zenon DEF FrameEvent

\* A datapath that is done spares.
LEMMA DatapathEffect ==
  ASSUME IInv, TxEdge, LifeEdge, RxEdge, DatapathDone
  PROVE  AtRest /\ Spares
<1> DEFINE request == scratch.request
<1>1. compute # C_IDLE /\ Settles(request)
  BY DatapathSettles, Zenon DEF IInv, HeldInv
<1>2. AtRest
  BY <1>1, EventAtRest, Zenon DEF IInv, HeldInv
<1>3. UNCHANGED frame_payload
  <2>1. ~lane_enable
    BY <1>1, Zenon DEF lane_enable
  <2> QED
    BY <2>1, Zenon DEF RxEdge, RxStart, RxFrame, RxFault, RxIdle, rxVars
<1>4. ~blake_retire_attempt
  BY <1>1, Zenon DEF blake_retire_attempt, event_ready
<1>5. Eventful
  BY <1>2, <1>3, Zenon DEF Eventful
<1> QED
  BY <1>1, <1>2, <1>4, <1>5, SettlesSpares, Zenon

-----------------------------------------------------------------------------
(* The rules every edge keeps                                              *)

\* What the mux reads is not touched by a quiet edge that a response spans.
LEMMA QuietPayload ==
  ASSUME IInv, TxEdge, LifeEdge, RxEdge, Quiet, tx = "active", tx' = "active"
  PROVE  Payload' = Payload
<1>1. Advances /\ KeepBlake
  BY QuietAdvances, Zenon DEF Quiet
<1>2. tx # "done" /\ tx # "idle"
  OBVIOUS
<1>3. ~lane_enable /\ ~tx_start
  BY <1>2, Zenon DEF lane_enable, IInv, TransmitterInv
<1>4. /\ reply' = reply /\ frame_payload' = frame_payload /\ staged' = staged
      /\ result_pending' = result_pending
      /\ committed' = committed /\ state_valid' = state_valid /\ retire_seq' = retire_seq
  BY <1>1, <1>2, <1>3, Zenon DEF Advances, commitVars
<1>5. blake_pulse = "none" /\ PulseInv
  BY <1>3, Zenon DEF IInv, HeldInv, PulseInv
<1>6. LifeKept
  BY <1>1, <1>5, LifeStays, Zenon DEF IInv, HeldInv, Advances
<1>7. blake_pulse # "start" /\ blake_pulse # "accept"
  BY <1>5
<1>8. life.service_pending \/ life.result_pending =>
        /\ life'.txn_id = life.txn_id /\ life'.service_id = life.service_id
        /\ life'.next_pc = life.next_pc /\ life'.next_fp = life.next_fp
        /\ service' = service
  BY <1>1, <1>5, <1>6, BlakeKept, Zenon DEF LifeKept
<1> DEFINE operands == IF frame_payload = None THEN None
                       ELSE [i \in 1..(Len(frame_payload.cells) - 2) |->
                               frame_payload.cells[i].value]
           pending  == IF life.service_pending THEN 2
                       ELSE IF life.result_pending \/ result_pending THEN 1 ELSE 0
<1>9. operands' = operands
  BY <1>4, Zenon
<1>10. pending' = pending
  BY <1>4, <1>6, Zenon DEF LifeKept
<1> HIDE DEF operands, pending
<1>11. CASE reply.kind = "service"
  <2>1. Payload = [txn_id |-> life.txn_id, service_id |-> life.service_id,
                   operands |-> operands]
    BY <1>11, Zenon DEF Payload, operands
  <2>2. Payload' = [txn_id |-> life'.txn_id, service_id |-> life'.service_id,
                    operands |-> operands']
    BY <1>4, <1>11, Zenon DEF Payload, operands
  <2>3. life.service_pending
    BY <1>5, <1>7, <1>11, Zenon DEF PulseInv
  <2> QED
    BY <1>8, <1>9, <2>1, <2>2, <2>3, Zenon
<1>12. CASE reply.kind = "blake_result"
  <2>1. life.result_pending
    BY <1>5, <1>7, <1>12, Zenon DEF PulseInv
  <2>2. ServicePayload' = ServicePayload
    BY <1>8, <2>1, Zenon DEF ServicePayload
  <2>3. Payload = ServicePayload /\ Payload' = ServicePayload'
    <3>1. Payload = ServicePayload
      BY <1>12, ServicePayloadSent
    <3>2. Payload' = ServicePayload'
      <4>1. reply'.kind = "blake_result"
        BY <1>4, <1>12
      <4> QED
        BY <4>1 DEF Payload, ServicePayload
    <3> QED
      BY <3>1, <3>2
  <2> QED
    BY <2>2, <2>3, Zenon
<1>13. CASE reply.kind = "result"
  <2>1. Payload = staged
    BY <1>13, ScalarPayloadSent
  <2>2. Payload' = staged'
    <3>1. reply'.kind = "result"
      BY <1>4, <1>13
    <3> QED
      BY <3>1 DEF Payload
  <2> QED
    BY <1>4, <2>1, <2>2
<1>14. CASE reply.kind = "info"
  <2>1. Payload = [state |-> pending, txn_id |-> reply.txn_id, retire_seq |-> retire_seq,
                   committed |-> committed, state_valid |-> state_valid]
    BY <1>14, Zenon DEF Payload, pending
  <2>2. Payload' = [state |-> pending', txn_id |-> reply'.txn_id, retire_seq |-> retire_seq',
                    committed |-> committed', state_valid |-> state_valid']
    BY <1>4, <1>14, Zenon DEF Payload, pending
  <2> QED
    BY <1>4, <1>10, <2>1, <2>2, Zenon
<1>15. CASE reply.kind = "retired"
  <2>1. Payload = [txn_id |-> reply.txn_id, retire_seq |-> retire_seq, committed |-> committed]
    BY <1>15, Zenon DEF Payload
  <2>2. Payload' = [txn_id |-> reply'.txn_id, retire_seq |-> retire_seq',
                    committed |-> committed']
    BY <1>4, <1>15, Zenon DEF Payload
  <2> QED
    BY <1>4, <2>1, <2>2, Zenon
<1>16. CASE reply.kind \notin {"service", "blake_result", "result", "info", "retired"}
  <2>1. /\ reply.kind # "service" /\ reply.kind # "blake_result" /\ reply.kind # "result"
        /\ reply.kind # "info" /\ reply.kind # "retired"
    BY <1>16
  <2>2. Payload = reply
    BY <2>1, Zenon DEF Payload
  <2>3. Payload' = reply'
    BY <1>4, <2>1, Zenon DEF Payload
  <2> QED
    BY <1>4, <2>2, <2>3
<1> QED
  BY <1>11, <1>12, <1>13, <1>14, <1>15, <1>16

\* While a response is serialized nothing under the mux moves.
LEMMA PayloadStable == ASSUME IInv, Next PROVE StableStep
<1> SUFFICES ASSUME tx = "active", tx' = "active" PROVE Payload' = Payload
  BY Zenon DEF StableStep
<1>1. CASE Edge
  <2>1. tx # "idle"
    OBVIOUS
  <2>2. ~AtRest
    BY <2>1, Zenon DEF AtRest
  <2>3. TxEdge /\ LifeEdge /\ (RxEdge /\ Quiet)
    BY <1>1, <2>2, FrameEffect, DatapathEffect, Zenon DEF Edge
  <2> QED
    BY <2>3, QuietPayload, Zenon
<1>2. CASE Abort \/ Reset
  <2>1. tx' = "idle"
    BY <1>2, Zenon DEF Abort, Reset, Quiesce
  <2> QED
    BY <2>1
<1> QED
  BY <1>1, <1>2, Zenon DEF Next

\* A successor is not the number it succeeds, nor zero.
LEMMA Successors == ASSUME IInv PROVE retire_seq + 1 # retire_seq /\ retire_seq + 1 # 0
<1>1. retire_seq \in 0..RetireSeqMax
  BY Zenon DEF IInv, CommittedInv
<1> QED
  BY <1>1, FrontendBounds

\* The shell's pulse after an edge.
LEMMA ShellPulse == ASSUME LifeEdge PROVE life'.done_pulse = LifeDonePulse
  BY LifeFields, Zenon

\* What Spares and Commits say of DONE.
LEMMA DoneOfEffect ==
  ASSUME IInv, LifeEdge, Spares \/ Commits
  PROVE  DoneStep
<1>1. life'.done_pulse = LifeDonePulse
  BY ShellPulse
<1>2. (done_pulse' <=> retire_seq' = retire_seq + 1)
      /\ done_pulse' \in BOOLEAN /\ (retire_seq' = retire_seq + 1) \in BOOLEAN
  <2>1. CASE Spares
    <3>1. done_pulse' = FALSE
      BY <1>1, <2>1, Zenon DEF Spares, done_pulse
    <3>2. retire_seq' # retire_seq + 1
      BY <2>1, Successors, Zenon DEF Spares
    <3> QED
      BY <3>1, <3>2, Zenon
  <2>2. CASE Commits
    <3>1. done_pulse' = TRUE
      BY <1>1, <2>2, Zenon DEF Commits, done_pulse
    <3>2. retire_seq' = retire_seq + 1
      BY <2>2, Zenon DEF Commits
    <3> QED
      BY <3>1, <3>2, Zenon
  <2> QED
    BY <2>1, <2>2
<1>3. \A a, b \in BOOLEAN : (a <=> b) => a = b
  OBVIOUS
<1> QED
  BY <1>2, <1>3, Zenon DEF DoneStep

\* A quiet edge spares.
LEMMA QuietSpares ==
  ASSUME IInv, RxEdge, Quiet
  PROVE  /\ core_done_pulse' = FALSE /\ ~LifeDonePulse
         /\ committed' = committed /\ state_valid' = state_valid
         /\ retire_seq' = retire_seq /\ blake_pulse' = "none" /\ tx_start' = FALSE
<1>1. Advances
  BY QuietAdvances
<1>2. KeepCommitted
  BY Zenon DEF Quiet
<1> QED
  BY <1>1, <1>2, Zenon DEF Advances, KeepCommitted, commitVars, LifeDonePulse

\* What ABORT leaves of the shell's transaction.
LEMMA AbortedShell ==
  ASSUME LifeInv, LifeAbort
  PROVE  life'.result_pending = FALSE /\ life'.done_pulse = FALSE
<1>1. life' = [life EXCEPT !.service_pending = FALSE, !.result_pending = FALSE,
                           !.crc = 0, !.done_pulse = FALSE]
  BY Zenon DEF LifeAbort
<1> DEFINE a == life.service_pending
           b == life.result_pending
           c == life.txn_id
           d == life.service_id
           e == life.next_pc
           f == life.next_fp
           g == life.crc
           h == life.service_seq
           i == life.done_pulse
<1>2. life = [service_pending |-> a, result_pending |-> b, txn_id |-> c,
              service_id |-> d, next_pc |-> e, next_fp |-> f, crc |-> g,
              service_seq |-> h, done_pulse |-> i]
  BY Zenon DEF LifeInv
<1> HIDE DEF a, b, c, d, e, f, g, h, i
<1> QED
  BY ONLY <1>1, <1>2

\* DONE pulses exactly when the committed state moves.
LEMMA DoneIsCommit == ASSUME IInv, Next PROVE DoneStep
<1>1. ASSUME core_done_pulse' = FALSE, life'.done_pulse = FALSE,
             retire_seq' = retire_seq \/ retire_seq' = 0
      PROVE  DoneStep
  <2>1. done_pulse' = FALSE
    BY <1>1, Zenon DEF done_pulse
  <2>2. retire_seq' # retire_seq + 1
    BY <1>1, Successors
  <2>3. (retire_seq' = retire_seq + 1) \in BOOLEAN
    OBVIOUS
  <2> QED
    BY <2>1, <2>2, <2>3, Zenon DEF DoneStep
<1>2. CASE Edge
  <2>1. CASE RxEdge /\ Quiet
    <3>1. life'.done_pulse = FALSE
      <4>1. LifeDonePulse = life'.done_pulse /\ ~LifeDonePulse
        BY <1>2, <2>1, QuietSpares, ShellPulse, Zenon DEF Edge
      <4>2. LifeDonePulse \in BOOLEAN
        BY Zenon DEF LifeDonePulse
      <4> QED
        BY <4>1, <4>2, Zenon
    <3> QED
      BY <1>1, <2>1, <3>1, QuietSpares, Zenon
  <2>2. CASE RxEdge /\ DatapathDone
    BY <1>2, <2>2, DatapathEffect, DoneOfEffect, Zenon DEF Edge
  <2>3. CASE RxConsumed /\ FrameEvent
    BY <1>2, <2>3, FrameEffect, DoneOfEffect, Zenon DEF Edge
  <2> QED
    BY <1>2, <2>1, <2>2, <2>3, Zenon DEF Edge
<1>3. CASE Abort
  <2>1. core_done_pulse' = FALSE /\ retire_seq' = retire_seq
    BY <1>3, Zenon DEF Abort, Quiesce, commitVars
  <2>2. life'.done_pulse = FALSE
    BY <1>3, AbortedShell, Zenon DEF Abort, IInv, HeldInv
  <2> QED
    BY <1>1, <2>1, <2>2
<1>4. CASE Reset
  <2>1. core_done_pulse' = FALSE /\ retire_seq' = 0 /\ life' = LifeReset
    BY <1>4, Zenon DEF Reset, Quiesce
  <2>2. LifeReset.done_pulse = FALSE
    BY DEF LifeReset
  <2> QED
    BY <1>1, <2>1, <2>2
<1> QED
  BY <1>2, <1>3, <1>4, Zenon DEF Next

\* A fault reply leaves what is held, or discards it before it is sent.
LEMMA FaultsSpare == ASSUME IInv, IInv', Next PROVE FaultStep
<1> SUFFICES ASSUME reply'.kind = "fault"
             PROVE  /\ (tx_start' /\ reply'.status \notin DiscardingFaults) =>
                         UNCHANGED <<result_pending, staged, life.service_pending,
                                     life.result_pending>>
                    /\ (tx' = "active" /\ reply'.status \in DiscardingFaults) => NothingPending'
                    /\ UNCHANGED committed
  BY Zenon DEF FaultStep
<1>1. ASSUME AtRest, LifeEdge, Spares \/ Commits
      PROVE  /\ (tx_start' /\ reply'.status \notin DiscardingFaults) =>
                  UNCHANGED <<result_pending, staged, life.service_pending,
                              life.result_pending>>
             /\ tx' # "active" /\ UNCHANGED committed
  <2>1. Spares
    <3>1. ~Commits
      BY DEF Commits
    <3> QED
      BY <1>1, <3>1
  <2>2. tx' # "active"
    BY <1>1 DEF AtRest
  <2>3. ASSUME reply'.status \notin DiscardingFaults
        PROVE  UNCHANGED <<result_pending, staged, life.service_pending,
                           life.result_pending>>
    <3>1. ~blake_retire_attempt /\ result_pending' = result_pending /\ staged' = staged
      BY <2>1, <2>3, Zenon DEF Spares
    <3>2. LifeKept
      BY <1>1, <3>1, LifeStays, Zenon DEF AtRest, IInv, HeldInv
    <3> QED
      BY <3>1, <3>2, Zenon DEF LifeKept
  <2>4. UNCHANGED committed
    BY <2>1, Zenon DEF Spares
  <2> QED
    BY <2>2, <2>3, <2>4
<1>2. CASE Edge
  <2>1. CASE RxEdge /\ Quiet
    <3>1. ~tx_start' /\ UNCHANGED committed /\ blake_pulse' = "none"
      BY <2>1, QuietSpares, Zenon
    <3>2. ASSUME reply'.status \in DiscardingFaults PROVE NothingPending'
      <4>1. blake_pulse' # "discard"
        BY <3>1
      <4>2. ~result_pending' /\ ~life'.result_pending /\ ~life'.service_pending
        <5>1. DiscardInv'
          BY Zenon DEF IInv, HeldInv
        <5>2. DiscardingFaults' = DiscardingFaults
          BY DEF DiscardingFaults
        <5> QED
          BY <3>2, <4>1, <5>1, <5>2, Zenon DEF DiscardInv
      <4> QED
        BY <3>1, <4>2, Zenon DEF NothingPending
    <3> QED
      BY <3>1, <3>2, Zenon
  <2>2. CASE RxEdge /\ DatapathDone
    BY <1>1, <1>2, <2>2, DatapathEffect, Zenon DEF Edge
  <2>3. CASE RxConsumed /\ FrameEvent
    BY <1>1, <1>2, <2>3, FrameEffect, Zenon DEF Edge
  <2> QED
    BY <1>2, <2>1, <2>2, <2>3, Zenon DEF Edge
<1>3. CASE Abort \/ Reset
  <2>1. reply' = NoReply
    BY <1>3, Zenon DEF Abort, Reset, Quiesce
  <2>2. NoReply.kind # "fault"
    BY KindsOfReply
  <2> QED
    BY <2>1, <2>2
<1> QED
  BY <1>2, <1>3, Zenon DEF Next

\* On every edge of the clock, ABORT and reset included: a response on the
\* wire is not changed under the payload mux (lsc1_packet_tx reads it byte by
\* byte), DONE pulses for exactly the edges on which the committed state
\* moves, and a fault reply leaves the transaction held where it is, but for
\* RETIRE_MISMATCH and WRITE_CONFLICT, which discard it before they are sent.
THEOREM EdgesStaySound == Spec => EdgesAreSound
<1>1. IInv /\ IInv' /\ [Next]_vars => [StableStep /\ DoneStep /\ FaultStep]_vars
  BY PayloadStable, DoneIsCommit, FaultsSpare, Zenon
<1> QED
  BY <1>1, Invariant, PTL DEF Spec, EdgesAreSound

-----------------------------------------------------------------------------
(* The frontend keeps the retirement ledger                                *)

\* A result is pending, in the frontend or in the shell.
Offering == result_pending \/ life.result_pending

\* A result that stays pending stays the same.
Steadies == Offering /\ Offering' => Offer' = Offer

\* What is offered continues the committed state.
Continues ==
    /\ Offering => Offer # None /\ (state_valid => Offer.from = committed)
    /\ ~Offering => Offer = None

\* So it does in every state of the invariant.
LEMMA OfferContinues == IInv => Continues
<1> SUFFICES ASSUME IInv PROVE Continues
  OBVIOUS
<1>1. ASSUME Offering
      PROVE  Offer # None /\ (state_valid => Offer.from = committed)
  <2>1. Holding
    BY <1>1, Zenon DEF Offering, Holding, ServiceHeld
  <2>2. Placed(asked.request)
        /\ (state_valid => committed = [pc |-> asked.request.pc, fp |-> asked.request.fp])
    BY <2>1, Zenon DEF IInv, HeldInv, HoldingInv
  <2> DEFINE from == [pc |-> asked.request.pc, fp |-> asked.request.fp]
  <2>3. from \in ScalarState
    <3> DEFINE p == asked.request.pc
               f == asked.request.fp
    <3>1. p \in 0..(INDEX_LIMIT - 1) /\ f \in 0..(INDEX_LIMIT - 1)
      BY <2>2, Zenon DEF Placed
    <3>2. from = [pc |-> p, fp |-> f]
      OBVIOUS
    <3> HIDE DEF p, f, from
    <3>3. p \in 0..INDEX_LIMIT
      BY <3>1, U32Assumption
    <3> QED
      BY <3>1, <3>2, <3>3 DEF ScalarState
  <2>4. CASE result_pending
    <3> DEFINE to == [pc |-> staged.next_pc, fp |-> staged.next_fp]
    <3>1. staged \in StagedResults
      BY <2>4, Zenon DEF IInv, HeldInv, StagedInv
    <3>2. to \in ScalarState
      BY <3>1 DEF StagedResults, ScalarState
    <3>3. Offer = [from |-> from, to |-> to]
      BY <2>4, Zenon DEF Offer
    <3> HIDE DEF from, to
    <3>4. Offer \in [from : ScalarState, to : ScalarState] /\ Offer.from = from
      BY <2>3, <3>2, <3>3
    <3>5. Offer # None
      BY <3>4, NoneAssumption, Zenon
    <3> QED
      BY <2>2, <3>4, <3>5, Zenon DEF from
  <2>5. CASE ~result_pending
    <3> DEFINE to == [pc |-> life.next_pc, fp |-> life.next_fp]
    <3>1. life.result_pending /\ ServiceHeld
      BY <1>1, <2>5, Zenon DEF Offering, ServiceHeld
    <3>2. life.next_pc \in 0..INDEX_LIMIT /\ life.next_fp \in 0..(INDEX_LIMIT - 1)
      <4>1. /\ life.next_pc = execute(asked.request).next_pc
            /\ life.next_fp = execute(asked.request).next_fp
        BY <3>1, Zenon DEF IInv, HeldInv, SuspendedInv
      <4>2. /\ execute(asked.request).next_pc \in 0..INDEX_LIMIT
            /\ execute(asked.request).next_fp \in 0..(INDEX_LIMIT - 1)
        BY <3>1, HeldService, Zenon
      <4> QED
        BY <4>1, <4>2, Zenon
    <3>3. to \in ScalarState
      BY <3>2 DEF ScalarState
    <3>4. Offer = [from |-> from, to |-> to]
      BY <2>5, <3>1, Zenon DEF Offer
    <3> HIDE DEF from, to
    <3>5. Offer \in [from : ScalarState, to : ScalarState] /\ Offer.from = from
      BY <2>3, <3>3, <3>4
    <3>6. Offer # None
      BY <3>5, NoneAssumption, Zenon
    <3> QED
      BY <2>2, <3>5, <3>6, Zenon DEF from
  <2> QED
    BY <2>4, <2>5
<1>2. ~Offering => Offer = None
  BY Zenon DEF Offering, Offer
<1> QED
  BY <1>1, <1>2, Zenon DEF Continues

\* And in the next.
LEMMA OfferContinuesNext == IInv' => Continues'
  BY OfferContinues, PTL

\* A transaction held by the registers is offered as before.
LEMMA KeptSteadies ==
  ASSUME UNCHANGED <<result_pending, staged, asked>>, LifeKept
  PROVE  Steadies
<1> SUFFICES ASSUME Offering PROVE Offer' = Offer
  BY Zenon DEF Steadies
<1>1. CASE result_pending
  BY <1>1, Zenon DEF Offer
<1>2. CASE ~result_pending /\ life.result_pending
  BY <1>2, Zenon DEF Offer, LifeKept
<1> QED
  BY <1>1, <1>2, Zenon DEF Offering

\* Frames that change no transaction.
LEMMA RejectSteadies ==
  ASSUME Eventful, ~blake_retire_attempt,
         (\E status, txn_id : Reject(status, txn_id))
         \/ (\E kind, status, txn_id, detail : Inform(kind, status, txn_id, detail))
  PROVE  Steadies
<1>1. KeepStaged /\ asked' = asked
  BY Zenon DEF Reject, emit_fault, Inform
<1>2. UNCHANGED <<result_pending, staged, asked>>
  BY <1>1, Zenon DEF KeepStaged
<1>3. LifeKept
  BY LifeStays, Zenon DEF Eventful, IInv, HeldInv, AtRest
<1> QED
  BY <1>2, <1>3, KeptSteadies

\* A frame event leaves a result pending as it was, or not pending.
LEMMA FrameSteadies ==
  ASSUME IInv, TxEdge, LifeEdge, RxConsumed, FrameEvent
  PROVE  Steadies
<1>1. event_ready /\ compute = C_IDLE
  BY Zenon DEF FrameEvent, event_ready
<1>2. AtRest
  BY FrameEffect
<1>3. Eventful
  BY <1>2, Zenon DEF Eventful, RxConsumed
<1>4. ASSUME blake_retire_attempt, result_pending' = result_pending \/ result_pending' = FALSE
      PROVE  ~Offering'
  <2>0. life.result_pending /\ ~result_pending
    BY <1>4, Zenon DEF blake_retire_attempt, IInv, HeldInv, OneTransaction
  <2>1. ~result_pending'
    BY <1>4, <2>0
  <2>2. ~life'.result_pending
    BY <1>4, LifeFields, Zenon DEF LifeResultPending
  <2> QED
    BY <2>1, <2>2, Zenon DEF Offering
<1>5. CASE DefectEvent
  <2>1. ~blake_retire_attempt
    BY <1>5 DEF DefectEvent, blake_retire_attempt
  <2> QED
    BY <1>3, <1>5, <2>1, RejectSteadies, Zenon DEF DefectEvent
<1>6. CASE StatusEvent
  <2>1. ~blake_retire_attempt
    BY <1>6 DEF StatusEvent, blake_retire_attempt
  <2> QED
    BY <1>3, <1>6, <2>1, RejectSteadies, Zenon DEF StatusEvent
<1>7. CASE NegotiateEvent
  <2>1. ~blake_retire_attempt
    BY <1>7 DEF NegotiateEvent, blake_retire_attempt
  <2> QED
    BY <1>3, <1>7, <2>1, RejectSteadies, Zenon DEF NegotiateEvent
<1>8. CASE BlakeRetireEvent
  <2>1. blake_retire_attempt
    BY <1>1, <1>8, Zenon DEF BlakeRetireEvent, blake_retire_attempt
  <2>2. KeepStaged
    BY <1>8, Zenon DEF BlakeRetireEvent, Reject, emit_fault
  <2> QED
    BY <1>4, <2>1, <2>2, Zenon DEF KeepStaged, Steadies
<1>9. CASE RetireEvent
  <2>1. ~life.result_pending /\ ~blake_retire_attempt
    BY <1>9, Zenon DEF RetireEvent, blake_retire_attempt
  <2>2. CASE Reject("BAD_STATE", frame_payload.txn_id)
    BY <1>3, <2>1, <2>2, RejectSteadies, Zenon
  <2>3. CASE Withdraw
    <3>1. LifeKept
      BY <1>2, <2>1, LifeStays, Zenon DEF IInv, HeldInv, AtRest
    <3>2. ~Offering'
      BY <2>1, <2>3, <3>1, Zenon DEF Offering, Withdraw, LifeKept
    <3> QED
      BY <3>2, Zenon DEF Steadies
  <2> QED
    BY <1>9, <2>2, <2>3, Zenon DEF RetireEvent, ScalarRetire, RetireMismatch
<1>10. CASE ServiceEvent
  <2>1. rx.state = "frame" /\ frame_opcode # "RETIRE"
    BY <1>10 DEF ServiceEvent
  <2>2. ~blake_retire_attempt
    BY <2>1, Zenon DEF blake_retire_attempt
  <2>3. CASE ServiceFault # "OK"
    <3>1. \E status, txn_id : Reject(status, txn_id)
      BY <1>10, <2>3, Zenon DEF ServiceEvent
    <3> QED
      BY <1>3, <2>2, <3>1, RejectSteadies, Zenon
  <2>4. CASE ServiceFault = "OK"
    <3>1. life.service_pending
      BY <2>4 DEF ServiceFault
    <3>2. ~Offering
      BY <3>1, Zenon DEF Offering, IInv, HeldInv, OneTransaction
    <3> QED
      BY <3>2, Zenon DEF Steadies
  <2> QED
    BY <2>3, <2>4
<1>11. CASE InstructionEvent
  <2>1. rx.state = "frame" /\ frame_opcode \in INSTRUCTION_OPCODES
    BY <1>11, Zenon DEF InstructionEvent
  <2>2. frame_opcode # "RETIRE"
    BY <2>1 DEF INSTRUCTION_OPCODES, ScalarOpcodes
  <2>3. ~blake_retire_attempt
    BY <2>2, Zenon DEF blake_retire_attempt
  <2>4. CASE \E status, txn_id : Reject(status, txn_id)
    BY <1>3, <2>3, <2>4, RejectSteadies, Zenon
  <2>5. CASE ~Pending
    BY <2>5, Zenon DEF Pending, Offering, Steadies
  <2> QED
    BY <1>11, <2>4, <2>5, Zenon DEF InstructionEvent
<1> QED
  BY <1>5, <1>6, <1>7, <1>8, <1>9, <1>10, <1>11, Zenon DEF FrameEvent

\* So does a quiet edge.
LEMMA QuietSteadies ==
  ASSUME IInv, TxEdge, LifeEdge, RxEdge, Quiet
  PROVE  Steadies
<1>1. Advances
  BY QuietAdvances
<1>2. CASE asked' # asked
  <2>1. NothingPending
    BY <1>2, Zenon DEF Quiet
  <2> QED
    BY <2>1, Zenon DEF NothingPending, Offering, Steadies
<1>3. CASE blake_pulse # "none"
  <2>1. blake_pulse \in {"none", "start", "accept", "discard"}
    BY Zenon DEF IInv, HeldInv, PulseInv
  <2>2. blake_pulse = "start" \/ blake_pulse \in {"accept", "discard"}
    BY <1>3, <2>1
  <2>3. ~Offering
    BY <1>3, <2>2, Zenon DEF IInv, HeldInv, OneTransaction, Offering
  <2> QED
    BY <2>3, Zenon DEF Steadies
<1>4. CASE asked' = asked /\ blake_pulse = "none"
  <2>1. LifeKept
    BY <1>1, <1>4, LifeStays, Zenon DEF IInv, HeldInv, Advances
  <2>2. UNCHANGED <<result_pending, staged, asked>>
    BY <1>1, <1>4, Zenon DEF Advances
  <2> QED
    BY <2>1, <2>2, KeptSteadies
<1> QED
  BY <1>2, <1>3, <1>4

\* An edge that commits nothing offers, keeps or withdraws.
LEMMA SteadyLedger ==
  ASSUME IInv, IInv', Steadies, UNCHANGED <<committed, state_valid, retire_seq>>
  PROVE  [Ledger!LedgerNext]_(Ledger!ledger)
<1>1. CASE ~Offering'
  <2>1. Offer' = None
    BY <1>1, OfferContinuesNext, Zenon DEF Continues
  <2> QED
    BY <2>1, Zenon DEF Ledger!LedgerNext, Ledger!Withdraw
<1>2. CASE Offering /\ Offering'
  <2>1. Offer' = Offer
    BY <1>2, Zenon DEF Steadies
  <2> QED
    BY <2>1, Zenon DEF Ledger!ledger
<1>3. CASE ~Offering /\ Offering'
  <2>1. Offer = None /\ Offer' # None /\ (state_valid' => Offer'.from = committed')
    BY <1>3, OfferContinues, OfferContinuesNext, Zenon DEF Continues
  <2> QED
    BY <2>1, Zenon DEF Ledger!LedgerNext, Ledger!Propose
<1> QED
  BY <1>1, <1>2, <1>3

\* A computation in flight steadies: nothing is on offer yet.
LEMMA DatapathSteadies ==
  ASSUME IInv, TxEdge, LifeEdge, RxEdge, DatapathDone
  PROVE  Steadies
<1>1. compute # C_IDLE
  BY DatapathSettles, Zenon DEF IInv, HeldInv
<1>2. ~Offering
  BY <1>1, Zenon DEF IInv, HeldInv, OneTransaction, Offering
<1> QED
  BY <1>2, Zenon DEF Steadies

\* The edge of a retirement commits what was on offer, and withdraws it.
LEMMA CommitLedger ==
  ASSUME IInv, IInv', LifeEdge, AtRest, Commits
  PROVE  Ledger!LedgerNext
<1>1. Offering
  BY Zenon DEF Commits, Offering
<1>2. Offer # None
  BY <1>1, OfferContinues, Zenon DEF Continues
<1> DEFINE from == [pc |-> asked.request.pc, fp |-> asked.request.fp]
<1>3. committed' = Offer.to /\ ~life'.result_pending
  <2>1. CASE result_pending
    <3> DEFINE to == [pc |-> staged.next_pc, fp |-> staged.next_fp]
    <3>1. committed' = to /\ ~life.result_pending
      BY <2>1, Zenon DEF Commits
    <3>2. Offer = [from |-> from, to |-> to]
      BY <2>1, Zenon DEF Offer
    <3>3. ~blake_retire_attempt
      BY <3>1, Zenon DEF blake_retire_attempt
    <3>4. LifeKept
      BY <3>3, LifeStays, Zenon DEF IInv, HeldInv, AtRest
    <3>5. ~life'.result_pending
      BY <3>1, <3>4, Zenon DEF LifeKept
    <3> HIDE DEF from, to
    <3>6. Offer.to = to
      BY <3>2
    <3> QED
      BY <3>1, <3>5, <3>6, Zenon
  <2>2. CASE ~result_pending
    <3> DEFINE to == [pc |-> life.next_pc, fp |-> life.next_fp]
    <3>1. committed' = to /\ life.result_pending /\ blake_retire_attempt
      BY <2>2, Zenon DEF Commits
    <3>2. Offer = [from |-> from, to |-> to]
      BY <2>2, <3>1, Zenon DEF Offer
    <3>3. ~life'.result_pending
      BY <3>1, LifeFields, Zenon DEF LifeResultPending
    <3> HIDE DEF from, to
    <3>4. Offer.to = to
      BY <3>2
    <3> QED
      BY <3>1, <3>3, <3>4, Zenon
  <2> QED
    BY <2>1, <2>2
<1>4. ~Offering'
  BY <1>3, Zenon DEF Commits, Offering
<1>5. Offer' = None
  BY <1>4, OfferContinuesNext, Zenon DEF Continues
<1>6. state_valid' = TRUE /\ retire_seq' = retire_seq + 1
  BY Zenon DEF Commits
<1> QED
  BY <1>2, <1>3, <1>5, <1>6, Zenon DEF Ledger!LedgerNext, Ledger!Commit

\* Every step of the frontend is a step of the ledger, or none.
LEMMA LedgerStep ==
  ASSUME IInv, IInv', [Next]_vars
  PROVE  [Ledger!LedgerNext]_(Ledger!ledger)
<1>1. ASSUME TxEdge, LifeEdge, RxEdge, Quiet
      PROVE  [Ledger!LedgerNext]_(Ledger!ledger)
  <2>1. UNCHANGED <<committed, state_valid, retire_seq>>
    BY <1>1, QuietSpares, Zenon
  <2> QED
    BY <1>1, <2>1, QuietSteadies, SteadyLedger
<1>2. ASSUME TxEdge, LifeEdge, RxEdge, DatapathDone
      PROVE  [Ledger!LedgerNext]_(Ledger!ledger)
  <2>1. UNCHANGED <<committed, state_valid, retire_seq>>
    BY <1>2, DatapathEffect, Zenon DEF Spares
  <2> QED
    BY <1>2, <2>1, DatapathSteadies, SteadyLedger
<1>3. ASSUME TxEdge, LifeEdge, RxConsumed, FrameEvent
      PROVE  [Ledger!LedgerNext]_(Ledger!ledger)
  <2>1. CASE Spares
    <3>1. UNCHANGED <<committed, state_valid, retire_seq>>
      BY <2>1, Zenon DEF Spares
    <3> QED
      BY <1>3, <3>1, FrameSteadies, SteadyLedger
  <2>2. CASE Commits
    <3>1. AtRest
      BY <1>3, FrameEffect
    <3> QED
      BY <1>3, <2>2, <3>1, CommitLedger
  <2> QED
    BY <1>3, <2>1, <2>2, FrameEffect
<1>4. CASE Edge
  BY <1>1, <1>2, <1>3, <1>4, Zenon DEF Edge
<1>5. CASE Abort
  <2>1. result_pending' = FALSE /\ UNCHANGED <<committed, state_valid, retire_seq>>
    BY <1>5, Zenon DEF Abort, Quiesce, Withdraw, commitVars
  <2>2. ~Offering'
    BY <1>5, <2>1, AbortedShell, Zenon DEF Abort, IInv, HeldInv, Offering
  <2> QED
    BY <2>1, <2>2, SteadyLedger, Zenon DEF Steadies
<1>6. CASE Reset
  <2>1. /\ committed' = Origin /\ state_valid' = FALSE /\ retire_seq' = 0
        /\ result_pending' = FALSE /\ life' = LifeReset
    BY <1>6, Zenon DEF Reset, Quiesce, Withdraw
  <2>2. ~Offering'
    BY <2>1, ResetShell, Zenon DEF Offering
  <2>3. Offer' = None
    BY <2>2, OfferContinuesNext, Zenon DEF Continues
  <2>4. Ledger!PowerCycle
    BY <2>1, <2>3, Zenon DEF Ledger!PowerCycle, Ledger!Start, Origin
  <2> QED
    BY <2>4, Zenon DEF Ledger!LedgerNext
<1>7. CASE UNCHANGED vars
  <2>1. /\ result_pending' = result_pending /\ staged' = staged /\ asked' = asked
        /\ life' = life
        /\ UNCHANGED <<committed, state_valid, retire_seq>>
    BY <1>7, Zenon DEF vars, stageVars, commitVars
  <2>2. Offer' = Offer
    BY <2>1, Zenon DEF Offer
  <2> QED
    BY <2>1, <2>2, Zenon DEF Ledger!ledger
<1> QED
  BY <1>4, <1>5, <1>6, <1>7, Zenon DEF Next

\* On every edge of the clock, ABORT and reset included, the committed state
\* of the frontend moves only by retiring the one transition on offer, staged
\* or suspended, which continues it: the frontend implements the ledger.
THEOREM FrontendImplementsRetirement == Spec => ImplementsRetirement
<1>1. Init => Ledger!PowerOn
  <2> SUFFICES ASSUME Init PROVE Ledger!PowerOn
    OBVIOUS
  <2>1. ~result_pending /\ life = LifeReset /\ committed = Origin
        /\ state_valid = FALSE /\ retire_seq = 0
    BY Zenon DEF Init
  <2>2. Offer = None
    BY <2>1, ResetShell, Zenon DEF Offer
  <2> QED
    BY <2>1, <2>2, Zenon DEF Ledger!PowerOn, Ledger!Start, Origin
<1> QED
  BY <1>1, LedgerStep, Invariant, PTL
  DEF Spec, ImplementsRetirement, Ledger!LedgerSpec
=============================================================================
