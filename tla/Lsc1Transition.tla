--------------------------- MODULE Lsc1Transition ---------------------------
(***************************************************************************)
(* The scalar transition rules of LSC-1 (sim/lsc1_transaction.py, _Frame   *)
(* and the _execute_* functions): given one self-contained request, either *)
(* a fault status or the transition it decides.                            *)
(*                                                                         *)
(* A function that raises ProtocolFault is an operator returning           *)
(* Fault(status); the order of the IF ladder is the order of the checks.   *)
(* Fault details are opaque in the protocol and are left out, as are the   *)
(* cycle budgets.  checked_add(pc, 1) cannot overflow: a handler calls a   *)
(* transition only with pc < INDEX_LIMIT, and INDEX_LIMIT < U32_MAX.       *)
(***************************************************************************)
EXTENDS Gf2n, Sequences

CONSTANT U32_MAX

ASSUME U32Assumption ==
    /\ U32_MAX \in Nat
    /\ INDEX_LIMIT \in Nat \ {0}
    /\ INDEX_LIMIT < U32_MAX

FORWARD_ONLY       == "FORWARD_ONLY"
INTERPRETER_COMPAT == "INTERPRETER_COMPAT"
Profile == {FORWARD_ONLY, INTERPRETER_COMPAT}

ScalarOpcodes == {"XOR", "MUL_NATIVE", "SET_CONSTANT", "DEREF_CELL",
                  "DEREF_PC", "DEREF_FP", "JUMP"}
INSTRUCTION_OPCODES == ScalarOpcodes \cup {"BLAKE3_REQUEST"}

-----------------------------------------------------------------------------
\* A cell is a presence bit and a value; an absent cell carries no value.
Present(value) == [present |-> TRUE, value |-> value]
ABSENT         == [present |-> FALSE, value |-> Zero]
Cell           == {Present(value) : value \in Word} \cup {ABSENT}

Fault(status) == [status |-> status]

\* The record a decided transition leaves: StagedTransaction without the
\* fields copied from the request.
Decided(next_pc, next_fp, writes, deferred, accesses) ==
    [status |-> "OK", next_pc |-> next_pc, next_fp |-> next_fp,
     writes |-> writes, deferred |-> deferred, accesses |-> accesses]

-----------------------------------------------------------------------------
(* _Frame: the transition's view of the cells the host supplied.           *)

Addresses(fp, offsets) == [i \in DOMAIN offsets |-> fp + offsets[i]]

Overflows(addresses) == \E i \in DOMAIN addresses : addresses[i] > U32_MAX

\* supply() found one address with two different cells.
AliasInconsistent(addresses, cells) ==
    \E i, j \in DOMAIN addresses :
        addresses[i] = addresses[j] /\ cells[i] # cells[j]

Frame(addresses, cells) ==
    [address \in {addresses[i] : i \in DOMAIN addresses} |->
        cells[CHOOSE i \in DOMAIN addresses : addresses[i] = address]]

Read(frame, address) ==
    IF frame[address].present THEN frame[address].value ELSE Zero

\* write_once(): a conflict raises, an equal value is a no-op, an absent cell
\* becomes present and is appended to the writes.
WriteConflicts(frame, address, value) ==
    frame[address].present /\ frame[address].value # value

WriteOnce(frame, address, value) ==
    IF frame[address].present THEN frame
    ELSE [frame EXCEPT ![address] = Present(value)]

NewWrites(frame, address, value) ==
    IF frame[address].present THEN <<>>
    ELSE <<[address |-> address, value |-> value]>>

-----------------------------------------------------------------------------
Combine(opcode, left, right) ==
    IF opcode = "XOR" THEN Xor(left, right) ELSE field_mul(left, right)

\* Mutant: the missing factor is c * known.
BackSolvedByKnown(request, result, known) ==
    IF request.opcode = "XOR" THEN Xor(result, known) ELSE field_mul(result, known)

\* The missing operand of a back-solve: c XOR known, or c * known^-1 with the
\* inverse the host proposed (already verified).
BackSolved(request, result, known) ==
    IF request.opcode = "XOR" THEN Xor(result, known)
    ELSE field_mul(result, request.proposed_inverse.value)

execute_binary(request) ==
    LET addresses == Addresses(request.fp, request.offsets)
        frame     == Frame(addresses, request.cells)
        a == addresses[1]
        b == addresses[2]
        c == addresses[3]
        absentA == ~frame[a].present
        absentB == ~frame[b].present
        backSolve == /\ request.profile = INTERPRETER_COMPAT
                     /\ frame[c].present
                     /\ absentA # absentB
        missing == IF absentA THEN a ELSE b
        known   == Read(frame, IF absentA THEN b ELSE a)
        inverse == request.proposed_inverse
        solved  == BackSolved(request, Read(frame, c), known)
        filled  == IF backSolve THEN WriteOnce(frame, missing, solved) ELSE frame
        solving == IF backSolve THEN NewWrites(frame, missing, solved) ELSE <<>>
        result  == Combine(request.opcode, Read(filled, a), Read(filled, b))
        mulBack == backSolve /\ request.opcode = "MUL_NATIVE"
    IN  IF Overflows(addresses) THEN Fault("U32_OVERFLOW")
        ELSE IF AliasInconsistent(addresses, request.cells)
             THEN Fault("ALIAS_INCONSISTENT")
        ELSE IF request.profile = FORWARD_ONLY /\ (absentA \/ absentB)
             THEN Fault("UNSUPPORTED_IN_PROFILE")
        ELSE IF mulBack /\ known = Zero THEN Fault("MUL_BACKSOLVE_ZERO")
        ELSE IF mulBack /\ ~inverse.present THEN Fault("BAD_INVERSE")
        ELSE IF mulBack /\ field_mul(known, inverse.value) # One
             THEN Fault("BAD_INVERSE")
        ELSE IF WriteConflicts(filled, c, result) THEN Fault("WRITE_CONFLICT")
        ELSE Decided(request.pc + 1, request.fp,
                     solving \o NewWrites(filled, c, result), <<>>, addresses)

execute_set(request) ==
    LET address == request.fp + request.offsets[1]
        frame   == Frame(<<address>>, request.cells)
    IN  IF address > U32_MAX THEN Fault("U32_OVERFLOW")
        ELSE IF WriteConflicts(frame, address, request.constant)
             THEN Fault("WRITE_CONFLICT")
        ELSE Decided(request.pc + 1, request.fp,
                     NewWrites(frame, address, request.constant),
                     <<>>, <<address>>)

\* DEREF_CELL once pointer and aliases are checked: the cell the equality
\* writes, or the obligation handed back to the host.
DerefCell(request, frame, target, local, addresses) ==
    LET hasTarget == frame[target].present
        hasLocal  == frame[local].present
        Done(writes, deferred) ==
            Decided(request.pc + 1, request.fp, writes, deferred, addresses)
    IN  IF request.profile = FORWARD_ONLY /\ ~hasLocal
        THEN Fault("UNSUPPORTED_IN_PROFILE")
        ELSE IF hasTarget /\ hasLocal /\ Read(frame, target) # Read(frame, local)
        THEN Fault("DEREF_MISMATCH")
        ELSE IF hasTarget
        THEN Done(NewWrites(frame, local, Read(frame, target)), <<>>)
        ELSE IF hasLocal
        THEN Done(NewWrites(frame, target, Read(frame, local)), <<>>)
        ELSE Done(<<>>, <<[target |-> target, local |-> local]>>)

\* DEREF_PC and DEREF_FP write g^(pc+2) and g^fp to the target.
DerefIndex(request) ==
    IF request.opcode = "DEREF_PC" THEN request.pc + 2 ELSE request.fp

execute_deref(request) ==
    LET pointer   == request.fp + request.offsets[1]
        local     == request.fp + request.offsets[3]
        target    == request.base + request.offsets[2]
        addresses == <<pointer, target, local>>
        frame     == Frame(addresses, request.cells)
        index     == DerefIndex(request)
        value     == field_encode(index)
    IN  IF pointer > U32_MAX \/ local > U32_MAX THEN Fault("U32_OVERFLOW")
        ELSE IF request.base >= INDEX_LIMIT THEN Fault("INDEX_RANGE")
        ELSE IF field_encode(request.base) # request.cells[1].value
             THEN Fault("BAD_POINTER")
        ELSE IF target > U32_MAX THEN Fault("U32_OVERFLOW")
        ELSE IF AliasInconsistent(addresses, request.cells)
             THEN Fault("ALIAS_INCONSISTENT")
        ELSE IF request.opcode = "DEREF_CELL"
             THEN DerefCell(request, frame, target, local, addresses)
        ELSE IF index >= INDEX_LIMIT THEN Fault("INDEX_RANGE")
        ELSE IF WriteConflicts(frame, target, value) THEN Fault("WRITE_CONFLICT")
        ELSE Decided(request.pc + 1, request.fp,
                     NewWrites(frame, target, value), <<>>, addresses)

\* _verify_index(dest_pc) then _verify_index(dest_fp).
TargetFault(request, destination, new_frame) ==
    IF request.dest_pc >= INDEX_LIMIT THEN "INDEX_RANGE"
    ELSE IF field_encode(request.dest_pc) # destination THEN "BAD_POINTER"
    ELSE IF request.dest_fp >= INDEX_LIMIT THEN "INDEX_RANGE"
    ELSE IF field_encode(request.dest_fp) # new_frame THEN "BAD_POINTER"
    ELSE "OK"

execute_jump(request) ==
    LET addresses   == Addresses(request.fp, request.offsets)
        frame       == Frame(addresses, request.cells)
        condition   == Read(frame, addresses[1])
        destination == Read(frame, addresses[2])
        new_frame   == Read(frame, addresses[3])
        taken       == condition # Zero
        witness     == request.proposed_inverse
        targets     == TargetFault(request, destination, new_frame)
    IN  IF Overflows(addresses) THEN Fault("U32_OVERFLOW")
        ELSE IF AliasInconsistent(addresses, request.cells)
             THEN Fault("ALIAS_INCONSISTENT")
        ELSE IF taken # request.taken THEN Fault("BAD_BRANCH_PROPOSAL")
        ELSE IF taken /\ (~witness.present
                          \/ field_mul(condition, witness.value) # One)
             THEN Fault("BAD_INVERSE")
        ELSE IF taken /\ targets # "OK" THEN Fault(targets)
        ELSE IF taken
             THEN Decided(request.dest_pc, request.dest_fp, <<>>, <<>>, addresses)
        ELSE IF witness.present /\ witness.value # Zero THEN Fault("BAD_INVERSE")
        ELSE IF request.dest_pc # 0 \/ request.dest_fp # 0
             THEN Fault("BAD_BRANCH_PROPOSAL")
        ELSE Decided(request.pc + 1, request.fp, <<>>, <<>>, addresses)

-----------------------------------------------------------------------------
(* BLAKE3: the message words (four in the code, Len(message_offsets)       *)
(* here), two chaining-value words and two output words.  The metadata     *)
(* word is reduced to its validity: block length <= 64 and known flags.    *)

blake3_addresses(request) ==
    LET cv  == request.fp + request.cv_offset
        out == request.fp + request.out_offset
    IN  Addresses(request.fp, request.message_offsets)
            \o <<cv, cv + 1, out, out + 1>>

\* A suspended transition: frame is _Frame kept in staged.pending_frame.
execute_blake3(request) ==
    LET addresses == blake3_addresses(request)
        frame     == Frame(addresses, request.cells)
    IN  IF ~request.metadata_valid THEN Fault("BAD_SERVICE")
        ELSE IF Overflows(addresses) THEN Fault("U32_OVERFLOW")
        ELSE IF AliasInconsistent(addresses, request.cells)
             THEN Fault("ALIAS_INCONSISTENT")
        ELSE IF request.pc = INDEX_LIMIT - 1 THEN Fault("INDEX_RANGE")
        ELSE [status |-> "SERVICE_REQUIRED", next_pc |-> request.pc + 1,
              next_fp |-> request.fp, accesses |-> addresses, frame |-> frame,
              operands |-> [i \in 1..(Len(addresses) - 2) |->
                               Read(frame, addresses[i])]]

\* The writes of the two digest words to the last two addresses, or a conflict.
resume_blake3(frame, accesses, digest) ==
    LET out0 == accesses[Len(accesses) - 1]
        out1 == accesses[Len(accesses)]
        first == WriteOnce(frame, out0, digest[1])
    IN  IF \/ WriteConflicts(frame, out0, digest[1])
           \/ WriteConflicts(first, out1, digest[2])
        THEN Fault("WRITE_CONFLICT")
        ELSE [status |-> "OK",
              writes |-> NewWrites(frame, out0, digest[1])
                           \o NewWrites(first, out1, digest[2])]

-----------------------------------------------------------------------------
\* The opcode ladder of Lsc1Endpoint._handle_instruction.
execute(request) ==
    IF request.opcode \in {"XOR", "MUL_NATIVE"} THEN execute_binary(request)
    ELSE IF request.opcode = "SET_CONSTANT" THEN execute_set(request)
    ELSE IF request.opcode \in {"DEREF_CELL", "DEREF_PC", "DEREF_FP"}
         THEN execute_deref(request)
    ELSE IF request.opcode = "JUMP" THEN execute_jump(request)
    ELSE execute_blake3(request)
=============================================================================
