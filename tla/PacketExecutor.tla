--------------------------- MODULE PacketExecutor ---------------------------
(***************************************************************************)
(* sim/packet_executor_model.py: the second, independent implementation of *)
(* the packet protocol's scalar subset (XOR, MUL_NATIVE, SET_CONSTANT and  *)
(* RETIRE), one clock edge per step, and its relation to Lsc1Endpoint.     *)
(*                                                                         *)
(* The receiver counts bytes; what a frame says is chosen when its last    *)
(* byte is in, since only its length matters before that.  A frame is a    *)
(* record of the fields _dispatch and Reader look at, malformed ones being *)
(* marked with the check they fail.  Field words are sets of exponents, as *)
(* in Gf2n, but multiply() is the carry-less product and long reduction    *)
(* of this program.  abort_count is a statistic and is left out.           *)
(***************************************************************************)
EXTENDS Integers, Sequences, SequencesExt

CONSTANTS FieldBits, ReductionLow, IndexBits, U32_MAX,
          Requests,        \* instruction requests a host may send
          TxnIds, CrcWords, Crc(_),
          HeaderBytes,     \* REQUEST_HEADER
          FrameCrcBytes,   \* CRC_BYTES
          MaxPayload,      \* MAX_PAYLOAD
          ResponseBytes,   \* bytes of a response
          RetireSeqMax,    \* bound: retirements explored after a reset
          None

\* What the constants must satisfy.
FramingAssumption ==
    /\ {HeaderBytes, FrameCrcBytes, ResponseBytes} \subseteq Nat \ {0}
    /\ HeaderBytes > 1 /\ MaxPayload \in Nat

VARIABLES state, profile, committed, state_valid, retire_seq, last_status, last_fault,
          staged,       \* Staged or None
          rx,           \* len(_rx)
          expected,     \* _expected
          tx, left,     \* the response being sent, bytes of it left in _tx
          done          \* _done

core == <<state, profile, committed, state_valid, retire_seq, staged>>
vars == <<core, last_status, last_fault, rx, expected, tx, left, done>>

MaxRequestBytes == HeaderBytes + MaxPayload + FrameCrcBytes
-----------------------------------------------------------------------------
(* Field and FrameMemory *)

Xor(left_word, right_word) == (left_word \ right_word) \cup (right_word \ left_word)

\* Carry-less product, then the modulus is subtracted from the top bit down.
multiply(left_word, right_word) ==
    LET Shift(word, bit) == {i + bit : i \in word}
        product == FoldSet(LAMBDA bit, sum : Xor(sum, Shift(left_word, bit)), {}, right_word)
        Reduce(word, bit) ==
            IF bit \in word
            THEN Xor(word, Shift(ReductionLow \cup {FieldBits}, bit - FieldBits)) ELSE word
        top == 2 * FieldBits - 2
    IN  FoldLeft(Reduce, product, [i \in 1..(FieldBits - 1) |-> top + 1 - i])

Present(value) == [present |-> TRUE, value |-> value]

\* FrameMemory, with the fault it raised: after that nothing changes it.
EmptyMemory == [cells |-> <<>>, writes |-> <<>>, fault |-> "OK"]
Raise(memory, status) == IF memory.fault = "OK" THEN [memory EXCEPT !.fault = status] ELSE memory
With(cells, address, cell) ==
    [a \in DOMAIN cells \cup {address} |-> IF a = address THEN cell ELSE cells[a]]

supply(memory, address, cell) ==
    IF address \in DOMAIN memory.cells /\ memory.cells[address] # cell
    THEN Raise(memory, "ALIAS_INCONSISTENT")
    ELSE [memory EXCEPT !.cells = With(@, address, cell)]

read(memory, address) ==
    IF memory.cells[address].present THEN memory.cells[address].value ELSE {}

\* Mutant: a conflicting write is dropped.
write_onceLax(memory, address, value) ==
    IF memory.cells[address].present THEN memory
    ELSE [memory EXCEPT !.cells = With(@, address, Present(value)),
                        !.writes = Append(@, [address |-> address, value |-> value])]

write_once(memory, address, value) ==
    IF memory.fault # "OK" THEN memory
    ELSE IF ~memory.cells[address].present
    THEN [memory EXCEPT !.cells = With(@, address, Present(value)),
                        !.writes = Append(@, [address |-> address, value |-> value])]
    ELSE IF memory.cells[address].value # value THEN Raise(memory, "WRITE_CONFLICT")
    ELSE memory

checked_add(request) == [i \in DOMAIN request.offsets |-> request.fp + request.offsets[i]]

Supplied(request, addresses) ==
    IF \E i \in DOMAIN addresses : addresses[i] > U32_MAX
    THEN Raise(EmptyMemory, "U32_OVERFLOW")
    ELSE FoldLeft(LAMBDA memory, i : supply(memory, addresses[i], request.cells[i]),
                  EmptyMemory, [i \in DOMAIN addresses |-> i])

\* The operand that is missing, from the result and the operand that is known.
Solve(memory, request, known, missing, result) ==
    LET inverse == request.proposed_inverse
        k == read(memory, known)
        c == read(memory, result)
    IN  IF request.opcode = "XOR" THEN write_once(memory, missing, Xor(c, k))
        ELSE IF k = {} THEN Raise(memory, "MUL_BACKSOLVE_ZERO")
        ELSE IF ~inverse.present \/ multiply(k, inverse.value) # {0}
        THEN Raise(memory, "BAD_INVERSE")
        ELSE write_once(memory, missing, multiply(c, inverse.value))

Combine(memory, request, a, b) ==
    IF request.opcode = "XOR" THEN Xor(read(memory, a), read(memory, b))
    ELSE multiply(read(memory, a), read(memory, b))

Binary(request, memory, a, b, c) ==
    LET absent_a == ~memory.cells[a].present
        absent_b == ~memory.cells[b].present
        solved == IF memory.cells[c].present /\ absent_a # absent_b
                  THEN Solve(memory, request, IF absent_a THEN b ELSE a,
                             IF absent_a THEN a ELSE b, c)
                  ELSE memory
    IN  IF memory.fault # "OK" THEN memory
        ELSE IF (absent_a \/ absent_b) /\ request.profile = "FORWARD_ONLY"
        THEN Raise(memory, "UNSUPPORTED_IN_PROFILE")
        ELSE write_once(solved, c, Combine(solved, request, a, b))

Execute(request) ==
    LET at == checked_add(request)
        memory == Supplied(request, at)
    IN  IF memory.fault # "OK" THEN memory
        ELSE IF request.opcode = "SET_CONSTANT" THEN write_once(memory, at[1], request.constant)
        ELSE Binary(request, memory, at[1], at[2], at[3])
-----------------------------------------------------------------------------
(* _emit, _fault *)

FaultStatus == {"BAD_SOF", "BAD_VERSION", "BAD_OPCODE", "BAD_LENGTH", "BAD_CRC", "BAD_FLAGS",
    "BAD_PROFILE", "BAD_STATE", "BAD_CELL", "U32_OVERFLOW", "BAD_INVERSE", "WRITE_CONFLICT",
    "MUL_BACKSOLVE_ZERO", "UNSUPPORTED_IN_PROFILE", "RETIRE_MISMATCH", "ABORTED",
    "STATE_MISMATCH", "INDEX_RANGE", "ALIAS_INCONSISTENT"}

\* decoded: the payload was read to its end (history, for the comparison below).
emit(status, txn_id, payload, decoded) ==
    /\ tx' = [status |-> status, txn_id |-> txn_id, payload |-> payload, decoded |-> decoded]
    /\ left' = ResponseBytes
    /\ last_status' = status
    /\ last_fault' = IF status \in FaultStatus THEN status ELSE last_fault

fault(status, txn_id, decoded) == emit(status, txn_id, <<>>, decoded) /\ UNCHANGED core
-----------------------------------------------------------------------------
(* _dispatch *)

GuardFault(request) ==
    IF state # "idle" THEN "BAD_STATE"
    ELSE IF request.profile # profile THEN "BAD_PROFILE"
    ELSE IF state_valid /\ (request.pc # committed.pc \/ request.fp # committed.fp)
    THEN "STATE_MISMATCH"
    ELSE IF request.pc >= 2^IndexBits \/ request.fp >= 2^IndexBits THEN "INDEX_RANGE"
    ELSE "OK"

\* A fault of the frame or of its payload: _dispatch knows the transaction of the
\* ones that got as far as the payload.
Malformed ==
    \/ \E status \in {"BAD_CRC", "BAD_VERSION", "BAD_FLAGS", "BAD_OPCODE"} : fault(status, 0, TRUE)
    \/ \E prefix \in TxnIds \cup {0} : fault("BAD_LENGTH", prefix, TRUE)
    \/ \E status \in {"BAD_PROFILE", "BAD_FLAGS", "BAD_CELL"}, txn_id \in TxnIds :
          fault(status, txn_id, FALSE)

result_payload(txn) ==
    [txn_id |-> txn.txn_id, next_pc |-> txn.next_pc, next_fp |-> txn.next_fp,
     writes |-> txn.writes, deferred |-> <<>>, accesses |-> txn.accesses]

instruction(request) ==
    LET memory == Execute(request)
        txn == [txn_id |-> request.txn_id, next_pc |-> request.pc + 1, next_fp |-> request.fp,
                writes |-> memory.writes, accesses |-> checked_add(request)]
    IN  \/ GuardFault(request) # "OK" /\ fault(GuardFault(request), request.txn_id, TRUE)
        \/ /\ GuardFault(request) = "OK" /\ memory.fault # "OK"
           /\ fault(memory.fault, request.txn_id, TRUE)
        \/ /\ GuardFault(request) = "OK" /\ memory.fault = "OK"
           /\ staged' = txn @@ [result_crc |-> Crc(result_payload(txn))]
           /\ state' = "result_pending"
           /\ emit("OK", request.txn_id, result_payload(txn), TRUE)
           /\ UNCHANGED <<profile, committed, state_valid, retire_seq>>

Matches(txn_id, result_crc) == txn_id = staged.txn_id /\ result_crc = staged.result_crc

retire(txn_id, result_crc) ==
    \/ state # "result_pending" /\ fault("BAD_STATE", txn_id, TRUE) /\ done' = FALSE
    \/ /\ state = "result_pending" /\ ~Matches(txn_id, result_crc)
       /\ state' = "idle" /\ staged' = None
       /\ emit("RETIRE_MISMATCH", txn_id, <<>>, TRUE)
       /\ done' = FALSE /\ UNCHANGED <<profile, committed, state_valid, retire_seq>>
    \/ /\ state = "result_pending" /\ Matches(txn_id, result_crc)
       /\ retire_seq < RetireSeqMax
       /\ committed' = [pc |-> staged.next_pc, fp |-> staged.next_fp]
       /\ state_valid' = TRUE /\ retire_seq' = retire_seq + 1
       /\ state' = "idle" /\ staged' = None /\ done' = TRUE
       /\ emit("RETIRED", txn_id,
               [retire_seq |-> retire_seq + 1, committed |-> committed'], TRUE)
       /\ UNCHANGED profile
-----------------------------------------------------------------------------
(* step(): reset and ABORT win over the lane; rx_ready is "no response left", so  *)
(* a byte moves in one direction at most.                                         *)

Init ==
    /\ state = "idle" /\ profile = "INTERPRETER_COMPAT" /\ committed = [pc |-> 0, fp |-> 0]
    /\ state_valid = FALSE /\ retire_seq = 0 /\ last_status = "OK" /\ last_fault = "OK"
    /\ staged = None /\ rx = 0 /\ expected = 0 /\ tx = None /\ left = 0 /\ done = FALSE

Reset ==
    /\ state' = "idle" /\ profile' = "INTERPRETER_COMPAT" /\ committed' = [pc |-> 0, fp |-> 0]
    /\ state_valid' = FALSE /\ retire_seq' = 0 /\ last_status' = "OK" /\ last_fault' = "OK"
    /\ staged' = None /\ rx' = 0 /\ expected' = 0 /\ tx' = None /\ left' = 0 /\ done' = FALSE

AbortDone == FALSE

\* Mutant: ABORT forgets the length of the frame it cut off.
AbortExpectedKept == expected
AbortExpected == 0

Abort ==
    /\ state' = "idle" /\ staged' = None /\ rx' = 0 /\ expected' = AbortExpected
    /\ tx' = None /\ left' = 0 /\ done' = AbortDone
    /\ last_status' = "ABORTED" /\ last_fault' = "ABORTED"
    /\ UNCHANGED <<profile, committed, state_valid, retire_seq>>

Transmit ==
    /\ tx # None /\ left' = left - 1 /\ tx' = IF left = 1 THEN None ELSE tx
    /\ done' = FALSE /\ UNCHANGED <<core, last_status, last_fault, rx, expected>>

\* No byte moves on this edge.
Stall == done /\ done' = FALSE
         /\ UNCHANGED <<core, last_status, last_fault, rx, expected, tx, left>>

AcceptSof ==
    /\ tx = None /\ rx = 0 /\ done' = FALSE
    /\ \/ rx' = 1 /\ UNCHANGED <<core, last_status, last_fault, expected, tx, left>>
       \/ fault("BAD_SOF", 0, TRUE) /\ UNCHANGED <<rx, expected>>

\* The byte that ends the header brings the length.
AcceptHeader ==
    /\ tx = None /\ rx + 1 = HeaderBytes /\ rx > 0 /\ done' = FALSE
    /\ \/ /\ rx' = 0 /\ expected' = 0 /\ fault("BAD_LENGTH", 0, TRUE)
       \/ /\ rx' = rx + 1
          /\ \E length \in 0..MaxPayload : expected' = HeaderBytes + length + FrameCrcBytes
          /\ UNCHANGED <<core, last_status, last_fault, tx, left>>

AcceptBody ==
    /\ tx = None /\ rx > 0 /\ rx + 1 # HeaderBytes /\ rx + 1 # expected /\ done' = FALSE
    /\ rx' = rx + 1
    /\ UNCHANGED <<core, last_status, last_fault, expected, tx, left>>

AcceptLast ==
    /\ tx = None /\ rx > 0 /\ rx + 1 # HeaderBytes /\ rx + 1 = expected
    /\ rx' = 0 /\ expected' = 0
    /\ \/ Malformed /\ done' = FALSE
       \/ \E request \in Requests : instruction(request) /\ done' = FALSE
       \/ \E txn_id \in TxnIds, result_crc \in CrcWords : retire(txn_id, result_crc)

Next == \/ Reset \/ Abort \/ Transmit \/ Stall
        \/ AcceptSof \/ AcceptHeader \/ AcceptBody \/ AcceptLast

Spec == Init /\ [][Next]_vars
-----------------------------------------------------------------------------
(* Properties *)

\* Type correctness.
TypeOK ==
    /\ state \in {"idle", "result_pending"} /\ profile = "INTERPRETER_COMPAT"
    /\ committed \in [pc : 0..2^IndexBits, fp : 0..(2^IndexBits - 1)]
    /\ {state_valid, done} \subseteq BOOLEAN /\ retire_seq \in 0..RetireSeqMax
    /\ {last_status, last_fault} \subseteq FaultStatus \cup {"OK", "RETIRED"}
    /\ rx \in Nat /\ expected \in Nat /\ left \in 0..ResponseBytes
    /\ (tx = None) = (left = 0)

\* The receive buffer never reaches the bound that _accept asserts, whatever mixture
\* of truncated frames, ABORTs and over-long headers comes in: a frame in progress
\* always knows its end once its header is complete, and is short of it.
BufferBounded ==
    /\ rx < MaxRequestBytes
    /\ rx > 0 /\ rx < HeaderBytes => expected = 0
    /\ rx >= HeaderBytes => rx < expected
    /\ rx = 0 => expected = 0

\* DONE is seen by the host only over the first byte of the RETIRED response of the
\* retirement it announces.
DoneAnnounces ==
    done => /\ tx # None /\ left = ResponseBytes
            /\ tx.status = "RETIRED" /\ tx.payload.retire_seq = retire_seq
-----------------------------------------------------------------------------
(* Against the reference endpoint. *)

\* Lsc1Endpoint answers transaction 0 when decode_request_payload raises.
ReferenceTx ==
    IF tx = None THEN None
    ELSE [status |-> tx.status, payload |-> tx.payload,
          txn_id |-> IF tx.decoded THEN tx.txn_id ELSE 0]

\* The fields of StagedTransaction that Staged leaves out.
ReferenceStaged ==
    IF staged = None THEN None
    ELSE staged @@ [profile |-> profile, pc |-> staged.next_pc - 1, fp |-> staged.next_fp,
                    deferred |-> <<>>, service_id |-> 0, frame |-> <<>>]

Reference == INSTANCE Lsc1Endpoint
    WITH InstructionRequests <- Requests, ServiceIds <- {}, Digests <- {}, ServiceSeqMax <- 0,
         service_seq <- 0, staged <- ReferenceStaged, tx <- ReferenceTx

\* The receiver and the DONE pulse agree with the response that is due.
ReceiverIsBounded == TypeOK /\ BufferBounded /\ DoneAnnounces
=============================================================================
