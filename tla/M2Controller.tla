----------------------------- MODULE M2Controller -----------------------------
(***************************************************************************)
(* src/leanvm_b_m2_scalar_controller.sv, the historical wide-port scalar   *)
(* controller: a write-once memory of MEM_WORDS cells with a load port, an *)
(* instruction port, and a suspension (S_INV) in which the host supplies   *)
(* the inverse that a MUL back-solve needs.  One action per clock edge.    *)
(* MEM_WORDS is INDEX_LIMIT, so that reverse_g and the oracle's reverse    *)
(* search the same indices; PcMax is 32'hffffffff.                         *)
(***************************************************************************)
EXTENDS ScalarOracle, FiniteSets

CONSTANTS Operations,   \* records [kind, offsets, constant]
          LoadValues, PcMax

MEM_WORDS == INDEX_LIMIT
CellAddress == 0 .. (MEM_WORDS - 1)
None == [ok |-> FALSE, none |-> TRUE]

\* An instruction of the port: the fields that its kind reads.
IsOperation(op) ==
    /\ op.kind \in {"Set", "Xor", "Mul", "Jump"}
    /\ op.offsets \in [IF op.kind = "Set" THEN 1..1 ELSE 1..3 -> Nat]
    /\ op.kind = "Set" => op.constant \in Word

\* What the constants must satisfy.
ASSUME M2Assumption ==
    /\ MEM_WORDS \in Nat \ {0} /\ AddressMax = MEM_WORDS - 1
    /\ PcMax \in Nat /\ PcMax >= MEM_WORDS - 1
    /\ LoadValues \subseteq Word /\ \A op \in Operations : IsOperation(op)

\* The modulus is irreducible, so that the inverse inverts, and g has an order of at
\* least MEM_WORDS, so that a pointer has one index.
ASSUME FieldIsAField ==
    /\ \A value \in Word \ {Zero} :
          inverse(value) \in Word /\ multiply(value, inverse(value)) = One
    /\ \A i, j \in CellAddress : encode(i) = encode(j) => i = j

VARIABLES state, memory, pc, fp,
          pending,   \* pending_missing, pending_result_addr, pending_result, inverse_operand
          retired, fault,
          expect,    \* history: the oracle's step from where the instruction was
                     \* accepted, until the edge after it ended
          honest     \* history: the inverse given was the inverse

vars == <<state, memory, pc, fp, pending, retired, fault, expect, honest>>

NoPending == [missing |-> 0, address |-> 0, result |-> Zero, operand |-> Zero]
TypeOK ==
    /\ state \in {"IDLE", "INV", "FAULT", "HALT"} /\ memory \in [CellAddress -> {Unwritten} \cup {Written(w) : w \in Word}]
    /\ pc \in 0 .. PcMax /\ fp \in CellAddress /\ retired \in BOOLEAN /\ fault \in BOOLEAN
    /\ pending \in [missing : CellAddress, address : CellAddress, result : Word, operand : Word]

Init ==
    /\ state = "IDLE" /\ memory = [a \in CellAddress |-> Unwritten] /\ pc = 0 /\ fp = 0
    /\ pending = NoPending /\ retired = FALSE /\ fault = FALSE
    /\ expect = None /\ honest = TRUE

Reset ==
    /\ state' = "IDLE" /\ memory' = [a \in CellAddress |-> Unwritten] /\ pc' = 0 /\ fp' = 0
    /\ pending' = NoPending /\ retired' = FALSE /\ fault' = FALSE
    /\ expect' = None /\ honest' = TRUE

ToFault == state' = "FAULT" /\ fault' = TRUE /\ retired' = FALSE /\ UNCHANGED <<memory, pc, fp, pending>>
Retire(cells, nextPc, nextFp) ==
    /\ state' = "IDLE" /\ memory' = cells /\ pc' = nextPc /\ fp' = nextFp /\ retired' = TRUE
    /\ UNCHANGED <<pending, fault>>

\* Mutant: a load is accepted while an inverse is awaited.
LoadRefusedInFault == state \in {"FAULT", "HALT"}
LoadRefused == state # "IDLE"

\* load_valid has priority over everything but reset.
Load(address, value) ==
    /\ IF \/ LoadRefused \/ address >= MEM_WORDS
          \/ (memory[address].present /\ memory[address].value # value)
       THEN ToFault
       ELSE /\ memory' = write_once(memory, address, value) /\ retired' = FALSE
            /\ UNCHANGED <<state, pc, fp, pending, fault>>
    /\ expect' = None /\ honest' = TRUE

\* S_INV: wait, or take whatever inverse_value comes with inverse_valid.
Await ==
    /\ state = "INV" /\ retired' = FALSE
    /\ UNCHANGED <<state, memory, pc, fp, pending, fault, expect, honest>>

SolvedConflict(value) ==
    ~CanWrite(memory, pending.missing, value) \/ ~CanWrite(memory, pending.address, pending.result)

TakeInverse(value) ==
    /\ state = "INV"
    /\ LET missing == multiply(pending.result, value)
       IN  IF SolvedConflict(missing) THEN ToFault
           ELSE Retire(write_once(write_once(memory, pending.missing, missing),
                                  pending.address, pending.result), pc + 1, fp)
    /\ honest' = (value = inverse(pending.operand)) /\ UNCHANGED expect

AtEnd == pc = PcMax

Outside(op) == \E i \in DOMAIN op.offsets : fp + op.offsets[i] >= MEM_WORDS
At(op, i) == fp + op.offsets[i]

IssueSet(op) ==
    IF Outside(op) \/ AtEnd \/ ~CanWrite(memory, At(op, 1), op.constant) THEN ToFault
    ELSE Retire(write_once(memory, At(op, 1), op.constant), pc + 1, fp)

Divisor(value) == value # Zero

Fills(a, b, c) == memory[c].present /\ memory[a].present # memory[b].present

IssueBinary(op) ==
    LET a == At(op, 1)  b == At(op, 2)  c == At(op, 3)
        known == IF memory[a].present THEN a ELSE b
        missing == IF memory[a].present THEN b ELSE a
        value == IF op.kind = "Xor" THEN Xor(read(memory, a), read(memory, b))
                 ELSE multiply(read(memory, a), read(memory, b))
    IN  IF Outside(op) \/ AtEnd THEN ToFault
        ELSE IF ~Fills(a, b, c)
             THEN IF CanWrite(memory, c, value) THEN Retire(write_once(memory, c, value), pc + 1, fp) ELSE ToFault
        ELSE IF op.kind = "Xor"
             THEN Retire(write_once(memory, missing, Xor(read(memory, c), read(memory, known))), pc + 1, fp)
        ELSE IF ~Divisor(read(memory, known)) THEN ToFault
        ELSE /\ state' = "INV" /\ retired' = FALSE
             /\ pending' = [missing |-> missing, address |-> c, result |-> read(memory, c),
                            operand |-> read(memory, known)]
             /\ UNCHANGED <<memory, pc, fp, fault>>

\* reverse_g: the last index below MEM_WORDS that encodes the value.
reverse_g(value) == CHOOSE i \in Preimages(value) : \A j \in Preimages(value) : j <= i

IssueJump(op) ==
    LET target == read(memory, At(op, 2))
        frame == read(memory, At(op, 3))
    IN  IF Outside(op) THEN ToFault
        ELSE IF read(memory, At(op, 1)) = Zero
             THEN IF AtEnd THEN ToFault ELSE Retire(memory, pc + 1, fp)
        ELSE IF Preimages(target) = {} \/ Preimages(frame) = {} THEN ToFault
        ELSE Retire(memory, reverse_g(target), reverse_g(frame))

Issue(op) ==
    /\ state = "IDLE"
    /\ CASE op.kind = "Set" -> IssueSet(op)
         [] op.kind \in {"Xor", "Mul"} -> IssueBinary(op)
         [] op.kind = "Jump" -> IssueJump(op)
    /\ expect' = step(op, memory, pc, fp) /\ honest' = TRUE

Halt ==
    /\ state = "IDLE" /\ expect' = None /\ honest' = TRUE
    /\ IF fp # 0 THEN ToFault
       ELSE state' = "HALT" /\ retired' = TRUE /\ UNCHANGED <<memory, pc, fp, pending, fault>>

\* An operation code that is none of the five.
UnknownOp == state = "IDLE" /\ ToFault /\ expect' = None /\ honest' = TRUE

\* No load and no instruction, or one that HALT or FAULT ignores.
Idle ==
    /\ state # "INV" /\ retired' = FALSE /\ expect' = None /\ honest' = TRUE
    /\ UNCHANGED <<state, memory, pc, fp, pending, fault>>

Next ==
    \/ Reset \/ Idle
    \/ \E a \in 0 .. MEM_WORDS, v \in LoadValues : Load(a, v)
    \/ Await \/ \E v \in Word : TakeInverse(v)
    \/ \E op \in Operations : Issue(op)
    \/ Halt \/ UnknownOp

Spec == Init /\ [][Next]_vars
-----------------------------------------------------------------------------
\* The oracle's checked_add of pc, which its model leaves out.
Oracle == IF expect.ok /\ expect.pc > PcMax THEN Faulted ELSE expect

\* Two implementations, one machine: an instruction the controller retires, with the
\* right inverse where it asked for one, leaves the memory, pc and fp that the scalar
\* oracle's step computes from where it was accepted; one it refuses, the oracle
\* refuses, operands that alias or are absent included.
AgreesWithOracle ==
    (expect # None /\ state # "INV" /\ honest) =>
        IF Oracle.ok THEN retired /\ <<memory, pc, fp>> = <<expect.memory, expect.pc, expect.fp>>
        ELSE fault

\* What was read before the suspension is still so when the inverse arrives: the
\* missing cell is empty, the result cell holds the pending result, and the operand
\* sent to the host is a written cell's nonzero value.
SuspensionIsFresh ==
    state = "INV" =>
        /\ ~memory[pending.missing].present /\ memory[pending.address] = Written(pending.result)
        /\ pending.operand # Zero /\ \E a \in CellAddress : memory[a] = Written(pending.operand)

\* A written cell never changes short of a reset, whatever inverse the host gives,
\* and a fault is final: neither memory nor pc nor fp moves after it.
WrittenStep ==
    Reset \/ /\ \A a \in CellAddress : memory[a].present => memory'[a] = memory[a]
             /\ fault => fault' /\ UNCHANGED <<memory, pc, fp>>

\* The controller's step is the oracle's, suspended for an inverse or not.
ControllerIsTheOracle == TypeOK /\ AgreesWithOracle /\ SuspensionIsFresh
=============================================================================
