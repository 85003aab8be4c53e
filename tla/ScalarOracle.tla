---------------------------- MODULE ScalarOracle ----------------------------
(***************************************************************************)
(* The repository's independent reading of the leanVM-b scalar runner      *)
(* (sim/scalar_step_oracle.py): its own field arithmetic, pointer search   *)
(* and write-once memory, none of it shared with the endpoint or the host. *)
(* Only the representation of a word comes from Gf2n.  pc stays far below  *)
(* 2^32, so the checked_add of pc is an addition.                          *)
(***************************************************************************)
EXTENDS Gf2n, Sequences

CONSTANT AddressMax      \* U32_MAX of the oracle

\* Memory and the written set of Machine as one function: a cell is Unwritten
\* or Written(value).
Written(value) == [present |-> TRUE, value |-> value]
Unwritten      == [present |-> FALSE, value |-> Zero]

xtime(value) ==
    LET doubled == {i + 1 : i \in value} \ {FieldBits}
    IN  IF FieldBits - 1 \in value THEN Xor(doubled, ReductionLow) ELSE doubled

\* Carry-less product, then long division by x^FieldBits + ReductionLow from
\* the top bit down.
multiply(left, right) ==
    LET product[bit \in 0..FieldBits] ==
          IF bit = 0 THEN Zero
          ELSE IF bit - 1 \in right
               THEN Xor(product[bit - 1], {i + bit - 1 : i \in left})
               ELSE product[bit - 1]
        Modulus(shift) == {i + shift : i \in ReductionLow \cup {FieldBits}}
        reduced[n \in 0..(FieldBits - 1)] ==
          LET bit == 2 * FieldBits - 1 - n
          IN  IF n = 0 THEN product[FieldBits]
              ELSE IF bit \in reduced[n - 1]
                   THEN Xor(reduced[n - 1], Modulus(bit - FieldBits))
                   ELSE reduced[n - 1]
    IN  reduced[FieldBits - 1]

encode(index) ==
    LET value[n \in 0..index] == IF n = 0 THEN One ELSE xtime(value[n - 1])
    IN  value[index]

\* value^(2^FieldBits - 2) from the low exponent bit up: every bit but bit 0
\* is set.
inverse(value) ==
    LET base[bit \in 0..FieldBits] ==
          IF bit = 0 THEN value ELSE multiply(base[bit - 1], base[bit - 1])
        result[bit \in 0..FieldBits] ==
          IF bit <= 1 THEN One ELSE multiply(result[bit - 1], base[bit - 1])
    IN  IF value = Zero THEN Zero ELSE result[FieldBits]

\* The indices below the limit that encode the value; none raises
\* invalid_g_power, and the search returns the first.
Preimages(value) == {i \in 0..(INDEX_LIMIT - 1) : encode(i) = value}
reverse(value)   == CHOOSE i \in Preimages(value) : \A j \in Preimages(value) : i <= j

-----------------------------------------------------------------------------
(* Machine.step                                                            *)

read(memory, address) == memory[address].value

CanWrite(memory, address, value) ==
    memory[address].present => memory[address].value = value

write_once(memory, address, value) == [memory EXCEPT ![address] = Written(value)]

Faulted == [ok |-> FALSE]
Stepped(memory, pc, fp) == [ok |-> TRUE, memory |-> memory, pc |-> pc, fp |-> fp]

\* write_once, then pc + 1.
StoreAndAdvance(memory, pc, fp, address, value) ==
    IF CanWrite(memory, address, value)
    THEN Stepped(write_once(memory, address, value), pc + 1, fp)
    ELSE Faulted

\* The xor and mul branches: fill the one absent input of a known result,
\* then store the result.
StepBinary(memory, pc, fp, a, b, c, multiplies) ==
    LET absentA == ~memory[a].present
        absentB == ~memory[b].present
        fills   == memory[c].present /\ absentA # absentB
        missing == IF absentA THEN a ELSE b
        known   == read(memory, IF absentA THEN b ELSE a)
        filler  == IF multiplies THEN multiply(read(memory, c), inverse(known))
                   ELSE Xor(read(memory, c), known)
        filled  == IF fills THEN write_once(memory, missing, filler) ELSE memory
        result  == IF multiplies THEN multiply(read(filled, a), read(filled, b))
                   ELSE Xor(read(filled, a), read(filled, b))
    IN  IF fills /\ multiplies /\ known = Zero THEN Faulted
        ELSE StoreAndAdvance(filled, pc, fp, c, result)

\* deref_pc and deref_fp; gamma is not used.
StepDeref(memory, pc, fp, pointer, beta, index) ==
    IF Preimages(read(memory, pointer)) = {} THEN Faulted
    ELSE LET target == reverse(read(memory, pointer)) + beta
         IN  IF target > AddressMax THEN Faulted
             ELSE StoreAndAdvance(memory, pc, fp, target, encode(index))

StepJump(memory, pc, fp, condition, destination, frame) ==
    IF read(memory, condition) = Zero THEN Stepped(memory, pc + 1, fp)
    ELSE IF \/ Preimages(read(memory, destination)) = {}
            \/ Preimages(read(memory, frame)) = {}
         THEN Faulted
    ELSE Stepped(memory, reverse(read(memory, destination)),
                 reverse(read(memory, frame)))

\* Which operands of an instruction are offsets from fp.
LocalOperands(op) ==
    IF op.kind = "Deref" THEN {1} ELSE DOMAIN op.offsets

step(op, memory, pc, fp) ==
    LET local(i) == fp + op.offsets[i]
    IN  IF \E i \in LocalOperands(op) : local(i) > AddressMax THEN Faulted
        ELSE IF op.kind = "Set"
             THEN StoreAndAdvance(memory, pc, fp, local(1), op.constant)
        ELSE IF op.kind \in {"Xor", "Mul"}
             THEN StepBinary(memory, pc, fp, local(1), local(2), local(3),
                             op.kind = "Mul")
        ELSE IF op.kind = "Deref"
             THEN StepDeref(memory, pc, fp, local(1), op.offsets[2],
                            IF op.mode = "Pc" THEN pc + 2 ELSE fp)
        ELSE StepJump(memory, pc, fp, local(1), local(2), local(3))

\* The oracle's subset: it has neither deref_cell nor BLAKE3.
InOracle(op) == op.kind # "Blake3" /\ (op.kind = "Deref" => op.mode # "Cell")
=============================================================================
