---------------------------- MODULE Interpreter -----------------------------
(***************************************************************************)
(* What running a program through the host and the endpoint promises: the  *)
(* leanVM-b machine, one instruction at a time and each one exactly once.  *)
(* Scalar instructions are the oracle's.  DEREF Cell asks two cells to be  *)
(* equal and BLAKE3 stores a digest; the memory after a step is the least  *)
(* extension of what was stored that satisfies every open equality.        *)
(***************************************************************************)
EXTENDS ScalarOracle, FiniteSets

CONSTANTS Digest(_)     \* the two words BLAKE3 makes of its operands

VARIABLES program, memory, open, counts, pc, fp

machine == <<program, memory, open, counts, pc, fp>>

\* The addresses the equalities tie to an address, in any number of links.
Tied(equalities, address) ==
    LET Linked(a) == {b \in DOMAIN memory :
            \E e \in equalities : {e.target, e.local} = {a, b}}
        reach[n \in 0..Cardinality(equalities)] ==
            IF n = 0 THEN {address}
            ELSE reach[n - 1] \cup UNION {Linked(a) : a \in reach[n - 1]}
    IN  reach[Cardinality(equalities)]

ValuesAround(stored, equalities, address) ==
    {stored[a].value : a \in {b \in Tied(equalities, address) : stored[b].present}}

Satisfiable(stored, equalities) ==
    \A address \in DOMAIN stored :
        Cardinality(ValuesAround(stored, equalities, address)) <= 1

Closed(stored, equalities) ==
    [address \in DOMAIN stored |->
        IF ValuesAround(stored, equalities, address) = {} THEN Unwritten
        ELSE Written(CHOOSE v \in ValuesAround(stored, equalities, address) : TRUE)]

\* The memory after storing and closing, and the equalities still open.
Settle(stored, equalities) ==
    /\ Satisfiable(stored, equalities)
    /\ memory' = Closed(stored, equalities)
    /\ open' = {e \in equalities : ~memory'[e.target].present}

Count(addresses) ==
    counts' = [a \in DOMAIN counts |->
                  counts[a] + Cardinality({i \in DOMAIN addresses : addresses[i] = a})]

\* Every address an instruction touches is in memory.
InMemory(addresses) == \A i \in DOMAIN addresses : addresses[i] \in DOMAIN memory

Locals(offsets) == [i \in DOMAIN offsets |-> fp + offsets[i]]

Scalar(op) ==
    LET outcome == step(op, memory, pc, fp)
    IN  /\ InOracle(op)
        /\ outcome.ok
        /\ Settle(outcome.memory, open)
        /\ pc' = outcome.pc
        /\ fp' = outcome.fp
        /\ IF op.kind = "Deref"
           THEN Count(<<fp + op.offsets[1],
                        reverse(read(memory, fp + op.offsets[1])) + op.offsets[2],
                        fp + op.offsets[3]>>)
           ELSE Count(Locals(op.offsets))

DerefCell(op) ==
    LET pointer == fp + op.offsets[1]
        local   == fp + op.offsets[3]
        target  == reverse(read(memory, pointer)) + op.offsets[2]
    IN  /\ op.kind = "Deref" /\ op.mode = "Cell"
        /\ pointer \in DOMAIN memory
        /\ Preimages(read(memory, pointer)) # {}
        /\ InMemory(<<target, local>>)
        /\ Settle(memory, open \cup {[target |-> target, local |-> local]})
        /\ Count(<<pointer, target, local>>)
        /\ pc' = pc + 1
        /\ fp' = fp

Blake3(op) ==
    LET inputs  == Locals(op.message_offsets \o <<op.cv_offset, op.cv_offset + 1>>)
        outputs == Locals(<<op.out_offset, op.out_offset + 1>>)
        digest  == Digest([i \in DOMAIN inputs |-> read(memory, inputs[i])])
    IN  /\ op.kind = "Blake3"
        /\ InMemory(inputs \o outputs)
        /\ \A i \in {1, 2} : CanWrite(memory, outputs[i], digest[i])
        /\ Settle(write_once(write_once(memory, outputs[1], digest[1]),
                             outputs[2], digest[2]), open)
        /\ Count(inputs \o outputs)
        /\ pc' = pc + 1
        /\ fp' = fp

Start ==
    /\ pc = program.pc0
    /\ fp = program.fp0
    /\ open = {}
    /\ counts = [address \in DOMAIN memory |-> 0]

Execute ==
    /\ pc < Len(program.operations) - 1
    /\ LET op == program.operations[pc + 1] IN Scalar(op) \/ DerefCell(op) \/ Blake3(op)
    /\ UNCHANGED program

InterpreterSpec == Start /\ [][Execute]_machine
=============================================================================
