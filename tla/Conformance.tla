---------------------------- MODULE Conformance -----------------------------
(***************************************************************************)
(* The host and the endpoint against the scalar oracle, the question of    *)
(* tools/host_upstream_comparison.py: a machine whose memory, pc and fp    *)
(* are moved by preparing a slot (HostPrepare), deciding it                *)
(* (Lsc1Transition) and applying what was decided (HostPrepare). In every  *)
(* state every slot of the oracle's subset is also given to the oracle.    *)
(***************************************************************************)
EXTENDS HostPrepare, ScalarOracle

CONSTANTS Operations,   \* bytecode slots
          Memories      \* initial memories

ASSUME SameAddresses == AddressMax = U32_MAX

\* Slots are what the loader lets through, and memories hold cells.
ASSUME ConformanceAssumption ==
    (\A op \in Operations : IsSlot(op)) /\ Memories \subseteq [Address -> Cell]

\* The modulus is irreducible, as x^128 + x^7 + x^2 + x + 1 is: it has a constant term
\* and the power that field_inverse computes inverts.
ASSUME FieldIsAField ==
    /\ 0 \in ReductionLow
    /\ \A value \in Word \ {Zero} : field_mul(value, field_inverse(value)) = One

\* Arithmetic that the provers do not know.
ASSUME PowersOfTwo == \A n \in 0..(IndexBits - 1) : 2^n \in Nat \ {0} /\ 2^(n + 1) = 2 * 2^n

VARIABLES memory, pc, fp

machine == <<memory, pc, fp>>

Here == [txn_id |-> 1, pc |-> pc, fp |-> fp, profile |-> INTERPRETER_COMPAT]

\* One transaction, in the shape of the oracle's answer.
\* (The endpoint's preamble guard refuses pc and fp outside the index space.)
transact(op) ==
    LET prepared == prepare(op, Here, memory)
        outcome  == execute(prepared.request)
        applied  == apply_writes(memory, outcome.writes)
    IN  IF prepared.refused # "no" THEN Faulted
        ELSE IF pc >= INDEX_LIMIT \/ fp >= INDEX_LIMIT THEN Faulted
        ELSE IF outcome.status # "OK" THEN Faulted
        ELSE IF ~applied.ok THEN Faulted
        ELSE Stepped(applied.cells, outcome.next_pc, outcome.next_fp)

Init ==
    /\ memory \in Memories
    /\ pc \in 0..(INDEX_LIMIT - 1)
    /\ fp \in 0..(INDEX_LIMIT - 1)

Transact(op) ==
    LET outcome == transact(op)
    IN  /\ outcome.ok
        /\ memory' = outcome.memory
        /\ pc' = outcome.pc
        /\ fp' = outcome.fp

Next == \E op \in Operations : Transact(op)

Spec == Init /\ [][Next]_machine

-----------------------------------------------------------------------------
\* Where LSC-1 v1 is narrower than the oracle: it refuses a state or a stored
\* code pointer outside the index space, and checks fp + gamma of a DEREF
\* that does not use gamma.
OutsideV1(op) ==
    \/ pc >= INDEX_LIMIT
    \/ op.kind = "Deref" /\ op.mode = "Pc" /\ pc + 2 >= INDEX_LIMIT
    \/ op.kind = "Deref" /\ fp + op.offsets[3] > U32_MAX

\* Two independent implementations of every scalar instruction agree, values,
\* back-solves, aliases, pointer searches, jumps and refusals included: the
\* host's preparation with the endpoint's rule and the host's write-back do
\* what the oracle's step does.
AgreesWithOracle ==
    \A op \in Operations :
        InOracle(op) =>
            IF OutsideV1(op) THEN ~transact(op).ok
            ELSE transact(op) = step(op, memory, pc, fp)

\* What the endpoint decided on the cells the host packed, the host's memory
\* accepts: a decided transition is never lost in apply_write, and it stays
\* among the addresses the host packed (_decode_and_prevalidate_result).
DecidedIsApplicable ==
    \A op \in Operations :
        LET prepared == prepare(op, Here, memory)
            outcome  == execute(prepared.request)
            packed   == {prepared.addresses[i] : i \in DOMAIN prepared.addresses}
        IN  (prepared.refused = "no" /\ outcome.status = "OK") =>
                /\ apply_writes(memory, outcome.writes).ok
                /\ \A i \in DOMAIN outcome.writes : outcome.writes[i].address \in packed

\* A request the host packed is never refused as malformed: the endpoint
\* finds no overflow, no inconsistent alias, no bad pointer, no bad inverse
\* and no bad branch proposal in it.
PackedIsWellFormed ==
    \A op \in Operations :
        LET prepared == prepare(op, Here, memory)
        IN  prepared.refused = "no" =>
              execute(prepared.request).status \notin
                {"U32_OVERFLOW", "ALIAS_INCONSISTENT", "BAD_POINTER",
                 "BAD_INVERSE", "BAD_BRANCH_PROPOSAL"}

\* Nothing that the host packs is refused for its form, and nothing that the
\* endpoint decides of it is refused by the host.
HostAndEndpointFit == DecidedIsApplicable /\ PackedIsWellFormed
-----------------------------------------------------------------------------
(* The instance: every memory over the addresses, every slot with offsets  *)
(* 0..2 (SET_CONSTANT with one past the last address too).                 *)

MCMemories == [Address -> Cell]

Slot == [kind |-> "Set", offsets |-> <<0>>, constant |-> Zero, mode |-> "Cell",
         message_offsets |-> <<0>>, cv_offset |-> 0, out_offset |-> 0,
         metadata_valid |-> TRUE]

Triples == [1..3 -> 0..2]

MCOperations ==
    { [Slot EXCEPT !.offsets = <<o>>, !.constant = k] : o \in 0..3, k \in {One, {1}} }
    \cup
    { [Slot EXCEPT !.kind = k, !.offsets = t] :
          k \in {"Xor", "Mul", "Jump"}, t \in Triples }
    \cup
    { [Slot EXCEPT !.kind = "Deref", !.offsets = <<t[1], t[2], 2 * t[3] + 1>>, !.mode = m] :
          m \in {"Cell", "Pc", "Fp"}, t \in [1..3 -> 0..1] }
=============================================================================
