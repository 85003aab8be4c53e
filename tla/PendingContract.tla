--------------------------- MODULE PendingContract ---------------------------
(***************************************************************************)
(* validate_design of formal/validate_blake3_pending_contract.py: does an  *)
(* elaborated netlist hold exactly one continuously live assertion that    *)
(* fails precisely when a BLAKE3 result is pending and no result is?  The  *)
(* code evaluates gates until nothing changes; the reference is the        *)
(* meaning of the netlist, the set of its consistent valuations.           *)
(*                                                                         *)
(* A bit is a port, a wire or the constant 1.  "other" is any port that    *)
(* the contract does not name.  Each gate drives the wire it is named      *)
(* after.  The first cell of interest is a check cell over the gates; the  *)
(* second is any formal cell that may stand beside it.                     *)
(***************************************************************************)
EXTENDS Naturals, Sequences, FiniteSets

CONSTANTS Gates,       \* a set of pairs of gates, for the wires w1 and w2
          Companions,  \* formal cells beside the first one
          Creators     \* values of the creator and of the runtime version

VARIABLES design, verdict
vars == <<design, verdict>>

Wires == {"w1", "w2"}
Ports == {"result", "blake", "other"}
Bits == Ports \cup Wires \cup {"1"}
Unknown == 2
Expected == "pinned"

Combinational == [enable |-> 0, width |-> 0, polarity |-> 0, trg |-> 0]
-----------------------------------------------------------------------------
\* _provenance: both banners parse and name the pinned build.
provenance == design.creator = Expected /\ design.runtime = Expected

\* A gate's output under known values, or Unknown while _bit raises KeyError: a mux
\* looks only at the branch it selects, and only the first bit of an operand is read.
GateValue(gate, known) ==
    LET val(operand) == known[operand[1]]
    IN CASE gate.type = "mux" ->
              IF val(gate.S) = Unknown THEN Unknown
              ELSE IF val(gate.S) = 1 THEN val(gate.B) ELSE val(gate.A)
         [] gate.type = "not" -> IF val(gate.A) = Unknown THEN Unknown ELSE 1 - val(gate.A)
         [] Unknown \in {val(gate.A), val(gate.B)} -> Unknown
         [] gate.type = "and" -> val(gate.A) * val(gate.B)
         [] OTHER -> IF val(gate.A) + val(gate.B) > 0 THEN 1 ELSE 0

\* Mutant: one pass over the gates, in their order.
EvaluateOnce(gates, result, blake) ==
    [bit \in Bits |->
       CASE bit = "1" -> 1 [] bit = "result" -> result [] bit = "blake" -> blake
         [] bit \in Wires ->
              GateValue(gates[bit], [b \in Bits |-> CASE b = "1" -> 1 [] b = "result" -> result
                                                      [] b = "blake" -> blake [] OTHER -> Unknown])
         [] OTHER -> Unknown]

\* _evaluate: passes over the gates until none makes progress.
Evaluate(gates, result, blake) ==
    LET inputs == [bit \in Bits |-> CASE bit = "1" -> 1 [] bit = "result" -> result
                                      [] bit = "blake" -> blake [] OTHER -> Unknown]
        values[n \in 0..Cardinality(Wires)] ==
            IF n = 0 THEN inputs
            ELSE [bit \in Bits |-> IF bit \in Wires THEN GateValue(gates[bit], values[n - 1])
                                   ELSE inputs[bit]]
    IN values[Cardinality(Wires)]

\* _formal_kind and its representation.
FormalKind(cell) ==
    CASE cell.type \in {"assert", "assume", "cover"} -> cell.type
      [] cell.type = "check" /\ cell.flavor \in {"assert", "assume", "cover", "live", "fair"} -> cell.flavor
      [] cell.type = "check" -> "unknown"
      [] OTHER -> "not_formal"

\* _trigger_kind.
TriggerKind(cell) ==
    LET t == cell.trigger
    IN CASE cell.type # "check" -> "insufficient"
         [] t = Combinational -> "combinational"
         [] t.enable # 1 \/ t.width = 0 \/ t.polarity # t.width \/ t.trg # t.width -> "unknown"
         [] OTHER -> "triggered"

Kind(i) == FormalKind(design.cells[i])
Asserts == {i \in DOMAIN design.cells : Kind(i) = "assert"}

\* The cells validate_design does not understand.
unknown == {i \in DOMAIN design.cells : Kind(i) = "unknown"} \cup
           {i \in Asserts : TriggerKind(design.cells[i]) \in {"unknown", "insufficient"}}

Live == {i \in Asserts : TriggerKind(design.cells[i]) = "combinational"}

\* A row of the truth table: the values of EN and, where it is 1, of A.
Row(cell, result, blake) ==
    LET values == Evaluate(design.gates, result, blake)
    IN <<values[cell.EN], IF values[cell.EN] = 1 THEN values[cell.A] ELSE 1>>

\* All four rows can be evaluated; a KeyError passes over the cell.
Evaluated(cell) == \A r, b \in {0, 1} : Unknown \notin {Row(cell, r, b)[1], Row(cell, r, b)[2]}

Matches(cell) ==
    Evaluated(cell) /\ \A r, b \in {0, 1} : Row(cell, r, b) = <<1, 0>> <=> r = 0 /\ b = 1

ValidateDesign ==
    /\ provenance
    /\ unknown = {}
    /\ Cardinality({i \in Live : Matches(design.cells[i])}) = 1
-----------------------------------------------------------------------------
Init ==
    /\ \E gates \in Gates, creator, runtime \in Creators, A \in Wires \cup {"result"},
          EN \in {"1", "blake", "other", "w1"}, companion \in Companions :
          design = [gates |-> gates, creator |-> creator, runtime |-> runtime,
                    cells |-> <<[type |-> "check", flavor |-> "assert", trigger |-> Combinational,
                                 A |-> A, EN |-> EN], companion>>]
    /\ verdict = "none"

\* main() prints the verdict.
Judge ==
    /\ verdict = "none" /\ verdict' = (IF ValidateDesign THEN "valid" ELSE "refused")
    /\ UNCHANGED design

Next == Judge
Spec == Init /\ [][Next]_vars
-----------------------------------------------------------------------------
\* What a gate computes: logic over all the bits of its operands.
Meaning(gate, v) ==
    LET any(operand) == \E i \in DOMAIN operand : v[operand[i]] = 1
        bit(b) == IF b THEN 1 ELSE 0
    IN CASE gate.type = "mux" -> IF any(gate.S) THEN v[gate.B[1]] ELSE v[gate.A[1]]
         [] gate.type = "not" -> bit(~any(gate.A))
         [] gate.type = "and" -> bit(any(gate.A) /\ any(gate.B))
         [] OTHER -> bit(any(gate.A) \/ any(gate.B))

\* The valuations of all bits that the gates allow.
Consistent ==
    {v \in [Bits -> {0, 1}] : v["1"] = 1 /\ \A w \in Wires : v[w] = Meaning(design.gates[w], v)}

Fails(cell, v) == v[cell.EN] = 1 /\ v[cell.A] = 0
Implication(cell) ==
    \A v \in Consistent : Fails(cell, v) <=> v["blake"] = 1 /\ v["result"] = 0

Reads(gate) == {gate.A[1]} \cup (IF gate.type # "not" THEN {gate.B[1]} ELSE {})
                           \cup (IF gate.type = "mux" THEN {gate.S[1]} ELSE {})
Acyclic ==
    /\ \A w \in Wires : w \notin Reads(design.gates[w])
    /\ "w1" \notin Reads(design.gates["w2"]) \/ "w2" \notin Reads(design.gates["w1"])

\* An accepted netlist, made by the pinned Yosys, has an assertion that is live all
\* the time and means "a pending BLAKE3 result is a pending result", for every value
\* of the ports the validator does not set.
AcceptedIsTheImplication ==
    verdict = "valid" /\ Acyclic =>
        /\ {design.creator, design.runtime} = {Expected}
        /\ \E i \in DOMAIN design.cells :
              LET cell == design.cells[i]
              IN /\ cell.type = "check" /\ cell.flavor = "assert" /\ cell.trigger = Combinational
                 /\ Implication(cell)

\* A netlist over the two pending ports alone, without a cell the validator has to
\* refuse, of which one live assertion means the implication, is accepted: however
\* the gates are ordered and whatever triggered or covering cells stand beside it.
ImplicationIsFound ==
    /\ verdict # "none" /\ {design.creator, design.runtime} = {Expected}
    /\ unknown = {} /\ Acyclic
    /\ \A w \in Wires : "other" \notin Reads(design.gates[w])
    /\ \A i \in Live : design.cells[i].EN # "other"
    /\ Cardinality({i \in Live : Implication(design.cells[i])}) = 1
    => verdict = "valid"

\* validate_design accepts the pending implication and nothing else.
AcceptanceIsExact == AcceptedIsTheImplication /\ ImplicationIsFound
=============================================================================
