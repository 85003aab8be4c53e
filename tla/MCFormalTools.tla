--------------------------- MODULE MCFormalTools ----------------------------
(*****************************************************************************)
(* The tools that guard the formal evidence, each on its own: the            *)
(* transaction of the pending-contract validator, its judgement of a design, *)
(* the four mutation gates, and the pending gate. They do not interact; Init *)
(* picks the one that runs and the others rest in an initial state. The      *)
(* gates have two goals and two mutations, the second run against both goals *)
(* by the gates that run a mutation against several; the pending gate has    *)
(* twelve tool runs.                                                         *)
(*****************************************************************************)
EXTENDS ContractValidator

\* The edits and breakdowns the pending gate meets, and the tool runs that come out
\* otherwise than wanted.
CONSTANTS PendingEdits, PendingTrouble, PendingOdd
\* The gates, their mutations and goals in list order, and which are run together.
CONSTANTS MutationGates, GateMutations, GateGoals, GateChecks, GateEdits, GateTrouble

VARIABLE machine   \* the one that runs; the others are at rest
VARIABLES g_gate, g_sources, g_copy, g_todo, g_failed, g_exit, g_ran, g_edits, g_trouble
VARIABLES p_disk, p_newest, p_restored, p_text, p_copied, p_isolated, p_todo, p_result,
          p_exit, p_edits, p_trouble, p_truth
VARIABLES c_design, c_verdict

-----------------------------------------------------------------------------
(* The judged designs: all pairs of gates over a few operands, and formal cells
   of every kind beside the first. *)
Operands == {"1", "result", "blake", "other"}
OneBit(bits) == {<<b>> : b \in bits}

First == [type : {"not"}, A : OneBit(Operands \cup {"w2"})] \cup
         [type : {"and", "or"}, A : OneBit(Operands \cup {"w2"}), B : OneBit(Operands \cup {"w2"})] \cup
         [type : {"mux"}, A : OneBit({"1", "result", "other"}), B : OneBit({"1", "result", "w2"}),
                          S : OneBit({"blake", "other", "w2"})]
Second == [type : {"not"}, A : OneBit({"result", "blake", "other", "w1"})] \cup
          [type : {"and", "or"}, A : OneBit({"result", "other"}), B : OneBit({"blake", "w1"})]

MCGates == {[w1 |-> first, w2 |-> second] : first \in First, second \in Second}

CheckCell(flavor, trigger, A, EN) ==
    [type |-> "check", flavor |-> flavor, trigger |-> trigger, A |-> A, EN |-> EN]
Trigger(enable, width) == [enable |-> enable, width |-> width, polarity |-> width, trg |-> width]
MCCompanions ==
    {[type |-> "none"], [type |-> "assert"]} \cup
    {CheckCell("assert", t, "result", "blake") : t \in {Trigger(1, 1), Trigger(0, 1), Trigger(0, 0)}} \cup
    {CheckCell("cover", Trigger(0, 0), "1", "blake"), CheckCell("strange", Trigger(0, 0), "result", "blake")}

-----------------------------------------------------------------------------

MCChecks == <<<<1>>, <<2, 1>>>>
MCOneCheck == <<<<1>>>>

Gate == INSTANCE MutationGate WITH
      Gates <- MutationGates, Mutations <- GateMutations, Goals <- GateGoals,
      Checks <- GateChecks, MaxEdits <- GateEdits, MaxTrouble <- GateTrouble, gate <- g_gate,
      sources <- g_sources, copy <- g_copy, todo <- g_todo, failed <- g_failed,
      exit <- g_exit, ran <- g_ran, edits <- g_edits, trouble <- g_trouble
gateVars == <<g_gate, g_sources, g_copy, g_todo, g_failed, g_exit, g_ran, g_edits,
          g_trouble>>
ASSUME GateAssumption == Gate!GateAssumption

Pending == INSTANCE PendingGate WITH
      MaxEdits <- PendingEdits, MaxTrouble <- PendingTrouble, MaxOdd <- PendingOdd, disk <- p_disk,
      newest <- p_newest, restored <- p_restored, text <- p_text,
      copied <- p_copied, isolated <- p_isolated, todo <- p_todo, result <- p_result,
      exit <- p_exit, edits <- p_edits, trouble <- p_trouble, truth <- p_truth
pendingVars == <<p_disk, p_newest, p_restored, p_text, p_copied, p_isolated, p_todo,
          p_result, p_exit, p_edits, p_trouble, p_truth>>
ASSUME PendingAssumption == Pending!PendingGateAssumption

Contract == INSTANCE PendingContract WITH
      Gates <- MCGates, Companions <- MCCompanions, Creators <- {"pinned", "older"},
      design <- c_design, verdict <- c_verdict
contractVars == <<c_design, c_verdict>>

MCVars == <<machine, vars, gateVars, pendingVars, contractVars>>

-----------------------------------------------------------------------------
Machines == {"validator", "gate", "pending", "contract"}

MCInit ==
    /\ machine \in Machines
    /\ Init /\ (machine = "validator" \/ (file.source.content = Pinned /\ file.archive.content = Pinned))
    /\ Gate!Init
    /\ machine = "gate" \/ (g_gate = "lean" /\ g_sources = [anchored |-> {}, holds |-> {}, caught |-> {}])
    /\ Pending!Init /\ (machine = "pending" \/ p_truth = Pending!Wanted)
    /\ IF machine = "contract" THEN Contract!Init ELSE c_design = <<>> /\ c_verdict = "none"

MCNext ==
    \/ /\ machine = "validator" /\ Next
       /\ UNCHANGED <<machine, gateVars, pendingVars, contractVars>>
    \/ /\ machine = "gate" /\ Gate!Next
       /\ UNCHANGED <<machine, vars, pendingVars, contractVars>>
    \/ /\ machine = "pending" /\ Pending!Next
       /\ UNCHANGED <<machine, vars, gateVars, contractVars>>
    \/ /\ machine = "contract" /\ Contract!Next
       /\ UNCHANGED <<machine, vars, gateVars, pendingVars>>

MCSpec == MCInit /\ [][MCNext]_MCVars
-----------------------------------------------------------------------------
(* Properties of the instances, by the names of their modules *)

\* validate_design accepts the designs whose first cell is exactly the pending
\* implication, and no other.
AcceptanceIsExact == Contract!AcceptanceIsExact

\* A SymbiYosys gate passes only on completed counterexamples, and every mutation
\* gate passes when each mutant is caught and nothing interferes.
GateIsHonest == Gate!GateIsHonest

\* The pending gate passes only when what its receipt says is so, of one frontend
\* and one invariant file, and passes whenever it is so and nothing interferes; the
\* baseline may have run on other files when an edit was undone during the run.
PendingGateIsHonest == Pending!PendingGateIsHonest

\* Each mutant starts from the exact baseline: not when a source is edited between
\* the copies.
MutantsStartFromTheBaseline == Pending!MutantsStartFromTheBaseline
=============================================================================
