----------------------------- MODULE MutationGate -----------------------------
(***************************************************************************)
(* The gates that require a check to fail on mutated sources:              *)
(*   lifecycle   formal/check_deref_retire_formal_mutations.py (and its    *)
(*               JUMP and scalar variants), one baseline per goal;         *)
(*   lsc1u       formal/check_mutations.py without --only, several goals   *)
(*               per mutation;                                             *)
(*   simulation  formal/check_deref_mutations.py;                          *)
(*   lean        lean/check_full_profile_mutations.py.                     *)
(* Each copies the sources (the Lean gate reads one file per group), makes *)
(* one textual replacement and runs a tool.  The tool tells the truth, or  *)
(* breaks down, or takes too long; the sources may be edited meanwhile.    *)
(* Baseline stands for the sources as they are.                            *)
(***************************************************************************)
EXTENDS Integers, Sequences, Functions

CONSTANTS Gates, Mutations, Goals,   \* Mutations and Goals: numbers, in list order
          Checks,                    \* the goals each mutation is run against
          MaxEdits, MaxTrouble

Baseline == 0
Pairs == {p \in Mutations \X Goals : p[2] \in Range(Checks[p[1]])}

\* What the constants must satisfy.
GateAssumption ==
    /\ Gates \subseteq {"lifecycle", "lsc1u", "simulation", "lean"}
    /\ Mutations \subseteq Nat \ {Baseline} /\ Goals \subseteq Nat
    /\ Checks \in [Mutations -> Seq(Goals)] /\ \A m \in Mutations : Checks[m] # <<>>
    /\ MaxEdits \in Nat /\ MaxTrouble \in Nat

VARIABLES gate,
          sources,   \* [anchored: mutations whose text occurs (exactly once, where
                     \*  the gate counts), holds: goals the sources meet,
                     \*  caught: Pairs whose mutant falsifies a goal that holds]
          copy,      \* the sources as last copied or read
          todo, failed, exit,
          ran,       \* history: what came of each <<mutation, goal>>
          edits, trouble

vars == <<gate, sources, copy, todo, failed, exit, ran, edits, trouble>>
-----------------------------------------------------------------------------
Versions == [anchored : SUBSET Mutations, holds : SUBSET Goals, caught : SUBSET Pairs]
\* A step of a gate: its places in the outer and in the inner loop, and whether it
\* copies the sources or runs the tool.
COPY == 0
RUN == 1

Assigned(g) == {m \in Mutations : Checks[m][1] = g}
\* Every goal's baseline, then the mutations assigned to the goal, each on a copy.
Grouped ==
    UNION {{g} \X ({Baseline} \cup Assigned(g)) \X {COPY, RUN} : g \in {Checks[m][1] : m \in Mutations}}
\* Every mutation, against each of its goals on one copy.
PerMutation ==
    {<<m, 0, COPY>> : m \in Mutations}
    \cup UNION {{<<m, i, RUN>> : i \in DOMAIN Checks[m]} : m \in Mutations}
\* Every file, read once, then the mutations of that file.
PerFile ==
    {<<g, 0, COPY>> : g \in Goals} \cup UNION {{<<g, m, RUN>> : m \in Assigned(g)} : g \in Goals}

ByMutation(k) == k \in {"lsc1u", "simulation"}
Steps(k) == IF ByMutation(k) THEN PerMutation ELSE IF k = "lean" THEN PerFile ELSE Grouped

\* The mutation and the goal of a run.
MutationOf(s) == IF ByMutation(gate) THEN s[1] ELSE s[2]
GoalOf(s) == IF ByMutation(gate) THEN Checks[s[1]][s[2]] ELSE s[1]

\* The loops take the steps in order.
Before(s, t) ==
    \/ s[1] < t[1]
    \/ s[1] = t[1] /\ s[2] < t[2]
    \/ s[1] = t[1] /\ s[2] = t[2] /\ s[3] < t[3]
IsNext(s) == \A t \in todo \ {s} : Before(s, t)

\* What the tool says of a run when nothing goes wrong: a goal the sources
\* break is broken on their mutants too.
Truth(m, g) ==
    IF g \in copy.holds /\ <<m, g>> \notin copy.caught THEN "pass" ELSE "fail"

Outcomes(m, g) ==
    {Truth(m, g)} \cup (IF trouble = MaxTrouble THEN {}
                        ELSE {"error"} \cup (IF gate \in {"lifecycle", "lsc1u"} THEN {"timeout"} ELSE {}))

\* The SymbiYosys gates want the terminal FAIL, the others a nonzero status.
Killed(k, outcome) ==
    outcome = "fail" \/ (k \in {"simulation", "lean"} /\ outcome = "error")

\* Mutant: the baseline's result is only printed.
StopsKeepsGoing(k, m, outcome) == k = "lean" /\ outcome \in {"pass", "unanchored"}
\* The run ends the gate at once: a baseline that does not pass, an uncaught
\* TimeoutExpired, the first survivor or missing anchor of the Lean gate.
Stops(k, m, outcome) ==
    \/ m = Baseline /\ outcome # "pass"
    \/ k = "lsc1u" /\ outcome = "timeout"
    \/ k = "lean" /\ ~Killed(k, outcome)

Init ==
    /\ gate \in Gates /\ sources \in Versions /\ copy = sources
    /\ todo = Steps(gate) /\ failed = FALSE /\ exit = -1
    /\ ran = [p \in Pairs |-> "none"] /\ edits = 0 /\ trouble = 0

CopySources ==
    /\ exit = -1
    /\ \E s \in todo : IsNext(s) /\ s[3] = COPY /\ todo' = todo \ {s}
    /\ copy' = sources
    /\ UNCHANGED <<gate, sources, failed, exit, ran, edits, trouble>>

\* A survivor; either of the simulation gate's runs kills, so it books after the last.
Books(m, g, outcome) ==
    /\ m # Baseline /\ ~Killed(gate, outcome)
    /\ gate = "simulation" =>
          /\ g = Checks[m][Len(Checks[m])]
          /\ \A h \in Range(Checks[m]) \ {g} : ~Killed(gate, ran[<<m, h>>])

\* The tool on one mutant, or on the baseline.
Runs(m, g) ==
    \E o \in IF m = Baseline \/ m \in copy.anchored THEN Outcomes(m, g) ELSE {"unanchored"} :
        /\ ran' = IF m = Baseline THEN ran ELSE [ran EXCEPT ![<<m, g>>] = o]
        /\ trouble' = IF o \in {"error", "timeout"} THEN trouble + 1 ELSE trouble
        /\ failed' = (failed \/ Books(m, g, o))
        /\ exit' = IF Stops(gate, m, o) THEN 1 ELSE -1

RunTool ==
    /\ exit = -1
    /\ \E s \in todo :
          /\ IsNext(s) /\ s[3] = RUN /\ todo' = todo \ {s}
          /\ Runs(MutationOf(s), GoalOf(s))
    /\ UNCHANGED <<gate, sources, copy, edits>>

Finish ==
    /\ exit = -1 /\ todo = {} /\ exit' = IF failed THEN 1 ELSE 0
    /\ UNCHANGED <<gate, sources, copy, todo, failed, ran, edits, trouble>>

Edit ==
    /\ exit = -1 /\ edits < MaxEdits /\ edits' = edits + 1
    /\ sources' \in Versions \ {sources}
    /\ UNCHANGED <<gate, copy, todo, failed, exit, ran, trouble>>

Next == CopySources \/ RunTool \/ Finish \/ Edit
Spec == Init /\ [][Next]_vars
-----------------------------------------------------------------------------
Required == IF gate \in {"lsc1u", "simulation"} THEN Pairs
            ELSE {<<m, Checks[m][1]>> : m \in Mutations}

\* A SymbiYosys gate that passes has seen a completed counterexample for every
\* mutation it lists and every goal: neither a tool error, nor a timeout, nor a
\* mutation whose text was not found counts as a kill (the comment in
\* check_mutation), whatever is edited meanwhile.
KillIsAFailure ==
    exit = 0 /\ gate \in {"lifecycle", "lsc1u"} => \A p \in Required : ran[p] = "fail"

\* The lifecycle gate's pass means what it says: the sources meet every goal with
\* a mutation, and each mutant breaks the goal it is assigned to.  Without the
\* baselines a goal the sources break by themselves would "kill" every mutant.
PassIsDetection ==
    exit = 0 /\ gate = "lifecycle" /\ edits = 0 =>
        /\ Required \subseteq sources.caught
        /\ \A p \in Required : p[2] \in sources.holds

\* A gate fails only for a reason: with the goals met, every mutant breaking each
\* of its goals, every anchor in place, no tool trouble and no edit, it passes.
DetectionPasses ==
    /\ exit # -1 /\ edits = 0 /\ trouble = 0
    /\ sources.holds = Goals /\ sources.anchored = Mutations /\ sources.caught = Pairs
    => exit = 0

\* What the gates' exit status says of the mutations.
GateIsHonest == KillIsAFailure /\ PassIsDetection /\ DetectionPasses
=============================================================================
