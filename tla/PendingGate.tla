------------------------------ MODULE PendingGate ------------------------------
(***************************************************************************)
(* main of formal/check_blake3_pending_invariant.py: it reads the frontend *)
(* and the invariant file once, installs a workspace per task by copying   *)
(* the files again, mutates one of them from the text it has read, checks  *)
(* that nothing else differs (mutation_isolated) and runs the contract     *)
(* validator, a bounded proof and a cover in it.  The files may be edited  *)
(* meanwhile and a tool may break down.  A file's content is a version: an *)
(* edit makes a new one or puts an earlier one back (a checkout, a stash). *)
(***************************************************************************)
EXTENDS Integers, Sequences, FiniteSetsExt, SequencesExt

CONSTANTS MaxEdits, MaxTrouble,
          MaxOdd    \* tool runs whose true outcome is not the wanted one

\* What the constants must satisfy.
PendingGateAssumption == {MaxEdits, MaxTrouble, MaxOdd} \subseteq Nat

Files == {"frontend", "invariant", "other"}   \* other: the rest of SOURCES
Weakenings == {"weaken_assertion", "remove_assertion"}
Mutants == {"omit_union"} \cup Weakenings \cup {"control_cover"}
Works == {"baseline"} \cup Mutants
Target(w) == IF w = "omit_union" THEN "frontend" ELSE "invariant"
Task(w, tool) == <<w, tool>>

VARIABLES disk,      \* version of each file
          newest,    \* the newest version each file has had
          restored,  \* history: files put back to an earlier version
          text,      \* source_text and invariant_text as read
          copied,    \* the version of each file in each workspace
          isolated,  \* mutants that passed mutation_isolated
          todo, result, exit, edits, trouble,
          truth      \* the tasks that pass on version 0

vars == <<disk, newest, restored, text, copied, isolated, todo, result, exit, edits,
          trouble, truth>>
-----------------------------------------------------------------------------
Tasks == {Task(w, "contract") : w \in Works}
         \cup {Task(w, "bmc") : w \in Works \ {"control_cover"}}
         \cup {Task(w, "cover") : w \in {"baseline"} \cup Weakenings}
\* What must come out: the mutants that keep the RTL pass the proof.
Wanted == {t \in Tasks : ~(t = Task("omit_union", "bmc") \/ t \in {Task(w, "contract") : w \in Weakenings})}

\* In a workspace: the copies, the mutation and its comparison, the tools.
Script ==
    << <<"read", "frontend">>, <<"read", "invariant">>,
       <<"sources", "baseline">>, <<"invariant", "baseline">>,
       <<"baseline", "contract">>, <<"baseline", "bmc">>, <<"baseline", "cover">>,
       <<"sources", "omit_union">>, <<"invariant", "omit_union">>,
       <<"mutate", "omit_union">>, <<"isolate", "omit_union">>,
       <<"omit_union", "contract">>, <<"omit_union", "bmc">>,
       <<"sources", "weaken_assertion">>, <<"invariant", "weaken_assertion">>,
       <<"mutate", "weaken_assertion">>, <<"isolate", "weaken_assertion">>,
       <<"weaken_assertion", "contract">>, <<"weaken_assertion", "bmc">>,
       <<"weaken_assertion", "cover">>,
       <<"sources", "remove_assertion">>, <<"invariant", "remove_assertion">>,
       <<"mutate", "remove_assertion">>, <<"isolate", "remove_assertion">>,
       <<"remove_assertion", "contract">>, <<"remove_assertion", "bmc">>,
       <<"remove_assertion", "cover">>,
       <<"sources", "control_cover">>, <<"invariant", "control_cover">>,
       <<"mutate", "control_cover">>, <<"isolate", "control_cover">>,
       <<"control_cover", "contract">> >>

Init ==
    /\ disk = [f \in Files |-> 0] /\ newest = disk /\ restored = {} /\ text = disk
    /\ copied = [w \in Works |-> disk] /\ isolated = {}
    /\ todo = Script /\ result = [t \in Tasks |-> "none"]
    /\ exit = -1 /\ edits = 0 /\ trouble = 0
    /\ truth \in {SymDiff(Wanted, odd) : odd \in UNION {kSubset(k, Tasks) : k \in 0 .. MaxOdd}}

Step(kind) == exit = -1 /\ todo # <<>> /\ Head(todo)[1] = kind /\ todo' = Tail(todo)

\* A read_text() and its anchor check, which an edit may have spoilt.
ReadText ==
    /\ Step("read")
    /\ LET f == Head(todo)[2]
       IN  /\ text' = [text EXCEPT ![f] = disk[f]]
           /\ exit' \in {-1} \cup (IF disk[f] = 0 THEN {} ELSE {1})
    /\ UNCHANGED <<disk, newest, restored, copied, isolated,
                   result, edits, trouble, truth>>

CopySources ==
    /\ Step("sources")
    /\ LET w == Head(todo)[2]
       IN  copied' = [copied EXCEPT ![w].frontend = disk.frontend, ![w].other = disk.other]
    /\ UNCHANGED <<disk, newest, restored, text, isolated, result,
                   exit, edits, trouble, truth>>

CopyInvariant ==
    /\ Step("invariant")
    /\ copied' = [copied EXCEPT ![Head(todo)[2]].invariant = disk.invariant]
    /\ UNCHANGED <<disk, newest, restored, text, isolated, result,
                   exit, edits, trouble, truth>>

\* write_text of the mutated text, made from the text read at the start; the
\* anchor checks of the invariant's mutations raise on some edited texts.
Mutate ==
    /\ Step("mutate")
    /\ LET w == Head(todo)[2]
       IN  /\ copied' = [copied EXCEPT ![w][Target(w)] = text[Target(w)]]
           /\ exit' \in {-1} \cup (IF Target(w) = "invariant" /\ text.invariant # 0 THEN {1} ELSE {})
    /\ UNCHANGED <<disk, newest, restored, text, isolated, result, edits, trouble, truth>>

\* Mutant: the invariant is not compared.
IsolatedNowFrontend(w) == copied[w].frontend = text.frontend /\ copied[w].other = disk.other
\* mutation_isolated: the frontend and the invariant are compared with what was
\* read at the start, the other sources with the files as they are now.
IsolatedNow(w) ==
    /\ copied[w].frontend = text.frontend /\ copied[w].invariant = text.invariant
    /\ copied[w].other = disk.other

Isolate ==
    /\ Step("isolate")
    /\ LET w == Head(todo)[2]
       IN  isolated' = IF IsolatedNow(w) THEN isolated \cup {w} ELSE isolated
    /\ UNCHANGED <<disk, newest, restored, text, copied, result,
                   exit, edits, trouble, truth>>

\* A tool's verdict is true of the version the gate started from, and as wanted
\* on edited files, which is what could hide the edit.
Verdict(t) ==
    IF t \in (IF copied[t[1]] = [f \in Files |-> 0] THEN truth ELSE Wanted) THEN "pass" ELSE "fail"

\* Broken, sby ends without a verdict; the validator, whose every failure is exit
\* status 1, looks as if it had rejected.
Breakdown(t) == IF t[2] = "contract" THEN "fail" ELSE "error"

RunTool ==
    /\ exit = -1 /\ todo # <<>> /\ Head(todo) \in Tasks /\ todo' = Tail(todo)
    /\ LET t == Head(todo)
       IN  \/ result' = [result EXCEPT ![t] = Verdict(t)] /\ trouble' = trouble
          \/ /\ trouble < MaxTrouble /\ trouble' = trouble + 1
             /\ result' = [result EXCEPT ![t] = Breakdown(t)]
    /\ UNCHANGED <<disk, newest, restored, text, copied, isolated, exit, edits, truth>>

Killed(w) ==
    /\ w \in isolated
    /\ IF w = "omit_union" THEN result[Task(w, "bmc")] = "fail" /\ result[Task(w, "contract")] = "pass"
       ELSE result[Task(w, "contract")] = "fail" /\ result[Task(w, "bmc")] = "pass" /\ result[Task(w, "cover")] = "pass"

Passed ==
    /\ \A tool \in {"contract", "bmc", "cover"} : result[Task("baseline", tool)] = "pass"
    /\ \A w \in {"omit_union"} \cup Weakenings : Killed(w)
    /\ "control_cover" \in isolated /\ result[Task("control_cover", "contract")] = "pass"

Finish ==
    /\ exit = -1 /\ todo = <<>> /\ exit' = IF Passed THEN 0 ELSE 1
    /\ UNCHANGED <<disk, newest, restored, text, copied, isolated,
                   todo, result, edits, trouble, truth>>

Edit(f) ==
    /\ exit = -1 /\ edits < MaxEdits /\ edits' = edits + 1
    /\ newest' = [newest EXCEPT ![f] = @ + 1] /\ disk' = [disk EXCEPT ![f] = newest[f] + 1]
    /\ UNCHANGED <<restored, text, copied, isolated, todo, result, exit, trouble, truth>>

\* An edit that is undone, or any earlier version checked out again.
PutBack(f) ==
    /\ exit = -1 /\ edits < MaxEdits /\ edits' = edits + 1
    /\ \E v \in 0 .. newest[f] : v # disk[f] /\ disk' = [disk EXCEPT ![f] = v]
    /\ restored' = restored \cup {f}
    /\ UNCHANGED <<newest, text, copied, isolated, todo, result, exit, trouble, truth>>

Next == \/ ReadText \/ CopySources \/ CopyInvariant \/ Mutate \/ Isolate \/ RunTool \/ Finish
        \/ \E f \in Files : Edit(f) \/ PutBack(f)
Spec == Init /\ [][Next]_vars
-----------------------------------------------------------------------------
\* A pass is about one frontend and one invariant file, whatever is edited and
\* undone meanwhile: every mutant is the text read at the start, although its
\* workspace is copied from disk at a time of its own; and so is the baseline, which
\* nothing compares (install_baseline, baseline_work), unless the file was put back
\* to an earlier version during the run.
OneSource ==
    exit = 0 =>
        \A f \in {"frontend", "invariant"}, w \in Works :
            copied[w][f] = text[f] \/ (w = "baseline" /\ f \in restored)

\* What the gate's test is named for, test_each_mutant_starts_from_the_exact_baseline,
\* and mutation_isolated is to ensure: a gate that passes has mutated the sources its
\* baseline proof ran on.  An edit during the run breaks it.
MutantsStartFromTheBaseline ==
    exit = 0 => \A w \in Mutants, f \in Files : copied[w][f] = copied["baseline"][f]

\* A pass means what the receipt says, unless files are edited: the baseline passes
\* its contract, proof and cover, the omitted union falsifies the proof, and the
\* unrelated change is accepted, even when a tool broke down; that the contract
\* rejects both weakened assertions is sure only when the validator did not.
PassIsEarned ==
    exit = 0 /\ edits = 0 =>
        /\ Wanted \subseteq truth /\ Task("omit_union", "bmc") \notin truth
        /\ trouble = 0 => truth = Wanted

\* The gate passes when everything is as wanted and nothing interferes.
EarnedPasses ==
    exit # -1 /\ edits = 0 /\ trouble = 0 /\ truth = Wanted => exit = 0

\* What the pending gate's exit status says, and of which source.
PendingGateIsHonest == OneSource /\ PassIsEarned /\ EarnedPasses
=============================================================================
