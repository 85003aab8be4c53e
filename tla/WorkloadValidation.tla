-------------------------- MODULE WorkloadValidation --------------------------
(***************************************************************************)
(* Runs of tools/workload_validation.py, one after the other, while an     *)
(* editor works in the candidate's and the upstream's checkouts, switches  *)
(* their HEAD, and may touch a snapshot until it is frozen.  Any check may *)
(* fail and the process may be killed anywhere.                            *)
(*                                                                         *)
(* A tree is the commit it has the bytes of, or Dirty.  All of a plan's    *)
(* pinned claims about a commit are one fact: it is in GoodPlans.          *)
(***************************************************************************)
EXTENDS Integers, Sequences, FiniteSets

CONSTANTS Candidates, GoodPlans,  \* candidate commits; those whose plan passes validate_*
          Pinned, OtherUpstream,  \* upstream commits
          Workloads,              \* their number: 3
          MaxRuns, MaxEdits,      \* bounds
          None, Dirty, Torn

\* What the constants must satisfy.
ValidationAssumption ==
    /\ GoodPlans \subseteq Candidates /\ Workloads \in Nat \ {0} /\ {MaxRuns, MaxEdits} \subseteq Nat

VARIABLES checkout,    \* [repository -> [head, work]]
          snap,        \* [repository -> the run's snapshot: [tree, frozen], or None]
          files,       \* cache: [workload -> comparison file]
          receipt,     \* cache: receipt.json, Torn while half written
          run, pc, at, \* the process: number, step, repository being pinned
          captured,    \* head and tree of clean_head
          evidence,    \* receipt["evidence"], a sequence
          fate,        \* how collect_evidence ends once the snapshots are gone
          left,        \* history: snapshots that a kill or a failed thaw leaves behind
          edits

process == <<run, pc, at, captured, evidence, fate, left>>
vars == <<checkout, snap, files, receipt, process, edits>>

Repositories == {"candidate", "upstream"}
Commits(repo) == IF repo = "candidate" THEN Candidates ELSE {Pinned, OtherUpstream}
IsClean(repo) == checkout[repo].work = checkout[repo].head
IsReceipt(r) == r \notin {None, Torn}
-----------------------------------------------------------------------------
(* The editor.                                                             *)

Edit ==
    /\ edits < MaxEdits /\ edits' = edits + 1
    /\ \/ \E repo \in Repositories :
            \/ checkout' = [checkout EXCEPT ![repo].work = Dirty]
            \/ checkout' = [checkout EXCEPT ![repo].work = checkout[repo].head]
            \/ \E c \in Commits(repo) : checkout' = [checkout EXCEPT ![repo] = [head |-> c, work |-> c]]
          /\ UNCHANGED snap
       \/ \E repo \in Repositories :
            /\ snap[repo] # None /\ ~snap[repo].frozen
            /\ snap' = [snap EXCEPT ![repo].tree = Dirty]
            /\ UNCHANGED checkout
    /\ UNCHANGED <<files, receipt, process>>
-----------------------------------------------------------------------------
(* main up to collect_evidence.                                            *)

Held == {repo \in Repositories : snap[repo] # None}

\* SystemExit or CalledProcessError: the open context managers unwind first.
Fail ==
    /\ fate' = "fail" /\ pc' = IF Held = {} THEN "exited" ELSE "unwind"
    /\ UNCHANGED <<run, at, captured, evidence, left>>
GoTo(step) == pc' = step /\ UNCHANGED <<run, at, captured, evidence, fate, left>>
GoToAt(step, where) == pc' = step /\ at' = where /\ UNCHANGED <<run, captured, evidence, fate, left>>

Start ==
    /\ pc = "exited" /\ run < MaxRuns
    /\ run' = run + 1 /\ pc' = "cache" /\ at' = None /\ captured' = [head |-> None, tree |-> None]
    /\ evidence' = <<>> /\ fate' = None /\ left' = {}
    /\ snap' = [repo \in Repositories |-> None]
    /\ UNCHANGED <<checkout, files, receipt, edits>>

\* Mutant: an earlier receipt stays until a new one is published.
PreparedReceiptKept == receipt
PreparedReceipt == None

\* The cache's place and mode are checked, then prepare_receipt_path.
Cache ==
    /\ pc = "cache"
    /\ \/ Fail /\ UNCHANGED receipt
       \/ receipt' = PreparedReceipt /\ GoTo("clean")
    /\ UNCHANGED <<checkout, snap, files, edits>>

\* clean_head: the clean check and two rev-parse, each a process of its own.
CleanHead ==
    /\ pc \in {"clean", "head", "tree"}
    /\ LET now == checkout["candidate"].head
       IN \/ pc = "clean" /\ IF IsClean("candidate") THEN GoTo("head") ELSE Fail
          \/ /\ pc = "head" /\ captured' = [captured EXCEPT !.head = now] /\ pc' = "tree"
             /\ UNCHANGED <<run, at, evidence, fate, left>>
          \/ /\ pc = "tree" /\ captured' = [captured EXCEPT !.tree = now] /\ pc' = "plan"
             /\ UNCHANGED <<run, at, evidence, fate, left>>
    /\ UNCHANGED <<checkout, snap, files, receipt, edits>>

PlanOf == captured.head

\* load_captured_plan and the validate_* of its contents.
Plan ==
    /\ pc = "plan"
    /\ IF PlanOf \in GoodPlans THEN GoTo("upstream") ELSE Fail
    /\ UNCHANGED <<checkout, snap, files, receipt, edits>>

\* validate_upstream_checkout, before and after the evidence is collected.
Upstream ==
    /\ pc \in {"upstream", "upstream again"}
    /\ IF checkout["upstream"].head = Pinned /\ IsClean("upstream")
       THEN IF pc = "upstream" THEN GoToAt("add", "candidate") ELSE GoTo("publish")
       ELSE Fail
    /\ UNCHANGED <<checkout, snap, files, receipt, edits>>
-----------------------------------------------------------------------------
(* pinned_worktree                                                         *)

CommitOf(repo) == IF repo = "candidate" THEN captured.head ELSE Pinned

AddWorktree ==
    /\ pc = "add"
    /\ \/ Fail /\ UNCHANGED snap
       \/ /\ snap' = [snap EXCEPT ![at] = [tree |-> CommitOf(at), frozen |-> FALSE]]
          /\ GoTo("inspect")
    /\ UNCHANGED <<checkout, files, receipt, edits>>

Inspect ==
    /\ pc = "inspect"
    /\ IF snap[at].tree = CommitOf(at) THEN GoTo("freeze") ELSE Fail
    /\ UNCHANGED <<checkout, snap, files, receipt, edits>>

\* set_worktree_writable and set_worktree_immutable: chattr needs sudo.
Freeze ==
    /\ pc = "freeze"
    /\ \/ Fail /\ UNCHANGED snap
       \/ snap' = [snap EXCEPT ![at].frozen = TRUE] /\ GoTo("frozen")
    /\ UNCHANGED <<checkout, files, receipt, edits>>

FrozenMatches(repo) == snap[repo].tree = CommitOf(repo)

RequireFrozen ==
    /\ pc = "frozen"
    /\ IF ~FrozenMatches(at) THEN Fail
       ELSE IF at = "candidate" THEN GoToAt("add", "upstream") ELSE GoTo("inputs")
    /\ UNCHANGED <<checkout, snap, files, receipt, edits>>

UnwindNext(open) == IF "upstream" \in open THEN {"upstream"} ELSE open

\* The finally blocks, innermost first: thaw, remove.  Thawing needs sudo too; when it
\* fails the worktree stays and the next block runs.
Unwind ==
    /\ pc = "unwind"
    /\ LET next == UnwindNext(Held \ left)
       IN \/ /\ \E repo \in next :
                  \/ snap' = [snap EXCEPT ![repo] = None] /\ UNCHANGED <<left, fate>>
                  \/ left' = left \cup {repo} /\ fate' = "fail" /\ UNCHANGED snap
             /\ UNCHANGED <<run, pc, at, captured, evidence>>
          \/ /\ next = {} /\ UNCHANGED snap
             /\ GoTo(IF fate = "ok" THEN "upstream again" ELSE "exited")
    /\ UNCHANGED <<checkout, files, receipt, edits>>
-----------------------------------------------------------------------------
(* collect_evidence                                                        *)

Item == Len(evidence) + 1    \* the workload in hand

\* The hashes of source, artifact and origin in the live checkouts, and the artifact's
\* own claims; an edited tree may or may not differ in these files.
Inputs ==
    /\ pc = "inputs"
    /\ \/ GoTo("compare")
       \/ (\E repo \in Repositories : ~IsClean(repo) \/ checkout[repo].head \notin GoodPlans \cup {Pinned}) /\ Fail
    /\ UNCHANGED <<checkout, snap, files, receipt, edits>>

\* run_comparison: the old file goes first; the comparator may leave no JSON.
RunComparison ==
    /\ pc \in {"compare", "comparing"}
    /\ \/ pc = "compare" /\ files' = [files EXCEPT ![Item] = None] /\ GoTo("comparing")
       \/ pc = "comparing" /\ UNCHANGED files /\ Fail
       \/ /\ pc = "comparing"
          /\ \E expected \in BOOLEAN :
               files' = [files EXCEPT ![Item] = [tool |-> snap["candidate"].tree, upstream |-> snap["upstream"].tree,
                                               expected |-> expected, run |-> run]]
          /\ GoTo("judge")
    /\ UNCHANGED <<checkout, snap, receipt, edits>>

OutcomeHolds == files[Item].expected

\* The snapshots are still clean, the outcome is the plan's; record it.
Judge ==
    /\ pc = "judge"
    /\ IF OutcomeHolds /\ \A repo \in Repositories : FrozenMatches(repo)
       THEN /\ evidence' = Append(evidence, files[Item])
            /\ IF Item < Workloads THEN pc' = "inputs" /\ UNCHANGED fate ELSE pc' = "unwind" /\ fate' = "ok"
            /\ UNCHANGED <<run, at, captured, left>>
       ELSE Fail
    /\ UNCHANGED <<checkout, snap, files, receipt, edits>>

\* publish_receipt: clean_head again, then write_text, which truncates first.
Publish ==
    /\ LET now == checkout["candidate"].head
       IN \/ pc = "publish" /\ UNCHANGED receipt /\ IF IsClean("candidate") THEN GoTo("same head") ELSE Fail
          \/ pc = "same head" /\ UNCHANGED receipt /\ IF now = captured.head THEN GoTo("same tree") ELSE Fail
          \/ pc = "same tree" /\ UNCHANGED receipt /\ IF now = captured.tree THEN GoTo("open receipt") ELSE Fail
          \/ pc = "open receipt" /\ receipt' = Torn /\ GoTo("write receipt")
          \/ /\ pc = "write receipt" /\ GoTo("exited")
             /\ receipt' = [head |-> captured.head, tree |-> captured.tree, evidence |-> evidence]
    /\ UNCHANGED <<checkout, snap, files, edits>>

Kill ==
    /\ pc # "exited" /\ pc' = "exited" /\ left' = Repositories
    /\ UNCHANGED <<checkout, snap, files, receipt, run, at, captured, evidence, fate, edits>>

Init ==
    /\ \E c \in Candidates, u \in Commits("upstream") :
         checkout = [repo \in Repositories |-> IF repo = "candidate" THEN [head |-> c, work |-> c] ELSE [head |-> u, work |-> u]]
    /\ snap = [repo \in Repositories |-> None]
    /\ files = [w \in 1..Workloads |-> None] /\ receipt = None
    /\ run = 0 /\ pc = "exited" /\ at = None /\ captured = [head |-> None, tree |-> None]
    /\ evidence = <<>> /\ fate = None /\ left = {} /\ edits = 0

Step == \/ Cache \/ CleanHead \/ Plan \/ Upstream \/ AddWorktree \/ Inspect \/ Freeze \/ RequireFrozen
        \/ Unwind \/ Inputs \/ RunComparison \/ Judge \/ Publish
Next == Start \/ Step \/ Kill \/ Edit
Spec == Init /\ [][Next]_vars
-----------------------------------------------------------------------------
(* Properties *)

\* A receipt on disk says the truth: every workload had the planned outcome, computed by
\* the tools of the commit it names from the pinned upstream, under that commit's plan,
\* whatever was edited meanwhile.
ReceiptIsTrue ==
    IsReceipt(receipt) =>
        /\ receipt.head \in GoodPlans /\ Len(receipt.evidence) = Workloads
        /\ \A w \in 1..Workloads :
             /\ receipt.evidence[w].tool = receipt.head /\ receipt.evidence[w].upstream = Pinned
             /\ receipt.evidence[w].expected

\* A receipt on disk never outlives the comparison files it has the hashes of, through
\* failed and killed runs.
ReceiptMatchesFiles ==
    IsReceipt(receipt) => \A w \in 1..Workloads : files[w] = receipt.evidence[w]

\* A run that was not killed and whose thawing did not fail leaves no frozen worktree.
NoWorktreeLeft == pc = "exited" => Held \subseteq left

\* What a receipt on disk is worth, and that no run leaves a worktree behind.
ReceiptIsSound == ReceiptIsTrue /\ ReceiptMatchesFiles /\ NoWorktreeLeft
=============================================================================
