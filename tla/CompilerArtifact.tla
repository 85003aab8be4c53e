-------------------------- MODULE CompilerArtifact --------------------------
(***************************************************************************)
(* Jobs of tools/lean_compiler_export.py (write a program artifact) and of *)
(* the live mode of tools/host_upstream_comparison.py (accept one only if  *)
(* a fresh probe reproduces it), one after the other.  Both run the probe  *)
(* with a toolchain that is checked, copied and checked again, while       *)
(* somebody edits the source, moves the checkouts, changes what is behind  *)
(* the toolchain's mount, or edits an artifact.                            *)
(*                                                                         *)
(* What the probe prints depends on its source text and its toolchain; the *)
(* upstream tree comes from git's objects at COMMIT and cannot change.     *)
(***************************************************************************)
EXTENDS Integers, FiniteSets

CONSTANTS Texts,       \* source texts
          GoodTool, BadTool,
          Heads,       \* candidate commits
          MaxJobs, MaxEdits,  \* bounds
          None

\* What the constants must satisfy.
ArtifactAssumption == {MaxJobs, MaxEdits} \subseteq Nat

VARIABLES source,    \* the source file
          head, clean,     \* candidate checkout
          upstreamOk,      \* the upstream checkout is clean, detached, at COMMIT
          tool,            \* what is behind the toolchain's mount
          artifact,        \* on disk, or None
          edits
VARIABLES job, jobs, pc,
          text,      \* the source the job compiles
          tested,    \* the HEAD it started from
          loaded,    \* the artifact a comparison read
          private,   \* the private copy of the toolchain
          probe,     \* the probe's output
          accepted   \* the artifact the last comparison accepted, or None

world == <<source, head, clean, upstreamOk, tool, artifact, edits>>
process == <<job, jobs, pc, text, tested, loaded, private, probe, accepted>>
vars == <<world, process>>

Output(t, chain) == [text |-> t, tool |-> chain]

Edit ==
    /\ edits < MaxEdits /\ edits' = edits + 1
    /\ \/ source' \in Texts /\ clean' = FALSE /\ UNCHANGED <<head, upstreamOk, tool, artifact>>
       \/ head' \in Heads /\ clean' = TRUE /\ source' \in Texts /\ UNCHANGED <<upstreamOk, tool, artifact>>
       \/ upstreamOk' = ~upstreamOk /\ UNCHANGED <<source, head, clean, tool, artifact>>
       \/ tool' \in {GoodTool, BadTool} /\ UNCHANGED <<source, head, clean, upstreamOk, artifact>>
       \/ /\ artifact # None
          /\ \E t \in Texts : artifact' = [artifact EXCEPT !.program = Output(t, GoodTool)]
          /\ UNCHANGED <<source, head, clean, upstreamOk, tool>>
    /\ UNCHANGED process
-----------------------------------------------------------------------------
GoTo(step) ==
    pc' = step /\ UNCHANGED <<job, jobs, text, tested, loaded, private, probe, accepted>>
\* A failed check is a SystemExit.
Check(ok, step) == GoTo(IF ok THEN step ELSE "exited")

Start ==
    /\ pc = "exited" /\ jobs < MaxJobs /\ jobs' = jobs + 1
    /\ job' \in {"export"} \cup {j \in {"compare"} : artifact # None}
    /\ loaded' = artifact
    /\ text' = (IF job' = "compare" THEN artifact.text ELSE None)
    /\ pc' = "candidate" /\ accepted' = None
    /\ UNCHANGED <<tested, private, probe>> /\ UNCHANGED world

\* candidate_head
Candidate ==
    /\ pc = "candidate" /\ tested' = head
    /\ pc' = IF clean THEN "upstream" ELSE "exited"
    /\ UNCHANGED <<job, jobs, text, loaded, private, probe, accepted>> /\ UNCHANGED world

\* require_checkout, before and, when exporting, after the probe.
Upstream ==
    /\ \/ pc = "upstream" /\ Check(upstreamOk, IF job = "export" THEN "read" ELSE "namespace")
       \/ pc = "upstream again" /\ Check(upstreamOk, "candidate again")
    /\ UNCHANGED world

ReadSource ==
    /\ pc = "read" /\ text' = source /\ pc' = "namespace"
    /\ UNCHANGED <<job, jobs, tested, loaded, private, probe, accepted>> /\ UNCHANGED world

\* private_namespace_available and require_safe_archive_tree: may refuse.
Namespace ==
    /\ pc = "namespace" /\ \E ok \in BOOLEAN : Check(ok, "authenticate")
    /\ UNCHANGED world

\* open_resolved_toolchain_snapshot, require_readonly_toolchain_mount and
\* require_authenticated_toolchain.
Authenticate ==
    /\ pc = "authenticate" /\ \E readonly \in BOOLEAN : Check(readonly /\ tool = GoodTool, "copy")
    /\ UNCHANGED world

\* The broker copies the mount; a tree that changes under cp gives either.
CopyToolchain ==
    /\ pc = "copy" /\ private' = tool /\ pc' = "recheck"
    /\ UNCHANGED <<job, jobs, text, tested, loaded, probe, accepted>> /\ UNCHANGED world

\* Mutant: the check before the copy is taken to be enough.
PrivateIsGoodAssumed == TRUE
PrivateIsGood == private = GoodTool

Recheck ==
    /\ pc = "recheck" /\ Check(PrivateIsGood, "run")
    /\ UNCHANGED world

\* Cargo runs the probe from the private copy; a failed archive or probe ends the job.
RunProbe ==
    /\ pc = "run"
    /\ \/ pc' = "exited" /\ UNCHANGED probe
       \/ /\ probe' = Output(text, private)
          /\ pc' = IF job = "export" THEN "upstream again" ELSE "reproduce"
    /\ UNCHANGED <<job, jobs, text, tested, loaded, private, accepted>> /\ UNCHANGED world

CandidateAgain ==
    /\ pc = "candidate again" /\ Check(clean /\ head = tested, "write")
    /\ UNCHANGED world

\* The artifact's source.text was read before the probe, source.sha256 is read now.
WriteArtifact ==
    /\ pc = "write" /\ GoTo("exited")
    /\ artifact' = [text |-> text, sha |-> source, program |-> probe, head |-> tested]
    /\ UNCHANGED <<source, head, clean, upstreamOk, tool, edits>>

Reproduced(output) == output = loaded.program

\* upstream_execution: bytecode, entry point and execution must be the recorded ones.
Reproduce ==
    /\ pc = "reproduce" /\ pc' = "exited"
    /\ accepted' = IF Reproduced(probe) THEN loaded ELSE None
    /\ UNCHANGED <<job, jobs, text, tested, loaded, private, probe>> /\ UNCHANGED world

Init ==
    /\ source \in Texts /\ head \in Heads /\ clean = TRUE /\ upstreamOk = TRUE
    /\ tool \in {GoodTool, BadTool} /\ artifact = None /\ edits = 0
    /\ job = None /\ jobs = 0 /\ pc = "exited" /\ text = None /\ tested = None
    /\ loaded = None /\ private = None /\ probe = None /\ accepted = None

Next == \/ Edit \/ Start \/ Candidate \/ Upstream \/ ReadSource \/ Namespace
        \/ Authenticate \/ CopyToolchain \/ Recheck \/ RunProbe \/ CandidateAgain
        \/ WriteArtifact \/ Reproduce
Spec == Init /\ [][Next]_vars
-----------------------------------------------------------------------------
(* Properties *)

\* An export is about to write the program that the pinned toolchain makes of the text
\* it read, whatever happened to the mount between the two checks.
ExportedIsPinned == pc = "write" => probe = Output(text, GoodTool)

\* An artifact that the live comparison accepted has the program its text compiles to,
\* however stale or edited it was.
AcceptedIsReproducible ==
    accepted # None => accepted.program = Output(accepted.text, GoodTool)

\* Both ends of the artifact's life: what is written and what is accepted.
ArtifactIsReproducible == ExportedIsPinned /\ AcceptedIsReproducible
=============================================================================
