---------------------------- MODULE MCRepoTools -----------------------------
(*****************************************************************************)
(* The repository's tools, each on its own: concurrent builds that publish   *)
(* into one archive, the workload validator, the compiler export and         *)
(* comparison, the comparison with upstream, and a bounded subprocess. They  *)
(* do not interact; Init picks the one that runs and the others rest: in an  *)
(* initial state, the subprocess after its command has returned. The         *)
(* constants of the tools are constants here too: the configuration gives    *)
(* them small values, the proofs any.                                        *)
(*****************************************************************************)
EXTENDS BuildPublish

CONSTANTS Candidates, GoodPlans, Pinned, OtherUpstream, Workloads, MaxRuns, MaxEdits,
          Dirty, Torn
CONSTANTS Texts, GoodTool, BadTool, Heads, MaxJobs, MaxArtifactEdits
CONSTANTS Addresses, Values, MaxCycles
CONSTANTS Descendants, Child

VARIABLE machine   \* the one that runs; the others are at rest
VARIABLES w_checkout, w_snap, w_files, w_receipt, w_run, w_pc, w_at, w_captured,
          w_evidence, w_fate, w_left, w_edits
VARIABLES a_source, a_head, a_clean, a_upstreamOk, a_tool, a_artifact, a_edits, a_job,
          a_jobs, a_pc, a_text, a_tested, a_loaded, a_private, a_probe, a_accepted
VARIABLES c_trace, c_mem_used, c_cells, c_step_index, c_terminal, c_result
VARIABLES t_pc, t_started, t_alive, t_group, t_holders, t_polite, t_termed, t_killed,
          t_graceOver

Any(S) == CHOOSE x \in S : TRUE
Checkout(commit) == [head |-> commit, work |-> commit]

\* What the validator's checkouts hold while another tool runs.
AtRest == [candidate |-> Checkout(Any(GoodPlans)), upstream |-> Checkout(Pinned)]

Validation == INSTANCE WorkloadValidation WITH
      checkout <- w_checkout, snap <- w_snap, files <- w_files, receipt <- w_receipt,
      run <- w_run, pc <- w_pc, at <- w_at, captured <- w_captured, evidence <- w_evidence,
      fate <- w_fate, left <- w_left, edits <- w_edits
validationVars == <<w_checkout, w_snap, w_files, w_receipt, w_run, w_pc, w_at, w_captured,
          w_evidence, w_fate, w_left, w_edits>>
ASSUME ValidationAssumption == Validation!ValidationAssumption

Artifact == INSTANCE CompilerArtifact WITH
      MaxEdits <- MaxArtifactEdits, source <- a_source, head <- a_head, clean <- a_clean,
      upstreamOk <- a_upstreamOk, tool <- a_tool, artifact <- a_artifact, edits <- a_edits,
      job <- a_job, jobs <- a_jobs, pc <- a_pc, text <- a_text, tested <- a_tested,
      loaded <- a_loaded, private <- a_private, probe <- a_probe, accepted <- a_accepted
artifactVars == <<a_source, a_head, a_clean, a_upstreamOk, a_tool, a_artifact, a_edits,
          a_job, a_jobs, a_pc, a_text, a_tested, a_loaded, a_private, a_probe, a_accepted>>
ASSUME ArtifactAssumption == Artifact!ArtifactAssumption

Comparison == INSTANCE UpstreamComparison WITH
      trace <- c_trace,
      mem_used <- c_mem_used, cells <- c_cells, step_index <- c_step_index,
      terminal <- c_terminal, result <- c_result
comparisonVars == <<c_trace, c_mem_used, c_cells, c_step_index, c_terminal, c_result>>
ASSUME ComparisonAssumption == Comparison!ComparisonAssumption

Tree == INSTANCE SubprocessTree WITH
      pc <- t_pc,
      started <- t_started, alive <- t_alive, group <- t_group, holders <- t_holders,
      polite <- t_polite, termed <- t_termed, killed <- t_killed, graceOver <- t_graceOver
treeVars == <<t_pc, t_started, t_alive, t_group, t_holders, t_polite, t_termed, t_killed,
          t_graceOver>>
ASSUME TreeAssumption == Tree!TreeAssumption

MCVars == <<machine, vars, validationVars, artifactVars, comparisonVars, treeVars>>

-----------------------------------------------------------------------------
Machines == {"publish", "validation", "artifact", "comparison", "tree"}

MCInit ==
    /\ machine \in Machines
    /\ Init /\ (machine = "publish" \/ recipe = [b \in Builds |-> Any(Recipes)])
    /\ Validation!Init /\ (machine = "validation" \/ w_checkout = AtRest)
    /\ Artifact!Init
    /\ (machine = "artifact" \/ <<a_source, a_head, a_tool>> = <<Any(Texts), Any(Heads), GoodTool>>)
    /\ Comparison!Init
    /\ IF machine = "tree" THEN Tree!Init
       ELSE /\ t_pc = "returned" /\ t_started = {Child} /\ t_alive = {} /\ t_group = {Child}
            /\ t_holders = {} /\ t_polite = {} /\ t_termed = {} /\ t_killed = {} /\ t_graceOver = FALSE

MCNext ==
    \/ /\ machine = "publish" /\ Next
       /\ UNCHANGED <<machine, validationVars, artifactVars, comparisonVars, treeVars>>
    \/ /\ machine = "validation" /\ Validation!Next
       /\ UNCHANGED <<machine, vars, artifactVars, comparisonVars, treeVars>>
    \/ /\ machine = "artifact" /\ Artifact!Next
       /\ UNCHANGED <<machine, vars, validationVars, comparisonVars, treeVars>>
    \/ /\ machine = "comparison" /\ Comparison!Next
       /\ UNCHANGED <<machine, vars, validationVars, artifactVars, treeVars>>
    \/ /\ machine = "tree" /\ Tree!Next
       /\ UNCHANGED <<machine, vars, validationVars, artifactVars, comparisonVars>>

MCSpec == /\ MCInit /\ [][MCNext]_MCVars
          /\ \A b \in Builds : WF_vars(machine = "publish" /\ (Script(b) \/ Exit(b)))
          /\ WF_treeVars(machine = "tree" /\ Tree!Run)
          /\ \A p \in Tree!Processes :
               WF_treeVars(machine = "tree" /\ p \in t_polite \cap t_termed /\ Tree!End(p))
-----------------------------------------------------------------------------
(* Properties of the instances, by the names of their modules *)

\* What a workload receipt on disk says is true, it never outlives the files it
\* has the hashes of, and no run leaves a frozen worktree behind.
ReceiptIsSound == Validation!ReceiptIsSound

\* An export is the pinned compiler's output for the text it read, and a
\* comparison accepts only such an artifact.
ArtifactIsReproducible == Artifact!ArtifactIsReproducible

\* MATCH is equality with upstream, a faithful run is never called a mismatch,
\* and PREFIX_MATCH claims no more than the prefix.
VerdictsAreExact == Comparison!VerdictsAreExact

\* A timeout ends the command's whole group and kills nobody who ends on SIGTERM.
TimeoutIsExact == Tree!TimeoutIsExact

\* No tool waits for ever: a build that waits for the lock gets it, and
\* run_bounded returns unless a process that left the group keeps the pipe.
ToolsReturn == LockIsPassedOn /\ Tree!Returns
=============================================================================
