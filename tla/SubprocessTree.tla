---------------------------- MODULE SubprocessTree ----------------------------
(***************************************************************************)
(* run_bounded of formal/subprocess_tree.py: a command in a session of its *)
(* own, SIGTERM to its process group when the time is up, SIGKILL when the *)
(* grace period is over, and communicate(), which returns once the command *)
(* is reaped and nobody holds the pipe.  The command's processes fork,     *)
(* redirect their output, exit, react to SIGTERM or ignore it at any time. *)
(***************************************************************************)
EXTENDS FiniteSets

CONSTANTS Descendants, Child   \* processes; Child is the command itself

\* What the constants must satisfy.
TreeAssumption == Child \notin Descendants

VARIABLES pc, started, alive,
          group,     \* the members of the command's process group
          holders,   \* the processes whose output is the pipe
          polite,    \* the processes that end on SIGTERM, within the grace period
          termed,    \* the processes that got SIGTERM
          killed,    \* history: the processes that SIGKILL ended
          graceOver

Processes == {Child} \cup Descendants
procs == <<started, alive, group, holders, polite>>
vars == <<pc, procs, termed, killed, graceOver>>
-----------------------------------------------------------------------------
Fork(p, q) ==
    /\ p \in alive /\ q \in Descendants \ started
    /\ started' = started \cup {q} /\ alive' = alive \cup {q}
    /\ \/ group' = IF p \in group THEN group \cup {q} ELSE group
       \/ group' = group      \* it moves to a group of its own
    /\ \/ holders' = IF p \in holders THEN holders \cup {q} ELSE holders
       \/ holders' = holders
    /\ polite' \in {polite, polite \cup {q}}
    /\ UNCHANGED <<pc, termed, killed, graceOver>>

\* A process ends by itself or, when it is polite, because of SIGTERM.
End(p) ==
    /\ p \in alive /\ alive' = alive \ {p} /\ holders' = holders \ {p}
    /\ UNCHANGED <<pc, started, group, polite, termed, killed, graceOver>>

Communicated == Child \notin alive /\ holders = {}
-----------------------------------------------------------------------------
Complete ==
    /\ pc = "communicate" /\ Communicated /\ pc' = "returned"
    /\ UNCHANGED <<procs, termed, killed, graceOver>>

\* The first communicate() times out: _signal_group(SIGTERM).
Timeout ==
    /\ pc = "communicate" /\ ~Communicated /\ pc' = "grace"
    /\ termed' = group \cap alive
    /\ UNCHANGED <<procs, killed, graceOver>>

\* kill_deadline passes: by then every polite process has reacted.
GraceEnds ==
    /\ pc = "grace" /\ ~graceOver /\ termed \cap polite \cap alive = {} /\ graceOver' = TRUE
    /\ UNCHANGED <<pc, procs, termed, killed>>

\* Mutant: no sleep for the rest of the grace period when the command has ended.
MayKillEarly == Communicated \/ graceOver
\* The second communicate() and the sleep after it both last to kill_deadline.
MayKill == graceOver

\* _signal_group(SIGKILL); a group with nobody in it is a ProcessLookupError, ignored.
Targets == group \cap alive

Kill ==
    /\ pc = "grace" /\ MayKill /\ pc' = "drain"
    /\ alive' = alive \ Targets /\ holders' = holders \ Targets
    /\ killed' = Targets
    /\ UNCHANGED <<started, group, polite, termed, graceOver>>

\* The last communicate() has no timeout.
Raise ==
    /\ pc = "drain" /\ Communicated /\ pc' = "raised"
    /\ UNCHANGED <<procs, termed, killed, graceOver>>

Init ==
    /\ pc = "communicate" /\ started = {Child} /\ alive = {Child} /\ group = {Child}
    /\ holders = {Child} /\ polite \in {{}, {Child}}
    /\ termed = {} /\ killed = {} /\ graceOver = FALSE

Run == Complete \/ Timeout \/ GraceEnds \/ Kill \/ Raise
Next == \/ Run
        \/ \E p \in Processes : End(p) \/ \E q \in Descendants : Fork(p, q)

\* The clock and run_bounded go on; a polite process that got SIGTERM ends.  Nothing is
\* assumed of the others.
Spec == /\ Init /\ [][Next]_vars /\ WF_vars(Run)
        /\ \A p \in Processes : WF_vars(p \in polite \cap termed /\ End(p))
-----------------------------------------------------------------------------
(* Properties *)

\* After a timeout nobody of the command's group is left, however it forked meanwhile.
GroupIsGone == pc \in {"drain", "raised"} => group \cap alive = {}

\* A process that got SIGTERM and ends on it in time is never killed, not even when the
\* command itself is gone already.
GraceIsKept == killed \cap termed \cap polite = {}

\* run_bounded returns: no descendant in the group that keeps the pipe, or ignores
\* SIGTERM, can hold it up for ever; only one that left the group with the pipe can.
Returns == <>(pc \in {"returned", "raised"} \/ holders \ group # {})

\* The timeout spares who reacts to it and leaves nobody of the group.
TimeoutIsExact == GroupIsGone /\ GraceIsKept
=============================================================================
