-------------------------- MODULE ContractValidator --------------------------
(***************************************************************************)
(* validate() of formal/validate_blake3_pending_contract.py: the           *)
(* acquisition of descriptors and of a private tree, the run of the        *)
(* authenticated Yosys over a source that others may edit in place, and    *)
(* the ordered cleanup that must neither mask the outcome nor lose a       *)
(* failure of its own.  What validate_design concludes from the elaborated *)
(* netlist is module PendingContract; here a content of the source either  *)
(* satisfies the contract or does not.                                     *)
(*                                                                         *)
(* A fault is a call that fails, or a check that refuses for a reason      *)
(* outside this module (a missing program, a wrong size).  Interrupts come *)
(* between steps.  Edits are in place: a pathname that is replaced does    *)
(* not change what an open descriptor reads.                               *)
(***************************************************************************)
EXTENDS Naturals, Sequences

CONSTANTS Contents,     \* contents of a file
          Pinned,       \* the archive the manifest pins, and the Yosys in it
          Satisfying,   \* the sources that satisfy the contract
          MaxFaults, MaxEdits

ASSUME ContentsAssumption == Pinned \in Contents /\ Satisfying \subseteq Contents
ASSUME BoundsAssumption == MaxFaults \in Nat /\ MaxEdits \in Nat

VARIABLES phase, at,
          fds,         \* _CleanupTransaction._fds
          private,     \* _CleanupTransaction.private is set
          open, tree,  \* what really is open, and on disk
          outcome,     \* primary_outcome
          error,       \* the exception validate() will raise
          failures,    \* the actions of run() that failed
          report,      \* the failed actions the receipt, or the exception's notes, name
          file,        \* the three files the verdict depends on
          before,      \* source_before, archive_before, yosys_before
          identity,    \* snapshot_identity
          used,        \* history: what Yosys was, and what it read
          unread,      \* history: descriptors _open_stable failed to read
          rolled,      \* history: rollbacks that failed
          faults, edits

owned == <<fds, private, open, tree>>
facts == <<file, before, identity, used>>
history == <<unread, rolled>>
vars == <<phase, at, owned, outcome, error, failures, report, facts, history, faults, edits>>

FD_ORDER == <<"output", "source", "archive", "loader", "yosys", "boundary", "workspace", "parent">>
Slots == {FD_ORDER[i] : i \in DOMAIN FD_ORDER}

\* The steps of _validate_primary in order.  A step named after a slot acquires it.
Steps == <<"boundary", "archive", "source", "route", "parent", "private", "workspace",
           "extract", "audit", "seal", "loader", "yosys", "version", "output",
           "elaborate", "verify", "design">>
Step == Steps[at]

\* The slots that _open_stable opens.
Stably == {"boundary", "archive", "source", "loader", "yosys"}

\* What the except clause around a step turns into an outcome.
Caught(step) ==
    CASE step \in {"boundary", "archive", "source", "route"} -> {"RuntimeError"}
      [] step \in {"parent", "private", "workspace", "extract", "seal", "loader", "yosys"} ->
           {"OSError", "RuntimeError"}
      [] OTHER -> {}

\* The except clauses that copy a failed rollback into the receipt.
Attaches(step) == step \in {"boundary", "archive", "source", "parent", "private", "workspace"}

None == "none"
NotRead == [content |-> None, stamp |-> 0]
Verdict(valid, reason) == [valid |-> valid, reason |-> reason]
NoOutcome == Verdict(FALSE, None)
-----------------------------------------------------------------------------
InStep(step) == phase = "primary" /\ Step = step
Onward == at' = at + 1 /\ UNCHANGED <<phase, outcome, error>>
Return(valid, reason) ==
    /\ phase' = "cleanup" /\ outcome' = Verdict(valid, reason) /\ UNCHANGED <<at, error>>

\* An exception e leaves a step.
Leave(e) ==
    IF e \in Caught(Step) THEN Return(FALSE, Step)
    ELSE phase' = "cleanup" /\ error' = e /\ UNCHANGED <<at, outcome>>

Fault == faults < MaxFaults /\ faults' = faults + 1

\* A check of the step refuses, or a call of it raises, before anything is acquired.
\* _open_stable, _fd_path and the verification turn an OSError into a refusal.
Refuse ==
    /\ phase = "primary" /\ Fault /\ Step \notin {"output", "elaborate"}
    /\ Return(FALSE, Step)
    /\ UNCHANGED <<owned, failures, report, facts, history, edits>>
Raise(e) ==
    /\ phase = "primary" /\ Fault
    /\ e = "OSError" => Step \notin Stably \cup {"route", "verify"}
    /\ Leave(e)
    /\ UNCHANGED <<owned, failures, report, facts, history, edits>>

\* The descriptors whose identity is recorded (yosys stands for the loader's too).
Observed(slot) == slot \in {"archive", "source", "yosys"}

\* _open_stable, own_fd and open_fd when all goes well; the archive must have its digest.
Acquire(slot) ==
    /\ InStep(slot)
    /\ slot = "archive" => file["archive"].content = Pinned
    /\ open' = open \cup {slot} /\ fds' = fds \cup {slot}
    /\ before' = IF Observed(slot) THEN [before EXCEPT ![slot] = file[slot]] ELSE before
    /\ Onward
    /\ UNCHANGED <<private, tree, failures, report, file, identity, used, history, faults, edits>>

\* _open_stable refuses a digest and closes what it opened.
WrongDigest ==
    /\ InStep("archive") /\ file["archive"].content # Pinned
    /\ Return(FALSE, "archive")
    /\ UNCHANGED <<owned, failures, report, facts, history, faults, edits>>

\* _open_stable cannot stat or read what it opened: the OSError leaves it open.
Unreadable(slot) ==
    /\ slot \in Stably /\ InStep(slot) /\ Fault
    /\ open' = open \cup {slot} /\ unread' = unread \cup {slot}
    /\ Leave("OSError")
    /\ UNCHANGED <<fds, private, tree, failures, report, facts, rolled, edits>>

\* Mutant: the rollback closes a descriptor that stays registered.
AfterRollbackRegistered(slot) == fds \cup {slot}

\* Registration fails: what is registered after own_fd's rollback of slot.
AfterRollback(slot) == fds

\* _register_fd raises e and the rollback closes the descriptor, or fails to.
Unregistered(slot, e) ==
    /\ slot \in Slots /\ InStep(slot) /\ Fault
    /\ slot = "archive" => file["archive"].content = Pinned
    /\ Leave(e)
    /\ fds' = AfterRollback(slot)
    /\ \/ UNCHANGED <<open, report, rolled>>
       \/ /\ open' \in {open, open \cup {slot}} /\ rolled' = rolled \cup {slot}
          /\ report' = IF e \notin Caught(Step) \/ Attaches(Step) THEN {slot} ELSE report
    /\ UNCHANGED <<private, tree, failures, facts, unread, edits>>
-----------------------------------------------------------------------------
\* create_private_tree and the chmod; its registration may fail like a descriptor's.
CreatePrivateTree ==
    /\ InStep("private")
    /\ tree' = TRUE /\ private' = TRUE /\ Onward
    /\ UNCHANGED <<fds, open, failures, report, facts, history, faults, edits>>
UnregisteredTree(e) ==
    /\ InStep("private") /\ Fault
    /\ Leave(e)
    /\ \/ UNCHANGED <<tree, report, rolled>>
       \/ /\ tree' \in BOOLEAN /\ rolled' = rolled \cup {"private"} /\ report' = {"private"}
    /\ UNCHANGED <<fds, private, open, failures, facts, unread, edits>>

Touched(f, content) == [content |-> content, stamp |-> file[f].stamp + 1]

\* The steps that only look: _fd_path, and the audit of the snapshot's dependencies.
Look(step) ==
    /\ step \in {"route", "audit"} /\ InStep(step) /\ Onward
    /\ UNCHANGED <<owned, failures, report, facts, history, faults, edits>>

\* _extract_authenticated_archive: the snapshot is what the archive holds now.
Extract ==
    /\ InStep("extract") /\ Onward
    /\ file' = [file EXCEPT !["yosys"] = Touched("yosys", file["archive"].content)]
    /\ UNCHANGED <<owned, failures, report, before, identity, used, history, faults, edits>>

\* _tree_identity hashes the snapshot and, by its chmod, touches every file of it.
Seal ==
    /\ InStep("seal") /\ Onward
    /\ identity' = file["yosys"].content
    /\ file' = [file EXCEPT !["yosys"] = Touched("yosys", @.content)]
    /\ UNCHANGED <<owned, failures, report, before, used, history, faults, edits>>

\* _verify_fd_unchanged: the digest and the whole _identity, times included.
Stable(f) == file[f] = before[f]

Version ==
    /\ InStep("version")
    /\ IF Stable("archive") THEN Onward ELSE Return(FALSE, "version")
    /\ UNCHANGED <<owned, failures, report, facts, history, faults, edits>>

\* Yosys reads the source through its descriptor.
Elaborate ==
    /\ InStep("elaborate") /\ Onward
    /\ used' = [yosys |-> file["yosys"].content, source |-> file["source"].content]
    /\ UNCHANGED <<owned, failures, report, file, before, identity, history, faults, edits>>

\* The descriptors are verified, then the snapshot is hashed again.
Verify ==
    /\ InStep("verify")
    /\ file' = [file EXCEPT !["yosys"] = Touched("yosys", @.content)]
    /\ IF /\ \A f \in {"archive", "source", "yosys"} : Stable(f)
          /\ identity = file["yosys"].content
       THEN Onward ELSE Return(FALSE, "verify")
    /\ UNCHANGED <<owned, failures, report, before, identity, used, history, faults, edits>>

\* The netlist is read from its descriptor and judged.
Design ==
    /\ InStep("design") /\ Return(used.source \in Satisfying, "design")
    /\ UNCHANGED <<owned, failures, report, facts, history, faults, edits>>
-----------------------------------------------------------------------------
\* _CleanupTransaction.run: the owned descriptors in FD_ORDER, then the tree.
NextToClose == Head(SelectSeq(FD_ORDER, LAMBDA slot : slot \in fds))

CloseOwned ==
    /\ phase = "cleanup" /\ fds # {}
    /\ fds' = fds \ {NextToClose}
    /\ \/ /\ open' = open \ {NextToClose} /\ UNCHANGED <<failures, faults>>
       \/ /\ Fault /\ failures' = failures \cup {NextToClose}
          /\ open' \in {open, open \ {NextToClose}}
    /\ UNCHANGED <<phase, at, private, tree, outcome, error, report, facts, history, edits>>

TurnOfTree == fds = {}

RemovePrivateTree ==
    /\ phase = "cleanup" /\ TurnOfTree /\ private
    /\ private' = FALSE
    /\ \/ tree' = FALSE /\ UNCHANGED <<failures, faults>>
       \/ Fault /\ failures' = failures \cup {"private"} /\ tree' \in BOOLEAN
    /\ UNCHANGED <<phase, at, fds, open, outcome, error, report, facts, history, edits>>

\* An interrupt between two actions of the pass: _preserve_primary_across_cleanup catches it too.
InterruptCleanup ==
    /\ phase = "cleanup" /\ Fault
    /\ phase' = "preserve" /\ failures' = failures \cup {"interrupt"}
    /\ UNCHANGED <<at, owned, outcome, error, report, facts, history, edits>>

RunEnds ==
    /\ phase = "cleanup" /\ fds = {} /\ (TurnOfTree => ~private)
    /\ phase' = "preserve"
    /\ UNCHANGED <<at, owned, outcome, error, failures, report, facts, history, faults, edits>>

Primary == error # None \/ ~outcome.valid

\* What becomes of the outcome when cleanup() raised.  The list that validate() has
\* returned already is changed in place.
Final == IF Primary THEN outcome ELSE Verdict(FALSE, "cleanup")

Preserve ==
    /\ phase = "preserve" /\ phase' = "done"
    /\ IF failures = {} THEN UNCHANGED <<outcome, report>>
       ELSE /\ outcome' = Final
            /\ report' = IF error # None THEN report \cup failures ELSE failures
    /\ UNCHANGED <<at, owned, error, failures, facts, history, faults, edits>>
-----------------------------------------------------------------------------
\* Somebody writes to a file; the snapshot only once it is sealed (the private tree
\* is out of reach of others before, and the code says so).
Edit(f, content) ==
    /\ edits < MaxEdits /\ edits' = edits + 1 /\ phase = "primary"
    /\ f = "yosys" => identity # None
    /\ file' = [file EXCEPT ![f] = Touched(f, content)]
    /\ UNCHANGED <<phase, at, owned, outcome, error, failures, report, before, identity, used,
                   history, faults>>

Init ==
    /\ phase = "primary" /\ at = 1
    /\ fds = {} /\ private = FALSE /\ open = {} /\ tree = FALSE
    /\ outcome = NoOutcome /\ error = None /\ failures = {} /\ report = {}
    /\ \E source, archive \in Contents :
          file = [source |-> [content |-> source, stamp |-> 1],
                  archive |-> [content |-> archive, stamp |-> 1],
                  yosys |-> NotRead]
    /\ before = [source |-> NotRead, archive |-> NotRead, yosys |-> NotRead]
    /\ identity = None /\ used = [yosys |-> None, source |-> None]
    /\ unread = {} /\ rolled = {} /\ faults = 0 /\ edits = 0

Next ==
    \/ Refuse \/ WrongDigest
    \/ \E e \in {"OSError", "other"} : Raise(e)
    \/ \E slot \in Slots : Acquire(slot) \/ Unreadable(slot)
    \/ \E slot \in Slots, e \in {"RuntimeError", "other"} : Unregistered(slot, e)
    \/ \E e \in {"RuntimeError", "other"} : UnregisteredTree(e)
    \/ CreatePrivateTree \/ (\E step \in {"route", "audit"} : Look(step))
    \/ Extract \/ Seal \/ Version \/ Elaborate \/ Verify \/ Design
    \/ CloseOwned \/ RemovePrivateTree \/ InterruptCleanup \/ RunEnds \/ Preserve
    \/ \E f \in {"source", "archive", "yosys"}, content \in Contents : Edit(f, content)

Spec == Init /\ [][Next]_vars
-----------------------------------------------------------------------------
Done == phase = "done"
Valid == outcome.valid

\* The types of the state.
TypeOK ==
    /\ phase \in {"primary", "cleanup", "preserve", "done"} /\ at \in DOMAIN Steps
    /\ outcome \in [valid : BOOLEAN, reason : {Steps[i] : i \in DOMAIN Steps} \cup {None, "cleanup"}]
    /\ error \in {None, "OSError", "RuntimeError", "other"}
    /\ open \subseteq Slots /\ fds \subseteq Slots /\ {private, tree} \subseteq BOOLEAN
    /\ (phase # "primary" => (error = None) # (outcome = NoOutcome))

\* What the transaction owns is there: neither a rollback nor the ordered pass ever
\* closes a descriptor twice (its number may be somebody else's by then) or removes
\* a tree that is gone.
OwnedIsThere == fds \subseteq open /\ (private => tree)

\* The verdict "valid" is about the content whose digest the receipt records: Yosys
\* was the pinned one and read that content, whatever was edited meanwhile, undone
\* edits included.
ValidIsFaithful ==
    Done /\ Valid => /\ used.source = before["source"].content /\ used.source \in Satisfying
                     /\ used.yosys = Pinned

\* Nobody disturbs the run and nothing fails: a satisfying source is found valid.
\* (The run itself touches the snapshot; it must not take that for a change.)
UndisturbedRunPasses ==
    /\ Done /\ faults = 0 /\ edits = 0
    /\ file["source"].content \in Satisfying /\ file["archive"].content = Pinned
    => Valid

\* No receipt says "valid" unless every descriptor was closed and the tree is gone.
ValidMeansClean == Done /\ Valid => open = {} /\ ~tree /\ failures = {}

\* Whatever outlives validate() is named by the report, unless a failed read or a
\* failed rollback left it, or an interrupt ended the pass (which is reported).
NoSilentLeak ==
    Done => LET left == open \cup (IF tree THEN {"private"} ELSE {})
            IN left \ (unread \cup rolled) # {} =>
                  "interrupt" \in report \/ left \ (unread \cup rolled) \subseteq report

\* A valid verdict is about the recorded content and leaves nothing behind, an
\* undisturbed run reaches it, and no failure of the cleanup goes unreported.
VerdictIsSound ==
    /\ TypeOK /\ OwnedIsThere /\ ValidIsFaithful /\ UndisturbedRunPasses
    /\ ValidMeansClean /\ NoSilentLeak
=============================================================================
