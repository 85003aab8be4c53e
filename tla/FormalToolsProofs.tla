------------------------- MODULE FormalToolsProofs --------------------------
(***************************************************************************)
(* Proofs about the tools that guard the formal evidence:                  *)
(* ContractValidator, for any contents, faults, interrupts and edits;      *)
(* MutationGate and PendingGate, for any edits, breakdowns and outcomes of *)
(* their tools.                                                            *)
(***************************************************************************)
EXTENDS MCFormalTools, Integers, TLAPS

-----------------------------------------------------------------------------
(* ContractValidator                                                       *)

Names == {"boundary", "archive", "source", "route", "parent", "private", "workspace",
          "extract", "audit", "seal", "loader", "yosys", "version", "output", "elaborate",
          "verify", "design"}
Files == {"source", "archive", "yosys"}
Observation == [content : Contents \cup {"none"}, stamp : Nat]
InPrimary == phase = "primary"

\* The steps of _validate_primary by name and by place.
LEMMA StepNames ==
  /\ \A i \in 1..17 : Steps[i] \in Names
  /\ DOMAIN Steps = 1..17
  /\ {Steps[i] : i \in DOMAIN Steps} = Names
BY DEF Steps, Names

LEMMA StepPlaces ==
  ASSUME NEW i \in 1..17
  PROVE  /\ Steps[i] = "archive" <=> i = 2
         /\ Steps[i] = "source" <=> i = 3
         /\ Steps[i] = "private" <=> i = 6
         /\ Steps[i] = "extract" <=> i = 8
         /\ Steps[i] = "seal" <=> i = 10
         /\ Steps[i] = "yosys" <=> i = 12
         /\ Steps[i] = "elaborate" <=> i = 15
         /\ Steps[i] = "verify" <=> i = 16
         /\ Steps[i] = "design" <=> i = 17
BY DEF Steps

ContractTypes ==
    /\ phase \in {"primary", "cleanup", "preserve", "done"} /\ at \in 1..17
    /\ outcome \in [valid : BOOLEAN, reason : Names \cup {"none", "cleanup"}]
    /\ error \in {"none", "OSError", "RuntimeError", "other"}
    /\ open \subseteq Slots /\ fds \subseteq Slots
    /\ private \in BOOLEAN /\ tree \in BOOLEAN
    /\ file \in [Files -> Observation] /\ before \in [Files -> Observation]
    /\ faults \in Nat /\ edits \in Nat

\* A run of _validate_primary that goes on has had no failure; one that ended
\* has an outcome or an exception, never both, and a valid outcome only after
\* the last step.
OutcomeIsOne ==
    /\ InPrimary => /\ outcome = NoOutcome /\ error = "none"
                    /\ failures = {} /\ unread = {} /\ rolled = {}
    /\ ~InPrimary => \/ error = "none" /\ outcome.reason # "none"
                     \/ error # "none" /\ outcome = NoOutcome
    /\ outcome.valid => unread = {} /\ rolled = {}

\* Everything that is open is owned, or there is a record of why it is not.
Accounted ==
    /\ fds \subseteq open /\ (private => tree)
    /\ open \subseteq fds \cup unread \cup rolled \cup failures
    /\ tree => private \/ "private" \in rolled \cup failures
    /\ InPrimary /\ at <= 6 => ~private
    /\ phase \in {"preserve", "done"} => (fds = {} /\ ~private) \/ "interrupt" \in failures
    /\ phase = "done" => failures \subseteq report
    /\ phase = "done" /\ outcome.valid => failures = {}

\* A file whose stamp is the recorded one has not been touched in between.
Unmoved(f) == file[f].stamp = before[f].stamp
Known(f) == before[f].stamp <= file[f].stamp /\ (Unmoved(f) => file[f] = before[f])

\* Where the bytes come from, from one step to the next: an archive that is
\* still unmoved was the pinned one when it was extracted, sealed and run, and
\* Yosys read the source that is recorded if that is unmoved too.
BytesAreTraced ==
    InPrimary =>
        /\ at > 2 => Known("archive") /\ before["archive"].content = Pinned
        /\ at > 3 => Known("source")
        /\ at > 12 => Known("yosys")
        /\ at <= 10 => identity = "none"
        /\ at \in 9..10 /\ Unmoved("archive") => file["yosys"].content = Pinned
        /\ at \in 11..16 /\ Unmoved("archive") => identity = Pinned
        /\ at = 16 /\ Unmoved("source") => used.source = before["source"].content
        /\ at = 16 /\ Unmoved("yosys") => used.yosys = before["yosys"].content
        /\ at = 17 => used.source = before["source"].content /\ used.yosys = Pinned

VerdictIsTraced ==
    outcome.valid => /\ used.source = before["source"].content
                       /\ used.source \in Satisfying /\ used.yosys = Pinned

\* Nobody interferes.
Undisturbed ==
    /\ faults = 0 /\ edits = 0
    /\ file["source"].content \in Satisfying /\ file["archive"].content = Pinned

RunIsQuiet ==
    Undisturbed =>
        /\ failures = {} /\ (~InPrimary => outcome.valid)
        /\ InPrimary => /\ at > 2 => Unmoved("archive")
                        /\ at > 3 => Unmoved("source")
                        /\ at > 10 => identity = file["yosys"].content
                        /\ at \in 13..16 => Unmoved("yosys")
                        /\ at > 15 => used.source = file["source"].content

VInv ==
    /\ ContractTypes
    /\ OutcomeIsOne
    /\ Accounted
    /\ BytesAreTraced
    /\ VerdictIsTraced
    /\ RunIsQuiet

LEMMA ContractInitInv == Init => VInv
<1> SUFFICES ASSUME Init PROVE VInv
  OBVIOUS
<1> USE DEF Init, None, InPrimary
<1>1. ContractTypes
  <2>1. file \in [Files -> Observation] /\ before \in [Files -> Observation]
    BY DEF Files, Observation, NotRead
  <2>2. outcome \in [valid : BOOLEAN, reason : Names \cup {"none", "cleanup"}]
    BY Zenon DEF NoOutcome, Verdict
  <2>3. private \in BOOLEAN /\ tree \in BOOLEAN
    BY Zenon
  <2> QED
    BY <2>1, <2>2, <2>3 DEF ContractTypes
<1>2. ~outcome.valid
  BY DEF NoOutcome, Verdict
<1>3. OutcomeIsOne /\ VerdictIsTraced
  BY <1>2 DEF OutcomeIsOne, VerdictIsTraced
<1>4. Accounted
  BY DEF Accounted
<1>5. BytesAreTraced
  BY DEF BytesAreTraced
<1>6. RunIsQuiet
  BY DEF RunIsQuiet
<1> QED
  BY <1>1, <1>3, <1>4, <1>5, <1>6 DEF VInv

LEMMA ContractInvSound == VInv => VerdictIsSound
<1> SUFFICES ASSUME VInv PROVE VerdictIsSound
  OBVIOUS
<1> USE DEF VInv
<1>1. outcome = NoOutcome => outcome.reason = "none" /\ ~outcome.valid
  BY DEF NoOutcome, Verdict, None
<1>2. TypeOK
  <2>1. ~InPrimary => (error = "none") # (outcome = NoOutcome)
    BY <1>1 DEF OutcomeIsOne
  <2> QED
    BY <2>1, StepNames DEF TypeOK, ContractTypes, None, InPrimary
<1>3. OwnedIsThere
  BY DEF OwnedIsThere, Accounted
<1>4. ValidIsFaithful
  BY DEF ValidIsFaithful, Valid, VerdictIsTraced
<1>5. UndisturbedRunPasses
  BY DEF UndisturbedRunPasses, Valid, Done, RunIsQuiet, Undisturbed, InPrimary
<1>6. ValidMeansClean
  <2> SUFFICES ASSUME phase = "done", outcome.valid PROVE open = {} /\ ~tree /\ failures = {}
    BY DEF ValidMeansClean, Done, Valid
  <2>1. failures = {} /\ unread = {} /\ rolled = {}
    BY DEF Accounted, OutcomeIsOne
  <2> QED
    BY <2>1 DEF Accounted
<1>7. NoSilentLeak
  <2> SUFFICES ASSUME phase = "done", "interrupt" \notin report
               PROVE  /\ open \ (unread \cup rolled) \subseteq report
                      /\ tree => "private" \in unread \cup rolled \cup report
    BY DEF NoSilentLeak, Done
  <2> QED
    BY DEF Accounted
<1> QED
  BY <1>2, <1>3, <1>4, <1>5, <1>6, <1>7 DEF VerdictIsSound

\* _validate_primary ends without a valid verdict, and something interfered.
LEMMA LeaveInv ==
  ASSUME VInv, InPrimary, phase' = "cleanup", at' = at,
         \/ error' = error /\ outcome' = Verdict(FALSE, Step)
         \/ error' \in {"OSError", "RuntimeError", "other"} /\ outcome' = outcome,
         fds' = fds, private' = private, failures' = failures,
         open \subseteq open', open' \subseteq Slots,
         open' \subseteq open \cup unread' \cup rolled',
         tree' \in BOOLEAN, private => tree', tree' => tree \/ "private" \in rolled',
         file' \in [Files -> Observation], before' = before, edits' = edits,
         faults' \in Nat, ~Undisturbed'
  PROVE  VInv'
<1> USE DEF VInv
<1>1. Step \in Names /\ "none" \notin Names
  BY StepNames DEF ContractTypes, Step, Names
<1>2. ~outcome.valid /\ error = "none" /\ failures = {} /\ unread = {} /\ rolled = {}
      /\ outcome = NoOutcome
  BY DEF OutcomeIsOne, NoOutcome, Verdict
<1>3. /\ ~outcome'.valid
      /\ outcome' \in [valid : BOOLEAN, reason : Names \cup {"none", "cleanup"}]
      /\ \/ error' = "none" /\ outcome'.reason # "none"
         \/ error' # "none" /\ outcome' = NoOutcome
  <2>1. CASE error' = error /\ outcome' = Verdict(FALSE, Step)
    <3>1. outcome' \in [valid : BOOLEAN, reason : Names \cup {"none", "cleanup"}]
      BY <1>1, <2>1, Zenon DEF Verdict
    <3> QED
      BY <1>1, <1>2, <2>1, <3>1 DEF Verdict
  <2>2. CASE error' \in {"OSError", "RuntimeError", "other"} /\ outcome' = outcome
    BY <1>2, <2>2 DEF ContractTypes
  <2> QED
    BY <2>1, <2>2
<1>4. ContractTypes'
  BY <1>3 DEF ContractTypes
<1>5. OutcomeIsOne' /\ VerdictIsTraced'
  BY <1>3 DEF OutcomeIsOne, VerdictIsTraced, InPrimary, NoOutcome, Verdict
<1>6. Accounted'
  BY <1>2 DEF Accounted, InPrimary
<1>7. BytesAreTraced' /\ RunIsQuiet'
  BY DEF BytesAreTraced, RunIsQuiet, InPrimary
<1> QED
  BY <1>4, <1>5, <1>6, <1>7

LEMMA RefuseInv ==
  ASSUME VInv, Refuse \/ WrongDigest \/ (\E e \in {"OSError", "other"} : Raise(e))
  PROVE  VInv'
<1> USE DEF owned, facts, history
<1>1. /\ InPrimary /\ phase' = "cleanup" /\ at' = at
      /\ \/ error' = error /\ outcome' = Verdict(FALSE, Step)
         \/ error' \in {"OSError", "RuntimeError", "other"} /\ outcome' = outcome
      /\ UNCHANGED <<fds, private, open, tree, failures, file, before, edits,
                     unread, rolled>>
  BY DEF Refuse, WrongDigest, Raise, Return, Leave,
     InStep, InPrimary
<1>2. faults' \in Nat /\ ~Undisturbed'
  <2>1. faults \in Nat
    BY DEF VInv, ContractTypes
  <2>2. CASE faults' = faults + 1
    BY <2>1, <2>2 DEF Undisturbed
  <2>3. CASE WrongDigest
    <3>1. faults' = faults /\ file'["archive"].content # Pinned
      BY <2>3, <1>1 DEF WrongDigest
    <3> QED
      BY <2>1, <3>1 DEF Undisturbed
  <2> QED
    BY <2>2, <2>3 DEF Refuse, Raise, Fault
<1> QED
  BY <1>1, <1>2, LeaveInv DEF VInv, ContractTypes, Accounted

LEMMA UnreadableInv ==
  ASSUME VInv, NEW slot \in Slots,
         \/ Unreadable(slot)
         \/ \E e \in {"RuntimeError", "other"} : Unregistered(slot, e)
  PROVE  VInv'
<1> USE DEF owned, facts, history
<1>1. /\ InPrimary /\ phase' = "cleanup" /\ at' = at
      /\ \/ error' = error /\ outcome' = Verdict(FALSE, Step)
         \/ error' \in {"OSError", "RuntimeError", "other"} /\ outcome' = outcome
      /\ UNCHANGED <<fds, private, tree, failures, file, before, edits>>
  BY DEF Unreadable, Unregistered, Return, Leave,
     InStep, AfterRollback, InPrimary
<1>2. faults' \in Nat /\ ~Undisturbed'
  BY <1>1 DEF VInv, ContractTypes, Unreadable, Unregistered,
     Fault, Undisturbed
<1>3. \/ UNCHANGED open
      \/ open' = open \cup {slot} /\ slot \in unread' \cup rolled'
  BY DEF Unreadable, Unregistered
<1> QED
  BY <1>1, <1>2, <1>3, LeaveInv DEF VInv, ContractTypes, Accounted

LEMMA UnregisteredTreeInv ==
  ASSUME VInv, NEW e \in {"RuntimeError", "other"}, UnregisteredTree(e)
  PROVE  VInv'
<1> USE DEF owned, facts, history
<1>1. /\ InPrimary /\ phase' = "cleanup" /\ at' = at
      /\ \/ error' = error /\ outcome' = Verdict(FALSE, Step)
         \/ error' \in {"OSError", "RuntimeError", "other"} /\ outcome' = outcome
      /\ UNCHANGED <<fds, private, open, failures, file, before, edits>>
      /\ tree' = tree \/ (tree' \in BOOLEAN /\ "private" \in rolled')
  BY DEF UnregisteredTree, Return, Leave,
     InStep, InPrimary
<1>2. faults' \in Nat /\ ~Undisturbed'
  BY <1>1 DEF VInv, ContractTypes, UnregisteredTree, Fault, Undisturbed
<1>3. at = 6
  BY StepPlaces DEF VInv, ContractTypes, UnregisteredTree, InStep, Step
<1>4. ~private /\ tree \in BOOLEAN
  BY <1>1, <1>3 DEF VInv, Accounted, ContractTypes
<1>5. tree' \in BOOLEAN /\ (private => tree') /\ (tree' => tree \/ "private" \in rolled')
  <2>1. CASE tree' = tree
    BY <1>4, <2>1
  <2>2. CASE tree' \in BOOLEAN /\ "private" \in rolled'
    BY <1>4, <2>2, Zenon
  <2> QED
    BY <1>1, <2>1, <2>2
<1>6. open' \subseteq Slots /\ file' \in [Files -> Observation]
  BY <1>1 DEF VInv, ContractTypes
<1> QED
  BY <1>1, <1>2, <1>5, <1>6, LeaveInv

\* A step of _validate_primary that goes on.
LEMMA OnwardInv ==
  ASSUME VInv, InPrimary, Onward, at < 17,
         UNCHANGED <<failures, unread, rolled, faults, edits>>,
         fds' \subseteq Slots, open' = fds',
         \/ UNCHANGED <<private, tree>>
         \/ at = 6 /\ private' = TRUE /\ tree' = TRUE,
         file' \in [Files -> Observation], before' \in [Files -> Observation],
         BytesAreTraced', RunIsQuiet'
  PROVE  VInv'
<1> USE DEF VInv
<1>1. phase' = phase /\ at' = at + 1 /\ UNCHANGED <<outcome, error>>
  BY DEF Onward
<1>2. private' \in BOOLEAN /\ tree' \in BOOLEAN
  BY DEF ContractTypes
<1>3. ContractTypes'
  BY <1>1, <1>2 DEF ContractTypes
<1>4. ~outcome'.valid
  BY <1>1 DEF OutcomeIsOne, NoOutcome, Verdict
<1>5. OutcomeIsOne' /\ VerdictIsTraced'
  BY <1>1, <1>4 DEF OutcomeIsOne, VerdictIsTraced, InPrimary
<1>6. Accounted'
  <2>1. failures = {} /\ unread = {} /\ rolled = {} /\ at \in 1..17
    BY DEF OutcomeIsOne, ContractTypes
  <2>2. (private' => tree') /\ (tree' => private')
    BY <2>1 DEF Accounted
  <2>3. at' <= 6 => ~private'
    BY <1>1, <2>1 DEF Accounted
  <2> QED
    BY <1>1, <2>1, <2>2, <2>3 DEF Accounted, InPrimary
<1> QED
  BY <1>3, <1>5, <1>6

\* While _validate_primary goes on, what is open is what is owned.
LEMMA OpenIsOwned == ASSUME VInv, InPrimary PROVE open = fds
BY DEF VInv, Accounted, OutcomeIsOne

\* The steps that change none of the facts: bytes and quiet stay, one place on.
LEMMA PlainStepInv ==
  ASSUME VInv, InPrimary, at' = at + 1, at \notin {2, 3, 8, 10, 12, 15, 16, 17},
         phase' = phase,
         UNCHANGED <<file, before, identity, used, failures, faults, edits>>
  PROVE  BytesAreTraced' /\ RunIsQuiet'
<1>1. at \in 1..17
  BY DEF VInv, ContractTypes
<1>2. BytesAreTraced'
  BY <1>1 DEF VInv, BytesAreTraced, InPrimary, Known, Unmoved
<1>3. RunIsQuiet'
  BY <1>1 DEF VInv, RunIsQuiet, InPrimary, Unmoved, Undisturbed
<1> QED
  BY <1>2, <1>3

LEMMA AcquireInv ==
  ASSUME VInv, NEW slot \in Slots, Acquire(slot)
  PROVE  VInv'
<1> USE DEF history
<1>1. /\ InPrimary /\ Steps[at] = slot /\ Onward
      /\ slot = "archive" => file["archive"].content = Pinned
      /\ open' = open \cup {slot} /\ fds' = fds \cup {slot}
      /\ before' = IF slot \in Files THEN [before EXCEPT ![slot] = file[slot]] ELSE before
      /\ UNCHANGED <<private, tree, failures, file, identity, used, unread, rolled,
                     faults, edits>>
  BY DEF Acquire, InStep, Step, Observed, Files, InPrimary
<1>2. /\ at \in 1..17 /\ file \in [Files -> Observation] /\ before \in [Files -> Observation]
      /\ phase' = phase /\ at' = at + 1
  BY <1>1 DEF VInv, ContractTypes, Onward
<1>3. /\ slot = "archive" <=> at = 2
      /\ slot = "source" <=> at = 3
      /\ slot = "yosys" <=> at = 12
      /\ at \notin {8, 10, 15, 16, 17}
  BY <1>1, <1>2, StepPlaces DEF Slots, FD_ORDER
<1>4. before' \in [Files -> Observation]
  BY <1>1, <1>2
<1>5. BytesAreTraced' /\ RunIsQuiet'
  <2>1. CASE slot \notin Files
    BY <1>1, <1>2, <1>3, <2>1, PlainStepInv DEF Files
  <2>2. CASE slot \in Files
    <3>1. /\ before'[slot] = file[slot]
          /\ \A f \in Files : f # slot => before'[f] = before[f]
      BY <1>1, <1>2, <2>2
    <3>2. file[slot].stamp \in Nat
      BY <1>2, <2>2 DEF Observation
    <3>3. BytesAreTraced'
      BY <1>1, <1>2, <1>3, <2>2, <3>1, <3>2 DEF VInv, BytesAreTraced, InPrimary, Known, Unmoved, Files
    <3>4. RunIsQuiet'
      BY <1>1, <1>2, <1>3, <2>2, <3>1 DEF VInv, RunIsQuiet, InPrimary, Unmoved, Undisturbed, Files
    <3> QED
      BY <3>3, <3>4
  <2> QED
    BY <2>1, <2>2
<1>6. fds' \subseteq Slots /\ open' = fds'
  BY <1>1, OpenIsOwned DEF VInv, ContractTypes
<1> QED
  BY <1>1, <1>2, <1>3, <1>4, <1>5, <1>6, OnwardInv

LEMMA TreeAndLookInv ==
  ASSUME VInv,
         \/ CreatePrivateTree
         \/ \E step \in {"route", "audit"} : Look(step)
         \/ Version /\ Stable("archive")
  PROVE  VInv'
<1> USE DEF owned, facts, history
<1>1. /\ InPrimary /\ Steps[at] \in {"private", "route", "audit", "version"}
      /\ Onward
      /\ UNCHANGED <<fds, open, failures, file, before, identity, used, unread,
                     rolled, faults, edits>>
      /\ \/ UNCHANGED <<private, tree>>
         \/ Steps[at] = "private" /\ private' = TRUE /\ tree' = TRUE
  BY DEF CreatePrivateTree, Look, Version, InStep,
     Step, InPrimary
<1>2. at \in 1..17 /\ phase' = phase /\ at' = at + 1
  BY <1>1 DEF VInv, ContractTypes, Onward
<1>3. at \notin {2, 3, 8, 10, 12, 15, 16, 17} /\ (Steps[at] = "private" => at = 6)
  BY <1>1, <1>2, StepPlaces
<1>4. BytesAreTraced' /\ RunIsQuiet'
  BY <1>1, <1>2, <1>3, PlainStepInv
<1>5. UNCHANGED <<private, tree>> \/ (at = 6 /\ private' = TRUE /\ tree' = TRUE)
  BY <1>1, <1>3, Zenon
<1>6. fds' \subseteq Slots /\ open' = fds' /\ at < 17
  BY <1>1, <1>2, <1>3, OpenIsOwned DEF VInv, ContractTypes
<1>7. file' \in [Files -> Observation] /\ before' \in [Files -> Observation]
  BY <1>1 DEF VInv, ContractTypes
<1> QED
  BY <1>1, <1>4, <1>5, <1>6, <1>7, OnwardInv

\* The archive moved: the check refuses, and somebody did move it.
LEMMA VersionInv ==
  ASSUME VInv, Version PROVE VInv'
<1>1. CASE Stable("archive")
  BY <1>1, TreeAndLookInv
<1>2. CASE ~Stable("archive")
  <2> USE DEF owned, facts, history
  <2>1. /\ InPrimary /\ Steps[at] = "version"
        /\ Return(FALSE, "version") /\ Step = "version"
        /\ UNCHANGED <<fds, private, open, tree, failures, file, before, edits,
                       unread, rolled, faults>>
    BY <1>2 DEF Version, InStep, Step, InPrimary
  <2>2. at = 13
    BY <2>1 DEF VInv, ContractTypes, Steps
  <2>3. ~Undisturbed
    BY <1>2, <2>1, <2>2 DEF VInv, BytesAreTraced, RunIsQuiet, Known, Stable
  <2>4. ~Undisturbed'
    BY <2>1, <2>3 DEF Undisturbed
  <2> QED
    BY <2>1, <2>4, LeaveInv DEF VInv, ContractTypes, Accounted, Return
<1> QED
  BY <1>1, <1>2

\* What a touch leaves: a new stamp, for the file it touches.
LEMMA Touch ==
  ASSUME VInv, NEW f \in Files, NEW content \in Contents \cup {"none"},
         file' = [file EXCEPT ![f] = Touched(f, content)]
  PROVE  /\ file' \in [Files -> Observation] /\ file[f].stamp \in Nat
         /\ before[f].stamp \in Nat
         /\ file'[f].content = content /\ file'[f].stamp = file[f].stamp + 1
         /\ \A g \in Files : g # f => file'[g] = file[g]
<1> DEFINE new == Touched(f, content)
<1>1. /\ file \in [Files -> Observation] /\ file[f].stamp \in Nat
      /\ before[f].stamp \in Nat
  BY DEF VInv, ContractTypes, Observation
<1>2. new \in Observation /\ new.content = content /\ new.stamp = file[f].stamp + 1
  BY <1>1 DEF Touched, Observation
<1>3. file' = [file EXCEPT ![f] = new]
  OBVIOUS
<1> HIDE DEF new
<1>4. file' \in [Files -> Observation] /\ file'[f] = new /\ \A g \in Files : g # f => file'[g] = file[g]
  BY <1>1, <1>2, <1>3
<1> QED
  BY <1>1, <1>2, <1>4

LEMMA ExtractInv ==
  ASSUME VInv, Extract PROVE VInv'
<1> USE DEF owned, history
<1> DEFINE held == file["archive"].content
<1>1. /\ InPrimary /\ Steps[at] = "extract" /\ Onward
      /\ file' = [file EXCEPT !["yosys"] = Touched("yosys", held)]
      /\ UNCHANGED <<fds, private, open, tree, failures, before, identity, used,
                     unread, rolled, faults, edits>>
  BY DEF Extract, InStep, Step, InPrimary
<1>2. at = 8 /\ phase' = phase /\ at' = 9
  BY <1>1, StepPlaces DEF VInv, ContractTypes, Onward
<1>3. held \in Contents \cup {"none"}
  BY DEF VInv, ContractTypes, Files, Observation
<1> HIDE DEF held
<1>4. /\ file' \in [Files -> Observation] /\ file'["yosys"].content = held
      /\ file'["archive"] = file["archive"] /\ file'["source"] = file["source"]
  BY <1>1, <1>3, Touch DEF Files
<1>5. BytesAreTraced'
  BY <1>1, <1>2, <1>4 DEF VInv, BytesAreTraced, InPrimary, Known, Unmoved, held
<1>6. RunIsQuiet'
  BY <1>1, <1>2, <1>4 DEF VInv, RunIsQuiet, InPrimary, Unmoved, Undisturbed
<1> QED
  BY <1>1, <1>2, <1>4, <1>5, <1>6, OnwardInv, OpenIsOwned DEF VInv, ContractTypes

LEMMA SealInv ==
  ASSUME VInv, Seal PROVE VInv'
<1> USE DEF owned, history
<1> DEFINE held == file["yosys"].content
<1>1. /\ InPrimary /\ Steps[at] = "seal" /\ Onward
      /\ file' = [file EXCEPT !["yosys"] = Touched("yosys", held)]
      /\ identity' = held
      /\ UNCHANGED <<fds, private, open, tree, failures, before, used,
                     unread, rolled, faults, edits>>
  <2>1. "yosys" \in DOMAIN file
    BY DEF VInv, ContractTypes, Files
  <2> QED
    BY <2>1 DEF Seal, InStep, Step, InPrimary
<1>2. at = 10 /\ phase' = phase /\ at' = 11
  BY <1>1, StepPlaces DEF VInv, ContractTypes, Onward
<1>3. held \in Contents \cup {"none"}
  BY DEF VInv, ContractTypes, Files, Observation
<1> HIDE DEF held
<1>4. /\ file' \in [Files -> Observation] /\ file'["yosys"].content = held
      /\ file'["archive"] = file["archive"] /\ file'["source"] = file["source"]
  BY <1>1, <1>3, Touch DEF Files
<1>5. BytesAreTraced'
  BY <1>1, <1>2, <1>4 DEF VInv, BytesAreTraced, InPrimary, Known, Unmoved, held
<1>6. RunIsQuiet'
  BY <1>1, <1>2, <1>4 DEF VInv, RunIsQuiet, InPrimary, Unmoved, Undisturbed
<1> QED
  BY <1>1, <1>2, <1>4, <1>5, <1>6, OnwardInv, OpenIsOwned DEF VInv, ContractTypes

LEMMA ElaborateInv ==
  ASSUME VInv, Elaborate PROVE VInv'
<1> USE DEF owned, history
<1>1. /\ InPrimary /\ Steps[at] = "elaborate" /\ Onward
      /\ used'.yosys = file["yosys"].content /\ used'.source = file["source"].content
      /\ UNCHANGED <<fds, private, open, tree, failures, file, before, identity,
                     unread, rolled, faults, edits>>
  BY DEF Elaborate, InStep, Step, InPrimary
<1>2. at = 15 /\ phase' = phase /\ at' = 16
  BY <1>1, StepPlaces DEF VInv, ContractTypes, Onward
<1>3. BytesAreTraced'
  BY <1>1, <1>2 DEF VInv, BytesAreTraced, InPrimary, Known, Unmoved
<1>4. RunIsQuiet'
  BY <1>1, <1>2 DEF VInv, RunIsQuiet, InPrimary, Unmoved, Undisturbed
<1> QED
  BY <1>1, <1>2, <1>3, <1>4, OnwardInv, OpenIsOwned DEF VInv, ContractTypes

\* Unmoved descriptors and the same snapshot: what Yosys was and read is known.
LEMMA VerifyInv ==
  ASSUME VInv, Verify PROVE VInv'
<1> USE DEF owned, history
<1> DEFINE held == file["yosys"].content
           ok == /\ \A f \in Files : file[f] = before[f]
                 /\ identity = file["yosys"].content
<1>1. /\ InPrimary /\ Step = "verify"
      /\ file' = [file EXCEPT !["yosys"] = Touched("yosys", held)]
      /\ IF ok THEN Onward ELSE Return(FALSE, "verify")
      /\ UNCHANGED <<fds, private, open, tree, failures, before, identity, used,
                     unread, rolled, faults, edits>>
  <2>1. "yosys" \in DOMAIN file
    BY DEF VInv, ContractTypes, Files
  <2> QED
    BY <2>1 DEF Verify, InStep, Stable, InPrimary, Files
<1>2. at = 16
  BY <1>1, StepPlaces DEF VInv, ContractTypes, Step
<1>3. held \in Contents \cup {"none"}
  BY DEF VInv, ContractTypes, Files, Observation
<1>4. /\ file' \in [Files -> Observation] /\ file'["yosys"].content = held
      /\ file'["archive"] = file["archive"] /\ file'["source"] = file["source"]
      /\ file["yosys"].stamp \in Nat /\ before["yosys"].stamp \in Nat
      /\ file'["yosys"].stamp = file["yosys"].stamp + 1
  <2> HIDE DEF held
  <2> QED
    BY <1>1, <1>3, Touch DEF Files
<1>5. CASE ok
  <2>1. phase' = phase /\ at' = 17 /\ Onward
    <3> HIDE DEF ok
    <3> QED
      BY <1>1, <1>2, <1>5 DEF Onward
  <2>2. /\ used.source = before["source"].content
        /\ used.yosys = Pinned
    BY <1>1, <1>2, <1>5 DEF VInv, BytesAreTraced, Unmoved, Files
  <2>3. BytesAreTraced'
    BY <1>1, <1>2, <1>4, <2>1, <2>2 DEF VInv, BytesAreTraced, InPrimary, Known, Unmoved
  <2>4. RunIsQuiet'
    BY <1>1, <1>2, <1>4, <2>1 DEF VInv, RunIsQuiet, InPrimary, Unmoved, Undisturbed
  <2> QED
    BY <1>1, <1>2, <1>4, <2>1, <2>3, <2>4, OnwardInv, OpenIsOwned DEF VInv, ContractTypes
<1>6. CASE ~ok
  <2>1. ~Undisturbed
    BY <1>1, <1>2, <1>6 DEF VInv, BytesAreTraced, RunIsQuiet, Known, Files
  <2>2. ~Undisturbed'
    BY <1>1, <1>4, <2>1 DEF Undisturbed
  <2> HIDE DEF ok
  <2> QED
    BY <1>1, <1>4, <1>6, <2>2, LeaveInv DEF VInv, ContractTypes, Accounted, Return
<1> QED
  BY <1>5, <1>6

\* The verdict: it is about the recorded source and the pinned Yosys.
LEMMA DesignInv ==
  ASSUME VInv, Design PROVE VInv'
<1> USE DEF owned, facts, history
<1> DEFINE good == used.source \in Satisfying
<1>1. /\ InPrimary /\ Step = "design" /\ phase' = "cleanup" /\ at' = at
      /\ outcome' = Verdict(good, "design") /\ error' = error
      /\ UNCHANGED <<fds, private, open, tree, failures, file, before, identity,
                     used, unread, rolled, faults, edits>>
  BY DEF Design, Return, InStep, InPrimary
<1>2. at = 17 /\ ~InPrimary'
  BY <1>1, StepPlaces DEF VInv, ContractTypes, Step, InPrimary
<1>3. good \in BOOLEAN
  OBVIOUS
<1>4. good => used.source \in Satisfying
  OBVIOUS
<1>5. Undisturbed => good
  BY <1>1, <1>2 DEF VInv, RunIsQuiet, Undisturbed
<1>6. used.source = before["source"].content /\ used.yosys = Pinned
  BY <1>1, <1>2 DEF VInv, BytesAreTraced
<1> HIDE DEF good
<1>7. /\ outcome' \in [valid : BOOLEAN, reason : Names \cup {"none", "cleanup"}]
      /\ outcome'.reason = "design" /\ (outcome'.valid <=> good)
  <2>1. outcome' = [valid |-> good, reason |-> "design"] /\ "design" \in Names
    BY <1>1 DEF Verdict, Names
  <2>2. outcome' \in [valid : BOOLEAN, reason : Names \cup {"none", "cleanup"}]
    BY <1>3, <2>1, Zenon
  <2>3. outcome'.reason = "design" /\ outcome'.valid = good
    BY <2>1
  <2> QED
    BY <1>3, <2>2, <2>3
<1>8. ContractTypes'
  BY <1>1, <1>7 DEF VInv, ContractTypes
<1>9. OutcomeIsOne' /\ VerdictIsTraced'
  BY <1>1, <1>2, <1>4, <1>6, <1>7 DEF VInv, OutcomeIsOne, VerdictIsTraced
<1>10. Accounted'
  BY <1>1, <1>2 DEF VInv, Accounted
<1>11. RunIsQuiet'
  <2>1. Undisturbed' => Undisturbed
    BY <1>1 DEF Undisturbed
  <2> QED
    BY <1>1, <1>2, <1>5, <1>7, <2>1 DEF VInv, RunIsQuiet
<1>12. BytesAreTraced'
  BY <1>2 DEF BytesAreTraced
<1> QED
  BY <1>8, <1>9, <1>10, <1>11, <1>12 DEF VInv

\* The cleanup and the end: the facts are settled, and what is not owned any
\* more is a reported failure.
LEMMA CleanupInv ==
  ASSUME VInv, ~InPrimary, ~InPrimary',
         UNCHANGED <<at, error, file, before, used, unread, rolled, edits>>,
         phase' \in {"cleanup", "preserve", "done"},
         \/ outcome' = outcome
         \/ outcome' = Verdict(FALSE, "cleanup") /\ error = "none",
         Undisturbed' => Undisturbed /\ failures' = failures /\ outcome' = outcome,
         faults' \in Nat,
         open' \subseteq open, fds' \subseteq fds, private' \in BOOLEAN, tree' \in BOOLEAN,
         Accounted'
  PROVE  VInv'
<1> USE DEF VInv
<1>1. /\ outcome' \in [valid : BOOLEAN, reason : Names \cup {"none", "cleanup"}]
      /\ outcome'.valid => outcome' = outcome
      /\ \/ outcome' = outcome
         \/ outcome'.reason # "none" /\ error = "none"
  <2>1. CASE outcome' = outcome
    BY <2>1 DEF ContractTypes
  <2>2. CASE outcome' = Verdict(FALSE, "cleanup") /\ error = "none"
    <3>1. outcome' \in [valid : BOOLEAN, reason : Names \cup {"none", "cleanup"}]
      BY <2>2, Zenon DEF Verdict
    <3> QED
      BY <2>2, <3>1 DEF Verdict
  <2> QED
    BY <2>1, <2>2
<1>2. ContractTypes'
  BY <1>1 DEF ContractTypes
<1>3. OutcomeIsOne' /\ VerdictIsTraced'
  BY <1>1 DEF OutcomeIsOne, VerdictIsTraced
<1>4. RunIsQuiet'
  BY DEF RunIsQuiet
<1>5. BytesAreTraced'
  BY DEF BytesAreTraced
<1> QED
  BY <1>2, <1>3, <1>4, <1>5

LEMMA CloseOwnedInv ==
  ASSUME VInv, CloseOwned PROVE VInv'
<1> USE DEF facts, history
<1> DEFINE slot == NextToClose
<1>1. /\ phase = "cleanup" /\ fds' = fds \ {slot} /\ open' \in {open, open \ {slot}}
      /\ \/ open' = open \ {slot} /\ failures' = failures /\ faults' = faults
         \/ failures' = failures \cup {slot} /\ faults' = faults + 1
      /\ UNCHANGED <<phase, at, private, tree, outcome, error, file, before, used,
                     unread, rolled, edits>>
  BY DEF CloseOwned, Fault
<1> HIDE DEF slot
<1>2. private \in BOOLEAN /\ tree \in BOOLEAN /\ faults \in Nat
  BY DEF VInv, ContractTypes
<1>3. Accounted'
  BY <1>1 DEF VInv, Accounted, InPrimary
<1>4. ~InPrimary /\ ~InPrimary' /\ faults' \in Nat /\ private' \in BOOLEAN /\ tree' \in BOOLEAN
  BY <1>1, <1>2 DEF InPrimary
<1>5. Undisturbed' => Undisturbed /\ failures' = failures
  BY <1>1, <1>2 DEF Undisturbed
<1> QED
  BY <1>1, <1>3, <1>4, <1>5, CleanupInv

LEMMA RemoveTreeInv ==
  ASSUME VInv, RemovePrivateTree PROVE VInv'
<1> USE DEF facts, history
<1>1. /\ phase = "cleanup" /\ private' = FALSE /\ tree' \in BOOLEAN
      /\ \/ tree' = FALSE /\ failures' = failures /\ faults' = faults
         \/ failures' = failures \cup {"private"} /\ faults' = faults + 1
      /\ UNCHANGED <<phase, at, fds, open, outcome, error, file, before, used,
                     unread, rolled, edits>>
  BY DEF RemovePrivateTree, Fault
<1>2. private' \in BOOLEAN /\ faults \in Nat
  BY <1>1 DEF VInv, ContractTypes
<1>3. Accounted'
  BY <1>1 DEF VInv, Accounted, InPrimary
<1>4. ~InPrimary /\ ~InPrimary' /\ faults' \in Nat /\ private' \in BOOLEAN /\ tree' \in BOOLEAN
  BY <1>1, <1>2 DEF InPrimary
<1>5. Undisturbed' => Undisturbed /\ failures' = failures
  BY <1>1, <1>2 DEF Undisturbed
<1> QED
  BY <1>1, <1>3, <1>4, <1>5, CleanupInv

LEMMA EndsInv ==
  ASSUME VInv, InterruptCleanup \/ RunEnds PROVE VInv'
<1> USE DEF owned, facts, history
<1>1. /\ phase = "cleanup" /\ phase' = "preserve"
      /\ \/ fds = {} /\ ~private /\ failures' = failures /\ faults' = faults
         \/ failures' = failures \cup {"interrupt"} /\ faults' = faults + 1
      /\ UNCHANGED <<at, fds, private, open, tree, outcome, error, file, before,
                     used, unread, rolled, edits>>
  BY DEF InterruptCleanup, RunEnds, TurnOfTree, Fault
<1>2. private' \in BOOLEAN /\ tree' \in BOOLEAN /\ faults \in Nat
  BY <1>1 DEF VInv, ContractTypes
<1>3. Accounted'
  BY <1>1 DEF VInv, Accounted, InPrimary
<1>4. ~InPrimary /\ ~InPrimary' /\ faults' \in Nat /\ private' \in BOOLEAN /\ tree' \in BOOLEAN
  BY <1>1, <1>2 DEF InPrimary
<1>5. Undisturbed' => Undisturbed /\ failures' = failures
  BY <1>1, <1>2 DEF Undisturbed
<1> QED
  BY <1>1, <1>3, <1>4, <1>5, CleanupInv

LEMMA PreserveInv ==
  ASSUME VInv, Preserve PROVE VInv'
<1> USE DEF owned, facts, history
<1>1. /\ phase = "preserve" /\ phase' = "done"
      /\ \/ failures = {} /\ UNCHANGED <<outcome, report>>
         \/ failures # {} /\ failures \subseteq report' /\ outcome' = Final
      /\ UNCHANGED <<at, fds, private, open, tree, error, failures, file, before,
                     used, unread, rolled, faults, edits>>
  BY DEF Preserve
<1>2. /\ private' \in BOOLEAN /\ tree' \in BOOLEAN /\ faults \in Nat /\ ~InPrimary /\ ~InPrimary'
      /\ private' = private /\ tree' = tree
  BY <1>1 DEF VInv, ContractTypes, InPrimary
<1>3. \/ outcome' = outcome /\ (failures = {} \/ ~outcome.valid)
      \/ outcome' = Verdict(FALSE, "cleanup") /\ error = "none" /\ failures # {}
  <2>1. error # "none" => ~outcome.valid
    BY <1>2 DEF VInv, OutcomeIsOne, NoOutcome, Verdict
  <2> QED
    BY <1>1, <2>1 DEF Final, Primary, None
<1>4. outcome'.valid => failures = {}
  BY <1>3 DEF Verdict
<1>5. Accounted'
  BY <1>1, <1>2, <1>4 DEF VInv, Accounted
<1>6. Undisturbed' => Undisturbed /\ failures' = failures /\ outcome' = outcome
  <2>1. Undisturbed' => Undisturbed
    BY <1>1 DEF Undisturbed
  <2> QED
    BY <1>1, <2>1 DEF VInv, RunIsQuiet
<1>7. \/ outcome' = outcome
      \/ outcome' = Verdict(FALSE, "cleanup") /\ error = "none"
  BY <1>3
<1> QED
  BY <1>1, <1>2, <1>5, <1>6, <1>7, CleanupInv

\* An edit moves the stamp, and before the seal nobody reaches the snapshot.
LEMMA ContractEditInv ==
  ASSUME VInv, NEW f \in Files, NEW content \in Contents, Edit(f, content)
  PROVE  VInv'
<1> USE DEF owned, history
<1>1. /\ InPrimary /\ edits' = edits + 1 /\ (f = "yosys" => identity # "none")
      /\ file' = [file EXCEPT ![f] = Touched(f, content)]
      /\ UNCHANGED <<phase, at, fds, private, open, tree, outcome, error, failures,
                     report, before, identity, used, unread, rolled, faults>>
  BY DEF Edit, None, InPrimary
<1>2. /\ file' \in [Files -> Observation] /\ file[f].stamp \in Nat
      /\ before[f].stamp \in Nat
      /\ file'[f].stamp = file[f].stamp + 1
      /\ \A g \in Files : g # f => file'[g] = file[g]
  BY <1>1, Touch
<1>3. edits \in Nat
  BY DEF VInv, ContractTypes
<1>4. ContractTypes'
  BY <1>1, <1>2, <1>3 DEF VInv, ContractTypes
<1>5. OutcomeIsOne' /\ VerdictIsTraced'
  BY <1>1 DEF VInv, OutcomeIsOne, VerdictIsTraced, InPrimary
<1>6. Accounted'
  BY <1>1 DEF VInv, Accounted, InPrimary
<1>7. ASSUME NEW g \in Files, Known(g)
      PROVE  /\ Known(g)'
             /\ Unmoved(g)' => g # f /\ Unmoved(g)
  <2>1. CASE g = f
    BY <1>1, <1>2, <1>7, <2>1 DEF Known, Unmoved
  <2>2. CASE g # f
    BY <1>1, <1>2, <1>7, <2>2 DEF Known, Unmoved
  <2> QED
    BY <2>1, <2>2
<1>8. BytesAreTraced'
  <2> SUFFICES ASSUME TRUE
               PROVE  /\ at > 2 => Known("archive")' /\ before["archive"].content = Pinned
                      /\ at > 3 => Known("source")'
                      /\ at > 12 => Known("yosys")'
                      /\ at <= 10 => identity = "none"
                      /\ at \in 9..10 /\ Unmoved("archive")' => file'["yosys"].content = Pinned
                      /\ at \in 11..16 /\ Unmoved("archive")' => identity = Pinned
                      /\ at = 16 /\ Unmoved("source")' => used.source = before["source"].content
                      /\ at = 16 /\ Unmoved("yosys")' => used.yosys = before["yosys"].content
                      /\ at = 17 => /\ used.source = before["source"].content
                                      /\ used.yosys = Pinned
    BY <1>1 DEF BytesAreTraced, Known, Unmoved
  <2>1. at \in 1..17 /\ BytesAreTraced
    BY DEF VInv, ContractTypes
  <2>2. /\ at > 2 => Known("archive") /\ Known("archive")' /\ (Unmoved("archive")' => Unmoved("archive"))
        /\ at > 3 => Known("source") /\ Known("source")' /\ (Unmoved("source")' => Unmoved("source"))
        /\ at > 12 => Known("yosys") /\ Known("yosys")' /\ (Unmoved("yosys")' => Unmoved("yosys"))
    BY <1>1, <1>7, <2>1 DEF BytesAreTraced, Files
  <2>3. at \in 9..10 => file'["yosys"] = file["yosys"]
    BY <1>1, <1>2, <2>1 DEF BytesAreTraced, Files
  <2> QED
    BY <1>1, <2>1, <2>2, <2>3 DEF BytesAreTraced
<1>9. RunIsQuiet'
  BY <1>1, <1>3 DEF RunIsQuiet, Undisturbed
<1> QED
  BY <1>4, <1>5, <1>6, <1>8, <1>9 DEF VInv

LEMMA ContractNextInv == VInv /\ [Next]_(vars) => VInv'
<1> SUFFICES ASSUME VInv, [Next]_(vars) PROVE VInv'
  OBVIOUS
<1>1. CASE UNCHANGED vars
  <2>1. UNCHANGED <<phase, at, fds, private, open, tree, outcome, error, failures,
                    report, file, before, identity, used, unread, rolled, faults, edits>>
    BY <1>1 DEF vars, owned, facts, history
  <2>2. ContractTypes' /\ OutcomeIsOne' /\ Accounted' /\ VerdictIsTraced'
    BY <2>1, Zenon DEF VInv, ContractTypes, OutcomeIsOne, Accounted, VerdictIsTraced, InPrimary
  <2>3. BytesAreTraced'
    BY <2>1 DEF VInv, BytesAreTraced, Known, Unmoved, InPrimary
  <2>4. RunIsQuiet'
    BY <2>1 DEF VInv, RunIsQuiet, Unmoved, Undisturbed, InPrimary
  <2> QED
    BY <2>2, <2>3, <2>4 DEF VInv
<1>2. CASE \E slot \in Slots :
              \/ Acquire(slot) \/ Unreadable(slot)
              \/ \E e \in {"RuntimeError", "other"} : Unregistered(slot, e)
  BY <1>2, AcquireInv, UnreadableInv
<1>3. CASE \E f \in Files, content \in Contents : Edit(f, content)
  BY <1>3, ContractEditInv
<1> QED
  BY <1>1, <1>2, <1>3, RefuseInv, UnregisteredTreeInv, TreeAndLookInv, ExtractInv, SealInv,
     VersionInv, ElaborateInv, VerifyInv, DesignInv, CloseOwnedInv, RemoveTreeInv, EndsInv,
     PreserveInv DEF Next, Files

\* Whatever is edited in place, fails, raises or is interrupted, at whichever
\* step: "valid" is about the recorded source and the pinned Yosys and leaves
\* nothing behind, an undisturbed run reaches it, no descriptor is closed twice
\* and no leak is silent (validate of validate_blake3_pending_contract.py).
THEOREM VerdictStaysSound == Spec => []VerdictIsSound
<1> QED
  BY ContractInitInv, ContractNextInv, ContractInvSound, PTL DEF Spec

-----------------------------------------------------------------------------
(* MutationGate                                                            *)

Outcome == {"none", "pass", "fail", "error", "timeout", "unanchored"}

GateTypes ==
    /\ g_gate \in MutationGates /\ g_sources \in Gate!Versions /\ g_copy \in Gate!Versions
    /\ g_todo \subseteq Gate!Steps(g_gate) /\ g_failed \in BOOLEAN /\ g_exit \in {-1, 0, 1}
    /\ g_ran \in [Gate!Pairs -> Outcome] /\ g_edits \in Nat /\ g_trouble \in Nat

\* A step that runs the tool on a mutant for a goal.
RunsPair(s, p) == s[3] = Gate!RUN /\ Gate!MutationOf(s) = p[1] /\ Gate!GoalOf(s) = p[2]

\* In a SymbiYosys gate that has not failed, every pair asked for is falsified or
\* still to be run.
NothingSkipped ==
    g_gate \in {"lifecycle", "lsc1u"} =>
        \A p \in Gate!Required :
            g_failed \/ g_ran[p] = "fail" \/ \E s \in g_todo : RunsPair(s, p)

\* In a lifecycle gate that goes on, every baseline has passed or is still to be run.
BaselinesPass ==
    g_gate = "lifecycle" /\ g_edits = 0 =>
        \A m \in GateMutations :
            \/ GateChecks[m][1] \in g_sources.holds \/ g_exit = 1
            \/ <<GateChecks[m][1], Gate!Baseline, Gate!RUN>> \in g_todo

\* What the tool falsified of unedited sources, they break or the mutant does.
FailuresAreTrue ==
    g_edits = 0 =>
        /\ g_copy = g_sources
        /\ \A p \in Gate!Pairs :
              g_ran[p] = "fail" /\ p[2] \in g_sources.holds => p \in g_sources.caught

\* Every mutant is caught and nothing interferes.
Detects ==
    /\ g_edits = 0 /\ g_trouble = 0 /\ g_sources.holds = GateGoals
    /\ g_sources.anchored = GateMutations /\ g_sources.caught = Gate!Pairs

\* The inductive invariant.
GateInv ==
    /\ GateTypes /\ NothingSkipped /\ BaselinesPass /\ FailuresAreTrue
    /\ Detects => ~g_failed /\ g_exit # 1
    /\ g_exit = 0 => g_todo = {} /\ ~g_failed

\* What the steps of a gate run.
LEMMA GateRuns ==
  ASSUME g_gate \in MutationGates, NEW s \in Gate!Steps(g_gate), s[3] = Gate!RUN
  PROVE  LET m == Gate!MutationOf(s)
             g == Gate!GoalOf(s)
         IN  /\ m = Gate!Baseline => s = <<g, Gate!Baseline, Gate!RUN>> /\ g \in GateGoals
                                     /\ g_gate = "lifecycle"
             /\ m # Gate!Baseline => m \in GateMutations /\ g \in GateGoals /\ <<m, g>> \in Gate!Pairs
<1> DEFINE m == Gate!MutationOf(s)
           g == Gate!GoalOf(s)
<1>1. /\ g_gate \in {"lifecycle", "lsc1u", "simulation", "lean"}
      /\ GateMutations \subseteq Nat \ {Gate!Baseline}
      /\ GateChecks \in [GateMutations -> Seq(GateGoals)]
      /\ \A n \in GateMutations : GateChecks[n] # <<>>
  BY GateAssumption DEF Gate!GateAssumption
<1>2. ASSUME NEW n \in GateMutations
      PROVE  /\ n # Gate!Baseline
             /\ 1 \in DOMAIN GateChecks[n]
             /\ \A i \in DOMAIN GateChecks[n] :
                   GateChecks[n][i] \in GateGoals /\ <<n, GateChecks[n][i]>> \in Gate!Pairs
  <2>1. GateChecks[n] \in Seq(GateGoals) /\ GateChecks[n] # <<>> /\ n # Gate!Baseline
    BY <1>1
  <2>2. 1 \in DOMAIN GateChecks[n] /\ \A i \in DOMAIN GateChecks[n] : GateChecks[n][i] \in GateGoals
    BY <2>1
  <2>3. \A i \in DOMAIN GateChecks[n] : <<n, GateChecks[n][i]>> \in Gate!Pairs
    BY <2>2 DEF Gate!Pairs, Gate!Range
  <2> QED
    BY <2>1, <2>2, <2>3
<1>3. CASE Gate!ByMutation(g_gate)
  <2>1. s \in Gate!PerMutation
    BY <1>3, Zenon DEF Gate!Steps
  <2>2. PICK n \in GateMutations : \E i \in DOMAIN GateChecks[n] : s = <<n, i, Gate!RUN>>
    BY <2>1 DEF Gate!PerMutation, Gate!COPY, Gate!RUN
  <2>3. PICK i \in DOMAIN GateChecks[n] : s = <<n, i, Gate!RUN>>
    BY <2>2
  <2>4. m = n /\ g = GateChecks[n][i]
    BY <1>3, <2>3 DEF Gate!MutationOf, Gate!GoalOf
  <2> QED
    BY <1>2, <2>4
<1>4. CASE g_gate = "lean"
  <2>1. s \in Gate!PerFile
    BY <1>4 DEF Gate!Steps, Gate!ByMutation
  <2>2. PICK h \in GateGoals : \E n \in Gate!Assigned(h) : s = <<h, n, Gate!RUN>>
    BY <2>1 DEF Gate!PerFile, Gate!COPY, Gate!RUN
  <2>3. PICK n \in GateMutations : s = <<h, n, Gate!RUN>> /\ GateChecks[n][1] = h
    BY <2>2 DEF Gate!Assigned
  <2>4. m = n /\ g = h
    BY <1>4, <2>3 DEF Gate!MutationOf, Gate!GoalOf, Gate!ByMutation
  <2> QED
    BY <1>2, <2>3, <2>4
<1>5. CASE g_gate = "lifecycle"
  <2>1. s \in Gate!Grouped
    BY <1>5 DEF Gate!Steps, Gate!ByMutation
  <2>2. PICK k \in GateMutations :
           s \in {GateChecks[k][1]} \X ({Gate!Baseline} \cup Gate!Assigned(GateChecks[k][1])) \X {Gate!COPY, Gate!RUN}
    BY <2>1 DEF Gate!Grouped
  <2> DEFINE h == GateChecks[k][1]
  <2>3. PICK n \in {Gate!Baseline} \cup Gate!Assigned(h) : s = <<h, n, Gate!RUN>>
    BY <2>2
  <2>4. m = n /\ g = h
    BY <1>5, <2>3 DEF Gate!MutationOf, Gate!GoalOf, Gate!ByMutation
  <2>5. h \in GateGoals
    BY <1>2
  <2>6. n # Gate!Baseline => n \in GateMutations /\ GateChecks[n][1] = h
    BY <2>3 DEF Gate!Assigned
  <2> QED
    BY <1>2, <1>5, <2>3, <2>4, <2>5, <2>6
<1> QED
  BY <1>1, <1>3, <1>4, <1>5 DEF Gate!ByMutation

\* Every pair asked for, and every baseline, is run by some step.
LEMMA GateCovers ==
  ASSUME g_gate \in MutationGates
  PROVE  /\ g_gate \in {"lifecycle", "lsc1u"} =>
              \A p \in Gate!Required : p \in Gate!Pairs /\ \E s \in Gate!Steps(g_gate) : RunsPair(s, p)
         /\ g_gate = "lifecycle" =>
              \A m \in GateMutations :
                 <<GateChecks[m][1], Gate!Baseline, Gate!RUN>> \in Gate!Steps(g_gate)
<1>1. /\ GateMutations \subseteq Nat \ {Gate!Baseline}
      /\ GateChecks \in [GateMutations -> Seq(GateGoals)]
      /\ \A n \in GateMutations : GateChecks[n] # <<>>
  BY GateAssumption DEF Gate!GateAssumption
<1>2. \A n \in GateMutations : 1 \in DOMAIN GateChecks[n] /\ GateChecks[n][1] \in GateGoals
  <2> TAKE n \in GateMutations
  <2>1. GateChecks[n] \in Seq(GateGoals) /\ GateChecks[n] # <<>>
    BY <1>1
  <2> QED
    BY <2>1
<1>3. ASSUME g_gate = "lsc1u", NEW p \in Gate!Required
      PROVE  p \in Gate!Pairs /\ \E s \in Gate!Steps(g_gate) : RunsPair(s, p)
  <2>1. p \in Gate!Pairs
    BY <1>3 DEF Gate!Required
  <2>2. PICK n \in GateMutations, h \in GateGoals : p = <<n, h>> /\ h \in Gate!Range(GateChecks[n])
    BY <2>1 DEF Gate!Pairs
  <2>3. PICK i \in DOMAIN GateChecks[n] : h = GateChecks[n][i]
    BY <2>2 DEF Gate!Range
  <2>4. <<n, i, Gate!RUN>> \in Gate!Steps(g_gate)
    BY <1>3 DEF Gate!Steps, Gate!ByMutation, Gate!PerMutation
  <2>5. RunsPair(<<n, i, Gate!RUN>>, p)
    BY <1>3, <2>2, <2>3 DEF RunsPair, Gate!MutationOf, Gate!GoalOf, Gate!ByMutation
  <2> QED
    BY <2>1, <2>4, <2>5
<1>4. ASSUME g_gate = "lifecycle", NEW n \in GateMutations, NEW x \in {Gate!Baseline, n}
      PROVE  <<GateChecks[n][1], x, Gate!RUN>> \in Gate!Steps(g_gate)
  <2>1. x \in {Gate!Baseline} \cup Gate!Assigned(GateChecks[n][1])
    BY DEF Gate!Assigned
  <2>2. <<GateChecks[n][1], x, Gate!RUN>> \in Gate!Grouped
    BY <2>1 DEF Gate!Grouped
  <2> QED
    BY <1>4, <2>2 DEF Gate!Steps, Gate!ByMutation
<1>5. ASSUME g_gate = "lifecycle", NEW p \in Gate!Required
      PROVE  p \in Gate!Pairs /\ \E s \in Gate!Steps(g_gate) : RunsPair(s, p)
  <2>1. PICK n \in GateMutations : p = <<n, GateChecks[n][1]>>
    BY <1>5 DEF Gate!Required
  <2>2. p \in Gate!Pairs
    BY <1>2, <2>1 DEF Gate!Pairs, Gate!Range
  <2>3. RunsPair(<<GateChecks[n][1], n, Gate!RUN>>, p)
    BY <1>5, <2>1 DEF RunsPair, Gate!MutationOf, Gate!GoalOf, Gate!ByMutation
  <2> QED
    BY <1>4, <1>5, <2>2, <2>3
<1> QED
  BY <1>3, <1>4, <1>5

\* A copy, before which nothing has run on it.
LEMMA GateCopies == ASSUME GateInv, Gate!CopySources PROVE GateInv'
<1>1. PICK s \in g_todo : s[3] = Gate!COPY /\ g_todo' = g_todo \ {s}
  BY Zenon DEF Gate!CopySources
<1>2. /\ g_exit = -1 /\ g_copy' = g_sources
      /\ UNCHANGED <<g_gate, g_sources, g_failed, g_exit, g_ran, g_edits, g_trouble>>
  BY Zenon DEF Gate!CopySources
<1>3. \A t \in g_todo : t[3] = Gate!RUN => t \in g_todo'
  BY <1>1 DEF Gate!COPY, Gate!RUN
<1>4. GateTypes'
  BY <1>1, <1>2, Zenon DEF GateInv, GateTypes
<1>5. NothingSkipped'
  <2>1. SUFFICES ASSUME g_gate \in {"lifecycle", "lsc1u"}, NEW p \in Gate!Required
                 PROVE  g_failed \/ g_ran[p] = "fail" \/ \E t \in g_todo' : RunsPair(t, p)
    BY <1>2, Zenon DEF NothingSkipped, RunsPair, Gate!MutationOf, Gate!GoalOf, Gate!Required
  <2>2. g_failed \/ g_ran[p] = "fail" \/ \E t \in g_todo : RunsPair(t, p)
    BY <2>1, Zenon DEF GateInv, NothingSkipped
  <2> QED
    BY <1>3, <2>2, Zenon DEF RunsPair
<1>6. BaselinesPass'
  <2>1. \A x, y : <<x, y, Gate!RUN>>[3] = Gate!RUN
    OBVIOUS
  <2>2. \A x, y : <<x, y, Gate!RUN>> \in g_todo => <<x, y, Gate!RUN>> \in g_todo'
    BY <1>3, <2>1
  <2> QED
    BY <1>2, <2>2, Zenon DEF GateInv, BaselinesPass
<1>7. FailuresAreTrue'
  BY <1>2, Zenon DEF GateInv, FailuresAreTrue
<1>8. (Detects => ~g_failed /\ g_exit # 1)' /\ (g_exit = 0 => g_todo = {} /\ ~g_failed)'
  <2>1. g_exit' # 0
    BY <1>2
  <2> QED
    BY <1>2, <2>1, Zenon DEF GateInv, Detects
<1> QED
  BY <1>4, <1>5, <1>6, <1>7, <1>8, Zenon DEF GateInv

\* A run, on the sources as they were copied.
LEMMA GateRunsTool == ASSUME GateInv, Gate!RunTool PROVE GateInv'
<1>1. PICK s \in g_todo : /\ s[3] = Gate!RUN /\ g_todo' = g_todo \ {s}
                          /\ Gate!Runs(Gate!MutationOf(s), Gate!GoalOf(s))
  BY Zenon DEF Gate!RunTool
<1> DEFINE m == Gate!MutationOf(s)
           g == Gate!GoalOf(s)
<1>2. PICK o \in IF m = Gate!Baseline \/ m \in g_copy.anchored THEN Gate!Outcomes(m, g) ELSE {"unanchored"} :
         /\ g_ran' = IF m = Gate!Baseline THEN g_ran ELSE [g_ran EXCEPT ![<<m, g>>] = o]
         /\ g_trouble' = IF o \in {"error", "timeout"} THEN g_trouble + 1 ELSE g_trouble
         /\ g_failed' = (g_failed \/ Gate!Books(m, g, o))
         /\ g_exit' = IF Gate!Stops(g_gate, m, o) THEN 1 ELSE -1
  BY <1>1, Zenon DEF Gate!Runs
<1>3. g_exit = -1 /\ UNCHANGED <<g_gate, g_sources, g_copy, g_edits>>
  BY Zenon DEF Gate!RunTool
<1>4. /\ g_gate \in MutationGates /\ s \in Gate!Steps(g_gate)
      /\ g_sources \in Gate!Versions /\ g_ran \in [Gate!Pairs -> Outcome]
      /\ g_trouble \in Nat /\ g_failed \in BOOLEAN
  BY Zenon DEF GateInv, GateTypes
<1>5. /\ m = Gate!Baseline => s = <<g, Gate!Baseline, Gate!RUN>> /\ g \in GateGoals /\ g_gate = "lifecycle"
      /\ m # Gate!Baseline => m \in GateMutations /\ g \in GateGoals /\ <<m, g>> \in Gate!Pairs
  BY <1>1, <1>4, GateRuns
<1>6. Gate!Baseline \notin GateMutations
  BY GateAssumption DEF Gate!GateAssumption
<1> HIDE DEF m, g
<1>7. o \in {Gate!Truth(m, g), "error", "timeout", "unanchored"}
      /\ (o = "unanchored" => m # Gate!Baseline /\ m \notin g_copy.anchored)
  BY <1>2 DEF Gate!Outcomes, Gate!Truth
<1>8. o \in Outcome /\ Gate!Truth(m, g) \in {"pass", "fail"}
  BY <1>7 DEF Gate!Truth, Outcome
<1>9. /\ g_ran' \in [Gate!Pairs -> Outcome]
      /\ m # Gate!Baseline => g_ran'[<<m, g>>] = o
      /\ \A p \in Gate!Pairs : p # <<m, g>> => g_ran'[p] = g_ran[p]
      /\ m = Gate!Baseline => g_ran' = g_ran
  BY <1>2, <1>4, <1>5, <1>8
<1>10. g_failed => g_failed'
  BY <1>2
<1>11. g_trouble' \in Nat /\ (g_trouble' = 0 => g_trouble = 0 /\ o \notin {"error", "timeout"})
  BY <1>2, <1>4
<1>12. g_exit' \in {-1, 1} /\ (g_exit' = 1 <=> Gate!Stops(g_gate, m, o))
  BY <1>2
<1>13. GateTypes'
  <2>1. g_failed' \in BOOLEAN
    BY <1>2, <1>4, Zenon DEF Gate!Books
  <2>2. g_exit' \in {-1, 0, 1}
    BY <1>12
  <2> QED
    BY <1>1, <1>3, <1>9, <1>11, <2>1, <2>2, Zenon DEF GateInv, GateTypes
<1>14. NothingSkipped'
  <2>1. SUFFICES ASSUME g_gate \in {"lifecycle", "lsc1u"}, NEW p \in Gate!Required
                 PROVE  g_failed' \/ g_ran'[p] = "fail" \/ \E t \in g_todo' : RunsPair(t, p)
    BY <1>3, Zenon DEF NothingSkipped, RunsPair, Gate!MutationOf, Gate!GoalOf, Gate!Required
  <2>2. g_failed \/ g_ran[p] = "fail" \/ \E t \in g_todo : RunsPair(t, p)
    BY <2>1, Zenon DEF GateInv, NothingSkipped
  <2>3. p \in Gate!Pairs
    BY <1>4, <2>1, GateCovers
  <2>4. CASE p = <<m, g>> /\ m # Gate!Baseline
    <3>1. o = "fail" \/ Gate!Books(m, g, o)
      BY <2>1, <2>4 DEF Gate!Books, Gate!Killed
    <3> QED
      BY <1>2, <1>9, <2>4, <3>1
  <2>5. CASE ~(p = <<m, g>> /\ m # Gate!Baseline)
    <3>1. p # <<m, g>>
      <4>1. p[1] \in GateMutations
        BY <2>3 DEF Gate!Pairs
      <4> QED
        BY <1>6, <2>5, <4>1
    <3>2. g_ran'[p] = g_ran[p]
      BY <1>9, <2>3, <3>1, Zenon
    <3>3. ~RunsPair(s, p)
      BY <2>3, <3>1 DEF RunsPair, m, g, Gate!Pairs
    <3> QED
      BY <1>1, <1>10, <2>2, <3>2, <3>3, Zenon
  <2> QED
    BY <2>4, <2>5
<1>15. BaselinesPass'
  <2>1. SUFFICES ASSUME g_gate = "lifecycle", g_edits = 0, NEW n \in GateMutations
                 PROVE  \/ GateChecks[n][1] \in g_sources.holds \/ g_exit' = 1
                        \/ <<GateChecks[n][1], Gate!Baseline, Gate!RUN>> \in g_todo'
    BY <1>3, Zenon DEF BaselinesPass
  <2>2. \/ GateChecks[n][1] \in g_sources.holds
        \/ <<GateChecks[n][1], Gate!Baseline, Gate!RUN>> \in g_todo
    BY <1>3, <2>1 DEF GateInv, BaselinesPass
  <2>3. CASE s = <<GateChecks[n][1], Gate!Baseline, Gate!RUN>>
    <3>1. m = Gate!Baseline /\ g = GateChecks[n][1]
      BY <2>1, <2>3 DEF m, g, Gate!MutationOf, Gate!GoalOf, Gate!ByMutation
    <3>2. CASE o = "pass"
      <4>1. Gate!Truth(m, g) = "pass"
        BY <1>7, <1>8, <3>2
      <4>2. g \in g_copy.holds
        BY <4>1 DEF Gate!Truth
      <4> QED
        BY <2>1, <3>1, <4>2 DEF GateInv, FailuresAreTrue
    <3>3. CASE o # "pass"
      BY <1>12, <3>1, <3>3 DEF Gate!Stops
    <3> QED
      BY <3>2, <3>3
  <2>4. CASE s # <<GateChecks[n][1], Gate!Baseline, Gate!RUN>>
    BY <1>1, <2>2, <2>4, Zenon
  <2> QED
    BY <2>3, <2>4
<1>16. FailuresAreTrue'
  <2>1. SUFFICES ASSUME g_edits = 0
                 PROVE  /\ g_copy = g_sources
                        /\ \A p \in Gate!Pairs :
                              g_ran'[p] = "fail" /\ p[2] \in g_sources.holds => p \in g_sources.caught
    BY <1>3, Zenon DEF FailuresAreTrue
  <2>2. /\ g_copy = g_sources
        /\ \A p \in Gate!Pairs :
              g_ran[p] = "fail" /\ p[2] \in g_sources.holds => p \in g_sources.caught
    BY <2>1, Zenon DEF GateInv, FailuresAreTrue
  <2>3. ASSUME m # Gate!Baseline, o = "fail", g \in g_sources.holds
        PROVE  <<m, g>> \in g_sources.caught
    BY <1>7, <2>2, <2>3 DEF Gate!Truth
  <2>4. ASSUME NEW p \in Gate!Pairs, g_ran'[p] = "fail", p[2] \in g_sources.holds
        PROVE  p \in g_sources.caught
    <3>1. CASE p = <<m, g>> /\ m # Gate!Baseline
      BY <1>9, <2>3, <2>4, <3>1
    <3>2. CASE ~(p = <<m, g>> /\ m # Gate!Baseline)
      BY <1>9, <2>2, <2>4, <3>2, Zenon
    <3> QED
      BY <3>1, <3>2
  <2> QED
    BY <2>2, <2>4
<1>17. (Detects => ~g_failed /\ g_exit # 1)'
  <2>1. SUFFICES ASSUME Detects' PROVE ~g_failed' /\ g_exit' # 1
    OBVIOUS
  <2>2. /\ g_edits = 0 /\ g_trouble' = 0 /\ g_sources.holds = GateGoals
        /\ g_sources.anchored = GateMutations /\ g_sources.caught = Gate!Pairs
    BY <1>3, <2>1, Zenon DEF Detects
  <2>3. g_trouble = 0 /\ o \notin {"error", "timeout"}
    BY <1>11, <2>2
  <2>4. ~g_failed /\ g_copy = g_sources
    BY <2>2, <2>3, Zenon DEF GateInv, Detects, FailuresAreTrue
  <2>5. o = IF m = Gate!Baseline THEN "pass" ELSE "fail"
    <3>1. o = Gate!Truth(m, g)
      BY <1>5, <1>7, <2>2, <2>3, <2>4
    <3>2. g \in GateGoals /\ (<<m, g>> \in Gate!Pairs <=> m # Gate!Baseline)
      BY <1>5, <1>6 DEF Gate!Pairs
    <3> QED
      BY <2>2, <2>4, <3>1, <3>2 DEF Gate!Truth
  <2>6. ~Gate!Books(m, g, o)
    BY <2>5 DEF Gate!Books, Gate!Killed
  <2>7. ~Gate!Stops(g_gate, m, o)
    BY <1>5, <2>5 DEF Gate!Stops, Gate!Killed
  <2> QED
    BY <1>2, <1>12, <2>4, <2>6, <2>7
<1>18. (g_exit = 0 => g_todo = {} /\ ~g_failed)'
  BY <1>12
<1> QED
  BY <1>13, <1>14, <1>15, <1>16, <1>17, <1>18, Zenon DEF GateInv

\* The end, an edit, the beginning.
LEMMA GateFinishes == ASSUME GateInv, Gate!Finish PROVE GateInv'
<1>1. /\ g_exit = -1 /\ g_todo = {} /\ g_exit' = IF g_failed THEN 1 ELSE 0
      /\ UNCHANGED <<g_gate, g_sources, g_copy, g_todo, g_failed, g_ran, g_edits, g_trouble>>
  BY Zenon DEF Gate!Finish
<1>2. g_exit' \in {0, 1} /\ (g_exit' = 1 <=> g_failed)
  BY <1>1
<1>3. GateTypes'
  <2>1. g_exit' \in {-1, 0, 1}
    BY <1>2
  <2> QED
    BY <1>1, <2>1, Zenon DEF GateInv, GateTypes
<1>4. BaselinesPass'
  BY <1>1 DEF GateInv, BaselinesPass
<1>5. NothingSkipped' /\ FailuresAreTrue'
  BY <1>1, Zenon DEF GateInv, NothingSkipped, RunsPair, Gate!MutationOf, Gate!GoalOf,
     Gate!Required, FailuresAreTrue
<1>6. (Detects => ~g_failed /\ g_exit # 1)' /\ (g_exit = 0 => g_todo = {} /\ ~g_failed)'
  <2>1. Detects' => ~g_failed
    BY <1>1, Zenon DEF GateInv, Detects
  <2>2. g_exit' = 0 => g_exit' # 1
    OBVIOUS
  <2> QED
    BY <1>1, <1>2, <2>1, <2>2, Zenon
<1> QED
  BY <1>3, <1>4, <1>5, <1>6, Zenon DEF GateInv

LEMMA GateIsEdited == ASSUME GateInv, Gate!Edit PROVE GateInv'
<1>1. /\ g_exit = -1 /\ g_edits' = g_edits + 1 /\ g_sources' \in Gate!Versions
      /\ UNCHANGED <<g_gate, g_copy, g_todo, g_failed, g_exit, g_ran, g_trouble>>
  BY Zenon DEF Gate!Edit
<1>2. g_edits' \in Nat /\ g_edits' # 0
  BY <1>1 DEF GateInv, GateTypes
<1>3. GateTypes'
  BY <1>1, <1>2, Zenon DEF GateInv, GateTypes
<1>4. NothingSkipped'
  BY <1>1, Zenon DEF GateInv, NothingSkipped, RunsPair, Gate!MutationOf, Gate!GoalOf, Gate!Required
<1>5. BaselinesPass' /\ FailuresAreTrue' /\ ~Detects'
  BY <1>2 DEF BaselinesPass, FailuresAreTrue, Detects
<1>6. g_exit' # 0
  BY <1>1
<1> QED
  BY <1>3, <1>4, <1>5, <1>6, Zenon DEF GateInv

LEMMA GateInitInv == Gate!Init => GateInv
<1> SUFFICES ASSUME Gate!Init PROVE GateInv
  OBVIOUS
<1>1. /\ g_gate \in MutationGates /\ g_sources \in Gate!Versions /\ g_copy = g_sources
      /\ g_todo = Gate!Steps(g_gate) /\ g_failed = FALSE /\ g_exit = -1
      /\ g_ran = [p \in Gate!Pairs |-> "none"] /\ g_edits = 0 /\ g_trouble = 0
  BY Zenon DEF Gate!Init
<1>2. GateTypes
  BY <1>1 DEF GateTypes, Outcome
<1>3. NothingSkipped /\ BaselinesPass
  BY <1>1, GateCovers, Zenon DEF NothingSkipped, BaselinesPass
<1>4. FailuresAreTrue
  BY <1>1 DEF FailuresAreTrue
<1>5. ~g_failed /\ g_exit # 1 /\ g_exit # 0
  BY <1>1
<1> QED
  BY <1>2, <1>3, <1>4, <1>5, Zenon DEF GateInv

LEMMA GateNextInv == GateInv /\ [Gate!Next]_(Gate!vars) => GateInv'
<1>1. ASSUME GateInv, UNCHANGED Gate!vars PROVE GateInv'
  <2>1. UNCHANGED <<g_gate, g_sources, g_copy, g_todo, g_failed, g_exit, g_ran, g_edits, g_trouble>>
    BY <1>1 DEF Gate!vars
  <2> QED
    BY <1>1, <2>1, Zenon DEF GateInv, GateTypes, NothingSkipped, RunsPair, Gate!MutationOf,
       Gate!GoalOf, Gate!Required, BaselinesPass, FailuresAreTrue, Detects
<1> QED
  BY <1>1, GateCopies, GateRunsTool, GateFinishes, GateIsEdited, Zenon DEF Gate!Next

\* For any mutations, goals and checks, however often the sources are edited and the
\* tools break down: a SymbiYosys gate that passes has seen every mutant falsified,
\* the lifecycle gate's pass on unedited sources means that they meet its goals and
\* that the mutants break them, and a gate fails only for a reason (main of
\* check_deref_retire_formal_mutations.py and of the three other gates).
THEOREM GateStaysHonest == Gate!Spec => []GateIsHonest
<1>1. ASSUME GateInv PROVE Gate!KillIsAFailure
  BY <1>1, Zenon DEF Gate!KillIsAFailure, GateInv, NothingSkipped
<1>2. ASSUME GateInv PROVE Gate!PassIsDetection
  <2>1. SUFFICES ASSUME g_exit = 0, g_gate = "lifecycle", g_edits = 0
                 PROVE  /\ Gate!Required \subseteq g_sources.caught
                        /\ \A p \in Gate!Required : p[2] \in g_sources.holds
    BY Zenon DEF Gate!PassIsDetection
  <2>2. \A p \in Gate!Required : p \in Gate!Pairs /\ g_ran[p] = "fail"
    BY <1>1, <1>2, <2>1, GateCovers DEF Gate!KillIsAFailure, GateInv, GateTypes
  <2>3. \A p \in Gate!Required : p[2] \in g_sources.holds
    <3>1. g_todo = {} /\ g_exit # 1
      BY <1>2, <2>1 DEF GateInv
    <3> QED
      BY <1>2, <2>1, <3>1 DEF GateInv, BaselinesPass, Gate!Required
  <2> QED
    BY <1>2, <2>1, <2>2, <2>3, Zenon DEF GateInv, FailuresAreTrue
<1>3. ASSUME GateInv PROVE Gate!DetectionPasses
  <2>1. SUFFICES ASSUME g_exit # -1, Detects PROVE g_exit = 0
    BY Zenon DEF Gate!DetectionPasses, Detects
  <2> QED
    BY <1>3, <2>1 DEF GateInv, GateTypes
<1>4. GateInv => GateIsHonest
  BY <1>1, <1>2, <1>3, Zenon DEF GateIsHonest, Gate!GateIsHonest
<1> QED
  BY <1>4, GateInitInv, GateNextInv, PTL DEF Gate!Spec

-----------------------------------------------------------------------------
(* PendingGate                                                             *)

\* Where the script begins with a workspace, and where it compares it.
PlaceOf == [baseline |-> 3, omit_union |-> 8, weaken_assertion |-> 14,
            remove_assertion |-> 21, control_cover |-> 28]
ComparedAt(w) == PlaceOf[w] + 3

PendingSteps == {Pending!Script[i] : i \in 1..32}

\* The number of steps taken: what is left of the script.
AtPlace(k) ==
    /\ p_todo \in Seq(PendingSteps) /\ Len(p_todo) = 32 - k
    /\ \A i \in 1..(32 - k) : p_todo[i] = Pending!Script[k + i]

PendingTypes ==
    /\ p_disk \in [Pending!Files -> Nat] /\ p_newest \in [Pending!Files -> Nat]
    /\ p_restored \subseteq Pending!Files /\ p_text \in [Pending!Files -> Nat]
    /\ p_copied \in [Pending!Works -> [Pending!Files -> Nat]]
    /\ p_isolated \subseteq Pending!Mutants
    /\ p_result \in [Pending!Tasks -> {"none", "pass", "fail", "error"}]
    /\ p_exit \in {-1, 0, 1} /\ p_edits \in Nat /\ p_trouble \in Nat
    /\ p_truth \subseteq Pending!Tasks

\* The versions of a file that is never put back only grow, and the texts are read
\* before the baseline is copied, the baseline before the mutants.
InOrder(f) ==
    \/ f \in p_restored
    \/ p_text[f] <= p_disk[f] /\ \A w \in Pending!Works : p_copied[w][f] <= p_disk[f]
VersionsGrow(k) ==
    /\ \A f \in Pending!Files : p_disk[f] <= p_newest[f] /\ InOrder(f)
    /\ "frontend" \notin p_restored =>
          /\ k >= 3 => p_text["frontend"] <= p_copied["baseline"]["frontend"]
          /\ k >= 14 =>
                p_copied["baseline"]["frontend"] <= p_copied["weaken_assertion"]["frontend"]
    /\ "invariant" \notin p_restored =>
          /\ k >= 4 => p_text["invariant"] <= p_copied["baseline"]["invariant"]
          /\ k >= 9 => p_copied["baseline"]["invariant"] <= p_copied["omit_union"]["invariant"]

\* A workspace found isolated stays what the texts read say.
IsolatedHeld(k) ==
    \A w \in p_isolated :
        /\ ComparedAt(w) <= k
        /\ p_copied[w]["frontend"] = p_text["frontend"]
        /\ p_copied[w]["invariant"] = p_text["invariant"]

\* What a tool that does not break down says of the files as they were.
TrueVerdict(t) == IF t \in p_truth THEN "pass" ELSE "fail"

\* Without an edit there is one version, every comparison succeeds, and verdicts
\* are true unless a tool broke down.
Unmeddled(k) ==
    p_edits = 0 =>
        /\ \A f \in Pending!Files :
              p_disk[f] = 0 /\ p_text[f] = 0 /\ \A w \in Pending!Works : p_copied[w][f] = 0
        /\ \A w \in Pending!Mutants : ComparedAt(w) <= k => w \in p_isolated
        /\ \A t \in Pending!Tasks :
              \/ p_result[t] \in {"none", TrueVerdict(t)}
              \/ p_trouble > 0 /\ p_result[t] = Pending!Breakdown(t)

\* Every tool the script has passed has left a result.
ResultsKept(k) ==
    \A i \in 1..k : Pending!Script[i] \in Pending!Tasks =>
                        p_result[Pending!Script[i]] # "none"

\* The exit status is the conjunction at the end; without edits it is always reached.
ExitIsPassed(k) ==
    /\ p_exit = 0 => k = 32 /\ Pending!Passed
    /\ p_exit # -1 /\ p_edits = 0 => k = 32 /\ (Pending!Passed => p_exit = 0)

PendingAt(k) ==
    /\ AtPlace(k) /\ PendingTypes /\ VersionsGrow(k) /\ IsolatedHeld(k)
    /\ Unmeddled(k) /\ ResultsKept(k) /\ ExitIsPassed(k)

\* The inductive invariant.
PendingInv == \E k \in 0..32 : PendingAt(k)

\* A step of the script is where its kind and its workspace say.
StepIsPlaced(step, i) ==
    /\ step[1] = "read" => \/ i = 1 /\ step[2] = "frontend"
                           \/ i = 2 /\ step[2] = "invariant"
    /\ step[1] = "sources" => step[2] \in Pending!Works /\ i = PlaceOf[step[2]]
    /\ step[1] = "invariant" => step[2] \in Pending!Works /\ i = PlaceOf[step[2]] + 1
    /\ step[1] = "mutate" => step[2] \in Pending!Mutants /\ i = PlaceOf[step[2]] + 2
    /\ step[1] = "isolate" => step[2] \in Pending!Mutants /\ i = ComparedAt(step[2])

\* The script, step by step.
LEMMA ScriptTable ==
  /\ Pending!Script[1] = <<"read", "frontend">>
  /\ Pending!Script[2] = <<"read", "invariant">>
  /\ Pending!Script[3] = <<"sources", "baseline">>
  /\ Pending!Script[4] = <<"invariant", "baseline">>
  /\ Pending!Script[5] = <<"baseline", "contract">>
  /\ Pending!Script[6] = <<"baseline", "bmc">>
  /\ Pending!Script[7] = <<"baseline", "cover">>
  /\ Pending!Script[8] = <<"sources", "omit_union">>
  /\ Pending!Script[9] = <<"invariant", "omit_union">>
  /\ Pending!Script[10] = <<"mutate", "omit_union">>
  /\ Pending!Script[11] = <<"isolate", "omit_union">>
  /\ Pending!Script[12] = <<"omit_union", "contract">>
  /\ Pending!Script[13] = <<"omit_union", "bmc">>
  /\ Pending!Script[14] = <<"sources", "weaken_assertion">>
  /\ Pending!Script[15] = <<"invariant", "weaken_assertion">>
  /\ Pending!Script[16] = <<"mutate", "weaken_assertion">>
  /\ Pending!Script[17] = <<"isolate", "weaken_assertion">>
  /\ Pending!Script[18] = <<"weaken_assertion", "contract">>
  /\ Pending!Script[19] = <<"weaken_assertion", "bmc">>
  /\ Pending!Script[20] = <<"weaken_assertion", "cover">>
  /\ Pending!Script[21] = <<"sources", "remove_assertion">>
  /\ Pending!Script[22] = <<"invariant", "remove_assertion">>
  /\ Pending!Script[23] = <<"mutate", "remove_assertion">>
  /\ Pending!Script[24] = <<"isolate", "remove_assertion">>
  /\ Pending!Script[25] = <<"remove_assertion", "contract">>
  /\ Pending!Script[26] = <<"remove_assertion", "bmc">>
  /\ Pending!Script[27] = <<"remove_assertion", "cover">>
  /\ Pending!Script[28] = <<"sources", "control_cover">>
  /\ Pending!Script[29] = <<"invariant", "control_cover">>
  /\ Pending!Script[30] = <<"mutate", "control_cover">>
  /\ Pending!Script[31] = <<"isolate", "control_cover">>
  /\ Pending!Script[32] = <<"control_cover", "contract">>
BY DEF Pending!Script

\* Every step is placed.
LEMMA ScriptSteps == \A i \in 1..32 : StepIsPlaced(Pending!Script[i], i)
<1>1. /\ StepIsPlaced(<<"read", "frontend">>, 1)
      /\ StepIsPlaced(<<"read", "invariant">>, 2)
      /\ StepIsPlaced(<<"sources", "baseline">>, 3)
      /\ StepIsPlaced(<<"invariant", "baseline">>, 4)
  BY DEF StepIsPlaced, Pending!Works, Pending!Mutants, Pending!Weakenings, PlaceOf, ComparedAt
<1>2. /\ StepIsPlaced(<<"baseline", "contract">>, 5)
      /\ StepIsPlaced(<<"baseline", "bmc">>, 6)
      /\ StepIsPlaced(<<"baseline", "cover">>, 7)
      /\ StepIsPlaced(<<"sources", "omit_union">>, 8)
  BY DEF StepIsPlaced, Pending!Works, Pending!Mutants, Pending!Weakenings, PlaceOf, ComparedAt
<1>3. /\ StepIsPlaced(<<"invariant", "omit_union">>, 9)
      /\ StepIsPlaced(<<"mutate", "omit_union">>, 10)
      /\ StepIsPlaced(<<"isolate", "omit_union">>, 11)
      /\ StepIsPlaced(<<"omit_union", "contract">>, 12)
  BY DEF StepIsPlaced, Pending!Works, Pending!Mutants, Pending!Weakenings, PlaceOf, ComparedAt
<1>4. /\ StepIsPlaced(<<"omit_union", "bmc">>, 13)
      /\ StepIsPlaced(<<"sources", "weaken_assertion">>, 14)
      /\ StepIsPlaced(<<"invariant", "weaken_assertion">>, 15)
      /\ StepIsPlaced(<<"mutate", "weaken_assertion">>, 16)
  BY DEF StepIsPlaced, Pending!Works, Pending!Mutants, Pending!Weakenings, PlaceOf, ComparedAt
<1>5. /\ StepIsPlaced(<<"isolate", "weaken_assertion">>, 17)
      /\ StepIsPlaced(<<"weaken_assertion", "contract">>, 18)
      /\ StepIsPlaced(<<"weaken_assertion", "bmc">>, 19)
      /\ StepIsPlaced(<<"weaken_assertion", "cover">>, 20)
  BY DEF StepIsPlaced, Pending!Works, Pending!Mutants, Pending!Weakenings, PlaceOf, ComparedAt
<1>6. /\ StepIsPlaced(<<"sources", "remove_assertion">>, 21)
      /\ StepIsPlaced(<<"invariant", "remove_assertion">>, 22)
      /\ StepIsPlaced(<<"mutate", "remove_assertion">>, 23)
      /\ StepIsPlaced(<<"isolate", "remove_assertion">>, 24)
  BY DEF StepIsPlaced, Pending!Works, Pending!Mutants, Pending!Weakenings, PlaceOf, ComparedAt
<1>7. /\ StepIsPlaced(<<"remove_assertion", "contract">>, 25)
      /\ StepIsPlaced(<<"remove_assertion", "bmc">>, 26)
      /\ StepIsPlaced(<<"remove_assertion", "cover">>, 27)
      /\ StepIsPlaced(<<"sources", "control_cover">>, 28)
  BY DEF StepIsPlaced, Pending!Works, Pending!Mutants, Pending!Weakenings, PlaceOf, ComparedAt
<1>8. /\ StepIsPlaced(<<"invariant", "control_cover">>, 29)
      /\ StepIsPlaced(<<"mutate", "control_cover">>, 30)
      /\ StepIsPlaced(<<"isolate", "control_cover">>, 31)
      /\ StepIsPlaced(<<"control_cover", "contract">>, 32)
  BY DEF StepIsPlaced, Pending!Works, Pending!Mutants, Pending!Weakenings, PlaceOf, ComparedAt
<1> SUFFICES ASSUME NEW i \in 1..32 PROVE StepIsPlaced(Pending!Script[i], i)
  OBVIOUS
<1>9. CASE i \in 1..8
  <2>1. i = 1 \/ i = 2 \/ i = 3 \/ i = 4 \/ i = 5 \/ i = 6 \/ i = 7 \/ i = 8
    BY <1>9
  <2> QED
    BY <1>1, <1>2, <2>1, ScriptTable, Zenon
<1>10. CASE i \in 9..16
  <2>1. i = 9 \/ i = 10 \/ i = 11 \/ i = 12 \/ i = 13 \/ i = 14 \/ i = 15 \/ i = 16
    BY <1>10
  <2> QED
    BY <1>3, <1>4, <2>1, ScriptTable, Zenon
<1>11. CASE i \in 17..24
  <2>1. i = 17 \/ i = 18 \/ i = 19 \/ i = 20 \/ i = 21 \/ i = 22 \/ i = 23 \/ i = 24
    BY <1>11
  <2> QED
    BY <1>5, <1>6, <2>1, ScriptTable, Zenon
<1>12. CASE i \in 25..32
  <2>1. i = 25 \/ i = 26 \/ i = 27 \/ i = 28 \/ i = 29 \/ i = 30 \/ i = 31 \/ i = 32
    BY <1>12
  <2> QED
    BY <1>7, <1>8, <2>1, ScriptTable, Zenon
<1> QED
  BY <1>9, <1>10, <1>11, <1>12

\* And every comparison.
LEMMA Comparisons ==
  \A w \in Pending!Mutants : ComparedAt(w) \in 11..31 /\ Pending!Script[ComparedAt(w)] = <<"isolate", w>>
BY ScriptTable DEF Pending!Mutants, Pending!Weakenings, PlaceOf, ComparedAt

\* The tasks, one by one.
LEMMA TasksAre ==
  Pending!Tasks = {<<"baseline", "contract">>, <<"baseline", "bmc">>, <<"baseline", "cover">>,
                   <<"omit_union", "contract">>, <<"omit_union", "bmc">>,
                   <<"weaken_assertion", "contract">>, <<"weaken_assertion", "bmc">>,
                   <<"weaken_assertion", "cover">>, <<"remove_assertion", "contract">>,
                   <<"remove_assertion", "bmc">>, <<"remove_assertion", "cover">>,
                   <<"control_cover", "contract">>}
BY DEF Pending!Tasks, Pending!Task, Pending!Works, Pending!Mutants, Pending!Weakenings

\* Every task is in the script, and is none of its other steps.
LEMMA TasksAreScripted ==
  /\ \A t \in Pending!Tasks : \E i \in 1..32 : Pending!Script[i] = t
  /\ \A t \in Pending!Tasks : t[1] \in Pending!Works
<1>1. \A t \in Pending!Tasks : \E i \in 1..32 : Pending!Script[i] = t
  BY TasksAre DEF Pending!Script
<1>2. \A t \in Pending!Tasks : t[1] \in Pending!Works
  BY TasksAre DEF Pending!Works, Pending!Mutants, Pending!Weakenings
<1> QED
  BY <1>1, <1>2

\* A step of the script moves one place on.
LEMMA PendingTakes ==
  ASSUME NEW k \in 0..32, AtPlace(k), p_todo # <<>>, p_todo' = Tail(p_todo)
  PROVE  /\ k + 1 \in 1..32 /\ AtPlace(k + 1)'
         /\ Head(p_todo) = Pending!Script[k + 1] /\ StepIsPlaced(Head(p_todo), k + 1)
<1>1. Len(p_todo) = 32 - k /\ Len(p_todo) > 0
  BY DEF AtPlace
<1>2. k + 1 \in 1..32 /\ Head(p_todo) = Pending!Script[k + 1]
  BY <1>1 DEF AtPlace
<1>3. StepIsPlaced(Head(p_todo), k + 1)
  BY <1>2, ScriptSteps, Zenon
<1>4. p_todo' \in Seq(PendingSteps) /\ Len(p_todo') = 32 - (k + 1)
      /\ \A i \in 1..(32 - (k + 1)) : p_todo'[i] = p_todo[i + 1]
  BY <1>1, <1>2 DEF AtPlace
<1>5. \A i \in 1..(32 - (k + 1)) : p_todo[i + 1] = Pending!Script[k + (i + 1)]
  BY <1>2 DEF AtPlace
<1>6. \A i \in 1..(32 - (k + 1)) : p_todo'[i] = Pending!Script[(k + 1) + i]
  BY <1>2, <1>4, <1>5
<1>7. AtPlace(k + 1)'
  BY <1>2, <1>4, <1>6 DEF AtPlace
<1> QED
  BY <1>2, <1>3, <1>7

\* A step that runs no tool keeps every result, and one that is no comparison
\* compares nothing.
LEMMA OtherSteps ==
  ASSUME NEW k \in 0..31, PendingAt(k)
  PROVE  /\ Pending!Script[k + 1][1] \in {"read", "sources", "invariant", "mutate", "isolate"} =>
              Pending!Script[k + 1] \notin Pending!Tasks
         /\ Pending!Script[k + 1] \notin Pending!Tasks /\ p_result' = p_result => ResultsKept(k + 1)'
         /\ Pending!Script[k + 1][1] # "isolate" =>
              \A w \in Pending!Mutants : ComparedAt(w) <= k + 1 => ComparedAt(w) <= k
<1>1. Pending!Script[k + 1][1] \in {"read", "sources", "invariant", "mutate", "isolate"} =>
        Pending!Script[k + 1] \notin Pending!Tasks
  BY TasksAreScripted DEF Pending!Works, Pending!Mutants, Pending!Weakenings
<1>2. ASSUME Pending!Script[k + 1] \notin Pending!Tasks, p_result' = p_result
      PROVE  ResultsKept(k + 1)'
  <2> SUFFICES ASSUME NEW i \in 1..(k + 1), Pending!Script[i] \in Pending!Tasks
               PROVE  p_result[Pending!Script[i]] # "none"
    BY <1>2 DEF ResultsKept
  <2>1. i \in 1..k
    BY <1>2
  <2> QED
    BY <2>1 DEF PendingAt, ResultsKept
<1>3. ASSUME Pending!Script[k + 1][1] # "isolate", NEW w \in Pending!Mutants,
             ComparedAt(w) <= k + 1
      PROVE  ComparedAt(w) <= k
  <2>1. ComparedAt(w) # k + 1
    <3>1. SUFFICES ASSUME ComparedAt(w) = k + 1 PROVE FALSE
      OBVIOUS
    <3>2. Pending!Script[k + 1] = <<"isolate", w>>
      BY <3>1, Comparisons, Zenon
    <3> QED
      BY <1>3, <3>2
  <2>2. ComparedAt(w) \in 11..31
    BY Comparisons
  <2> HIDE DEF ComparedAt
  <2> QED
    BY <1>3, <2>1, <2>2
<1> QED
  BY <1>1, <1>2, <1>3

\* Reading a text, before any workspace.
LEMMA PendingReads ==
  ASSUME NEW k \in 0..32, PendingAt(k), Pending!ReadText
  PROVE  k + 1 \in 0..32 /\ PendingAt(k + 1)'
<1> DEFINE f == Head(p_todo)[2]
<1>1. /\ k + 1 \in 1..32 /\ AtPlace(k + 1)' /\ Head(p_todo)[1] = "read"
      /\ Head(p_todo) = Pending!Script[k + 1] /\ StepIsPlaced(Head(p_todo), k + 1)
  BY PendingTakes, Zenon DEF PendingAt, Pending!ReadText, Pending!Step
<1>2. k <= 1 /\ f \in Pending!Files
  BY <1>1 DEF StepIsPlaced, Pending!Files
<1>3. /\ p_text' = [p_text EXCEPT ![f] = p_disk[f]]
      /\ p_exit' \in {-1} \cup (IF p_disk[f] = 0 THEN {} ELSE {1})
      /\ UNCHANGED <<p_disk, p_newest, p_restored, p_copied, p_isolated, p_result, p_edits,
                     p_trouble, p_truth>>
  BY Zenon DEF Pending!ReadText
<1> HIDE DEF f
<1>4. PendingTypes'
  BY <1>2, <1>3 DEF PendingAt, PendingTypes
<1>5. p_isolated = {}
  <2>1. SUFFICES ASSUME NEW w \in p_isolated PROVE FALSE
    OBVIOUS
  <2>2. ComparedAt(w) <= k /\ ComparedAt(w) \in 11..31
    BY Comparisons DEF PendingAt, IsolatedHeld, PendingTypes
  <2> QED
    BY <1>2, <2>2
<1>6. VersionsGrow(k + 1)'
  BY <1>2, <1>3 DEF PendingAt, PendingTypes, VersionsGrow, InOrder, Pending!Works
<1>7. IsolatedHeld(k + 1)'
  BY <1>3, <1>5 DEF IsolatedHeld
<1>8. Unmeddled(k + 1)' /\ ResultsKept(k + 1)'
  <2>1. \A w \in Pending!Mutants : ~(ComparedAt(w) <= k + 1)
    BY <1>2, Comparisons
  <2>2. Unmeddled(k + 1)'
    BY <1>2, <1>3, <2>1 DEF PendingAt, PendingTypes, Unmeddled, TrueVerdict
  <2> QED
    BY <1>1, <1>3, <2>2, OtherSteps
<1>9. ExitIsPassed(k + 1)'
  BY <1>2, <1>3 DEF PendingAt, Unmeddled, ExitIsPassed
<1>10. k + 1 \in 0..32
  BY <1>1
<1> QED
  BY <1>1, <1>4, <1>6, <1>7, <1>8, <1>9, <1>10, Zenon DEF PendingAt


\* A workspace is written before it is compared, and by nothing afterwards.
LEMMA PendingWrites ==
  ASSUME NEW k \in 0..31, PendingAt(k), NEW w \in Pending!Works,
         PlaceOf[w] <= k + 1, k + 1 <= PlaceOf[w] + 2,
         Pending!Script[k + 1] \notin Pending!Tasks, Pending!Script[k + 1][1] # "isolate",
         p_copied' \in [Pending!Works -> [Pending!Files -> Nat]],
         \A v \in Pending!Works : v # w => p_copied'[v] = p_copied[v],
         \A f \in Pending!Files :
            /\ f \in p_restored \/ p_copied'[w][f] <= p_disk[f]
            /\ p_edits = 0 => p_copied'[w][f] = 0,
         UNCHANGED <<p_disk, p_newest, p_restored, p_text, p_isolated, p_result, p_edits, p_trouble, p_truth>>
  PROVE  /\ \A f \in Pending!Files : p_disk'[f] <= p_newest'[f] /\ InOrder(f)'
         /\ IsolatedHeld(k + 1)' /\ Unmeddled(k + 1)' /\ ResultsKept(k + 1)'
<1>1. p_isolated \subseteq Pending!Mutants /\ Pending!Mutants \subseteq Pending!Works
  BY DEF PendingAt, PendingTypes, Pending!Works
<1>2. \A v \in Pending!Works : PlaceOf[v] \in 3..28 /\ ComparedAt(v) = PlaceOf[v] + 3
  BY DEF PlaceOf, ComparedAt, Pending!Works, Pending!Mutants, Pending!Weakenings
<1>3. \A f \in Pending!Files : p_disk'[f] <= p_newest'[f] /\ InOrder(f)'
  BY DEF PendingAt, VersionsGrow, InOrder
<1>4. IsolatedHeld(k + 1)'
  <2> HIDE DEF ComparedAt, PlaceOf
  <2>1. SUFFICES ASSUME NEW v \in p_isolated
                 PROVE  /\ ComparedAt(v) <= k + 1
                        /\ p_copied'[v]["frontend"] = p_text["frontend"]
                        /\ p_copied'[v]["invariant"] = p_text["invariant"]
    BY DEF IsolatedHeld
  <2>2. /\ ComparedAt(v) <= k /\ p_copied[v]["frontend"] = p_text["frontend"]
        /\ p_copied[v]["invariant"] = p_text["invariant"]
    BY DEF PendingAt, IsolatedHeld
  <2>3. v # w
    BY <1>1, <1>2, <2>2
  <2>4. p_copied'[v] = p_copied[v]
    BY <1>1, <2>3
  <2> QED
    BY <1>1, <1>2, <2>2, <2>4
<1>5. Unmeddled(k + 1)'
  <2>1. SUFFICES ASSUME p_edits = 0
                 PROVE  /\ \A f \in Pending!Files :
                              p_disk[f] = 0 /\ p_text[f] = 0 /\ \A v \in Pending!Works : p_copied'[v][f] = 0
                        /\ \A v \in Pending!Mutants : ComparedAt(v) <= k + 1 => v \in p_isolated
                        /\ \A t \in Pending!Tasks :
                              \/ p_result[t] \in {"none", TrueVerdict(t)}
                              \/ p_trouble > 0 /\ p_result[t] = Pending!Breakdown(t)
    BY Zenon DEF Unmeddled, TrueVerdict
  <2>2. \A v \in Pending!Mutants : ComparedAt(v) <= k + 1 => ComparedAt(v) <= k
    BY OtherSteps, Zenon
  <2>3. /\ \A f \in Pending!Files :
              p_disk[f] = 0 /\ p_text[f] = 0 /\ \A v \in Pending!Works : p_copied[v][f] = 0
        /\ \A v \in Pending!Mutants : ComparedAt(v) <= k => v \in p_isolated
        /\ \A t \in Pending!Tasks :
              \/ p_result[t] \in {"none", TrueVerdict(t)}
              \/ p_trouble > 0 /\ p_result[t] = Pending!Breakdown(t)
    BY <2>1, Zenon DEF PendingAt, Unmeddled
  <2>4. \A f \in Pending!Files, v \in Pending!Works : p_copied'[v][f] = 0
    BY <2>1, <2>3
  <2> QED
    BY <2>2, <2>3, <2>4, Zenon
<1>6. ResultsKept(k + 1)'
  BY OtherSteps, Zenon
<1> QED
  BY <1>3, <1>4, <1>5, <1>6

\* Copying the sources: everything but the invariant file.
LEMMA PendingCopiesSources ==
  ASSUME NEW k \in 0..32, PendingAt(k), Pending!CopySources
  PROVE  k + 1 \in 0..32 /\ PendingAt(k + 1)'
<1> DEFINE w == Head(p_todo)[2]
<1>1. /\ k + 1 \in 1..32 /\ AtPlace(k + 1)' /\ Head(p_todo)[1] = "sources"
      /\ Head(p_todo) = Pending!Script[k + 1] /\ StepIsPlaced(Head(p_todo), k + 1)
  BY PendingTakes, Zenon DEF PendingAt, Pending!CopySources, Pending!Step
<1>2. k \in 0..31 /\ w \in Pending!Works /\ k + 1 = PlaceOf[w]
  BY <1>1 DEF StepIsPlaced
<1>3. /\ p_copied' = [p_copied EXCEPT ![w].frontend = p_disk.frontend, ![w].other = p_disk.other]
      /\ UNCHANGED <<p_disk, p_newest, p_restored, p_text, p_isolated, p_result, p_exit, p_edits, p_trouble, p_truth>>
      /\ p_exit = -1
  BY Zenon DEF Pending!CopySources, Pending!Step
<1> HIDE DEF w
<1>4. /\ p_disk \in [Pending!Files -> Nat] /\ p_text \in [Pending!Files -> Nat]
      /\ p_copied \in [Pending!Works -> [Pending!Files -> Nat]]
  BY DEF PendingAt, PendingTypes
<1>5. /\ p_copied' \in [Pending!Works -> [Pending!Files -> Nat]]
      /\ \A v \in Pending!Works : v # w => p_copied'[v] = p_copied[v]
      /\ p_copied'[w]["frontend"] = p_disk["frontend"]
      /\ p_copied'[w]["other"] = p_disk["other"]
      /\ p_copied'[w]["invariant"] = p_copied[w]["invariant"]
  BY <1>2, <1>3, <1>4 DEF Pending!Files
<1>6. \A f \in Pending!Files :
         /\ f \in p_restored \/ p_copied'[w][f] <= p_disk[f]
         /\ p_edits = 0 => p_copied'[w][f] = 0
  BY <1>2, <1>4, <1>5 DEF PendingAt, VersionsGrow, InOrder, Unmeddled, Pending!Files
<1>7. Pending!Script[k + 1] \notin Pending!Tasks /\ Pending!Script[k + 1][1] # "isolate"
  BY <1>1, <1>2, OtherSteps
<1>8. /\ \A f \in Pending!Files : p_disk'[f] <= p_newest'[f] /\ InOrder(f)'
      /\ IsolatedHeld(k + 1)' /\ Unmeddled(k + 1)' /\ ResultsKept(k + 1)'
  <2>1. PlaceOf[w] <= k + 1 /\ k + 1 <= PlaceOf[w] + 2
    BY <1>2
  <2> QED
    BY <1>2, <1>3, <1>5, <1>6, <1>7, <2>1, PendingWrites, Zenon
<1>9. VersionsGrow(k + 1)'
  <2>1. /\ "frontend" \notin p_restored /\ k + 1 >= 3 => p_text'["frontend"] <= p_copied'["baseline"]["frontend"]
        /\ "frontend" \notin p_restored /\ k + 1 >= 14 =>
             p_copied'["baseline"]["frontend"] <= p_copied'["weaken_assertion"]["frontend"]
    BY <1>2, <1>3, <1>4, <1>5 DEF PendingAt, VersionsGrow, InOrder, PlaceOf, Pending!Files,
       Pending!Works, Pending!Mutants, Pending!Weakenings
  <2>2. \A v \in Pending!Works : p_copied'[v]["invariant"] = p_copied[v]["invariant"]
    BY <1>5
  <2>3. /\ "invariant" \notin p_restored /\ k + 1 >= 4 => p_text'["invariant"] <= p_copied'["baseline"]["invariant"]
        /\ "invariant" \notin p_restored /\ k + 1 >= 9 =>
             p_copied'["baseline"]["invariant"] <= p_copied'["omit_union"]["invariant"]
    BY <1>2, <1>3, <1>4, <2>2 DEF PendingAt, VersionsGrow, PlaceOf,
       Pending!Works, Pending!Mutants, Pending!Weakenings
  <2> QED
    BY <1>3, <1>8, <2>1, <2>3, Zenon DEF VersionsGrow
<1>10. PendingTypes'
  BY <1>3, <1>5, Zenon DEF PendingAt, PendingTypes
<1>11. ExitIsPassed(k + 1)'
  BY <1>3 DEF ExitIsPassed
<1>12. k + 1 \in 0..32
  BY <1>1
<1> QED
  BY <1>1, <1>8, <1>9, <1>10, <1>11, <1>12, Zenon DEF PendingAt
\* Copying the invariant file, afterwards.
LEMMA PendingCopiesInvariant ==
  ASSUME NEW k \in 0..32, PendingAt(k), Pending!CopyInvariant
  PROVE  k + 1 \in 0..32 /\ PendingAt(k + 1)'
<1> DEFINE w == Head(p_todo)[2]
<1>1. /\ k + 1 \in 1..32 /\ AtPlace(k + 1)' /\ Head(p_todo)[1] = "invariant"
      /\ Head(p_todo) = Pending!Script[k + 1] /\ StepIsPlaced(Head(p_todo), k + 1)
  BY PendingTakes, Zenon DEF PendingAt, Pending!CopyInvariant, Pending!Step
<1>2. k \in 0..31 /\ w \in Pending!Works /\ k + 1 = PlaceOf[w] + 1
  BY <1>1 DEF StepIsPlaced
<1>3. /\ p_copied' = [p_copied EXCEPT ![w].invariant = p_disk.invariant]
      /\ UNCHANGED <<p_disk, p_newest, p_restored, p_text, p_isolated, p_result, p_exit, p_edits, p_trouble, p_truth>>
      /\ p_exit = -1
  BY Zenon DEF Pending!CopyInvariant, Pending!Step
<1> HIDE DEF w
<1>4. /\ p_disk \in [Pending!Files -> Nat] /\ p_text \in [Pending!Files -> Nat]
      /\ p_copied \in [Pending!Works -> [Pending!Files -> Nat]]
  BY DEF PendingAt, PendingTypes
<1>5. /\ p_copied' \in [Pending!Works -> [Pending!Files -> Nat]]
      /\ \A v \in Pending!Works : v # w => p_copied'[v] = p_copied[v]
      /\ p_copied'[w]["frontend"] = p_copied[w]["frontend"]
      /\ p_copied'[w]["other"] = p_copied[w]["other"]
      /\ p_copied'[w]["invariant"] = p_disk["invariant"]
  BY <1>2, <1>3, <1>4 DEF Pending!Files
<1>6. \A f \in Pending!Files :
         /\ f \in p_restored \/ p_copied'[w][f] <= p_disk[f]
         /\ p_edits = 0 => p_copied'[w][f] = 0
  BY <1>2, <1>4, <1>5 DEF PendingAt, VersionsGrow, InOrder, Unmeddled, Pending!Files
<1>7. Pending!Script[k + 1] \notin Pending!Tasks /\ Pending!Script[k + 1][1] # "isolate"
  BY <1>1, <1>2, OtherSteps
<1>8. /\ \A f \in Pending!Files : p_disk'[f] <= p_newest'[f] /\ InOrder(f)'
      /\ IsolatedHeld(k + 1)' /\ Unmeddled(k + 1)' /\ ResultsKept(k + 1)'
  <2>1. PlaceOf[w] <= k + 1 /\ k + 1 <= PlaceOf[w] + 2
    BY <1>2 DEF PlaceOf, Pending!Works, Pending!Mutants, Pending!Weakenings
  <2> QED
    BY <1>2, <1>3, <1>5, <1>6, <1>7, <2>1, PendingWrites, Zenon
<1>9. VersionsGrow(k + 1)'
  <2>1. /\ "invariant" \notin p_restored /\ k + 1 >= 4 => p_text'["invariant"] <= p_copied'["baseline"]["invariant"]
        /\ "invariant" \notin p_restored /\ k + 1 >= 9 =>
             p_copied'["baseline"]["invariant"] <= p_copied'["omit_union"]["invariant"]
    BY <1>2, <1>3, <1>4, <1>5 DEF PendingAt, VersionsGrow, InOrder, PlaceOf, Pending!Files,
       Pending!Works, Pending!Mutants, Pending!Weakenings
  <2>2. \A v \in Pending!Works : p_copied'[v]["frontend"] = p_copied[v]["frontend"]
    BY <1>5
  <2>3. /\ "frontend" \notin p_restored /\ k + 1 >= 3 => p_text'["frontend"] <= p_copied'["baseline"]["frontend"]
        /\ "frontend" \notin p_restored /\ k + 1 >= 14 =>
             p_copied'["baseline"]["frontend"] <= p_copied'["weaken_assertion"]["frontend"]
    BY <1>2, <1>3, <1>4, <2>2 DEF PendingAt, VersionsGrow, PlaceOf,
       Pending!Works, Pending!Mutants, Pending!Weakenings
  <2> QED
    BY <1>3, <1>8, <2>1, <2>3, Zenon DEF VersionsGrow
<1>10. PendingTypes'
  BY <1>3, <1>5, Zenon DEF PendingAt, PendingTypes
<1>11. ExitIsPassed(k + 1)'
  BY <1>3 DEF ExitIsPassed
<1>12. k + 1 \in 0..32
  BY <1>1
<1> QED
  BY <1>1, <1>8, <1>9, <1>10, <1>11, <1>12, Zenon DEF PendingAt
\* Writing the mutated text, which may not be found to mutate.
LEMMA PendingMutates ==
  ASSUME NEW k \in 0..32, PendingAt(k), Pending!Mutate
  PROVE  k + 1 \in 0..32 /\ PendingAt(k + 1)'
<1> DEFINE w == Head(p_todo)[2]
<1>1. /\ k + 1 \in 1..32 /\ AtPlace(k + 1)' /\ Head(p_todo)[1] = "mutate"
      /\ Head(p_todo) = Pending!Script[k + 1] /\ StepIsPlaced(Head(p_todo), k + 1)
  BY PendingTakes, Zenon DEF PendingAt, Pending!Mutate, Pending!Step
<1>2. k \in 0..31 /\ w \in Pending!Mutants /\ w \in Pending!Works /\ k + 1 = PlaceOf[w] + 2
  BY <1>1 DEF StepIsPlaced, Pending!Works
<1>3. /\ p_copied' = [p_copied EXCEPT ![w][Pending!Target(w)] = p_text[Pending!Target(w)]]
      /\ UNCHANGED <<p_disk, p_newest, p_restored, p_text, p_isolated, p_result, p_edits, p_trouble, p_truth>>
      /\ p_exit' \in {-1} \cup (IF Pending!Target(w) = "invariant" /\ p_text.invariant # 0 THEN {1} ELSE {})
  BY Zenon DEF Pending!Mutate, Pending!Step
<1> HIDE DEF w
<1>4. /\ p_disk \in [Pending!Files -> Nat] /\ p_text \in [Pending!Files -> Nat]
      /\ p_copied \in [Pending!Works -> [Pending!Files -> Nat]]
  BY DEF PendingAt, PendingTypes
<1>5. /\ p_copied' \in [Pending!Works -> [Pending!Files -> Nat]]
      /\ \A v \in Pending!Works : v # w => p_copied'[v] = p_copied[v]
      /\ w = "omit_union" => p_copied'[w]["invariant"] = p_copied[w]["invariant"]
      /\ w # "omit_union" => p_copied'[w]["frontend"] = p_copied[w]["frontend"]
      /\ \A f \in Pending!Files : p_copied'[w][f] \in {p_copied[w][f], p_text[f]}
  BY <1>2, <1>3, <1>4 DEF Pending!Files, Pending!Target
<1>6. \A f \in Pending!Files :
         /\ f \in p_restored \/ p_copied'[w][f] <= p_disk[f]
         /\ p_edits = 0 => p_copied'[w][f] = 0
  BY <1>2, <1>4, <1>5 DEF PendingAt, VersionsGrow, InOrder, Unmeddled, Pending!Files
<1>7. Pending!Script[k + 1] \notin Pending!Tasks /\ Pending!Script[k + 1][1] # "isolate"
  BY <1>1, <1>2, OtherSteps
<1>8. /\ \A f \in Pending!Files : p_disk'[f] <= p_newest'[f] /\ InOrder(f)'
      /\ IsolatedHeld(k + 1)' /\ Unmeddled(k + 1)' /\ ResultsKept(k + 1)'
  <2>1. PlaceOf[w] <= k + 1 /\ k + 1 <= PlaceOf[w] + 2
    BY <1>2 DEF PlaceOf, Pending!Works, Pending!Mutants, Pending!Weakenings
  <2> QED
    BY <1>2, <1>3, <1>5, <1>6, <1>7, <2>1, PendingWrites, Zenon
<1>9. VersionsGrow(k + 1)'
  <2>1. /\ \A v \in Pending!Works : v # "omit_union" => p_copied'[v]["frontend"] = p_copied[v]["frontend"]
        /\ p_copied'["baseline"] = p_copied["baseline"]
        /\ p_copied'["omit_union"]["invariant"] = p_copied["omit_union"]["invariant"]
    BY <1>2, <1>5 DEF Pending!Works, Pending!Mutants, Pending!Weakenings
  <2>2. k # 2 /\ k # 3 /\ k # 8 /\ k # 13
    BY <1>2 DEF PlaceOf, Pending!Mutants, Pending!Weakenings
  <2>3. /\ "frontend" \notin p_restored /\ k + 1 >= 3 => p_text'["frontend"] <= p_copied'["baseline"]["frontend"]
        /\ "invariant" \notin p_restored /\ k + 1 >= 4 => p_text'["invariant"] <= p_copied'["baseline"]["invariant"]
        /\ "invariant" \notin p_restored /\ k + 1 >= 9 =>
             p_copied'["baseline"]["invariant"] <= p_copied'["omit_union"]["invariant"]
        /\ "frontend" \notin p_restored /\ k + 1 >= 14 =>
             p_copied'["baseline"]["frontend"] <= p_copied'["weaken_assertion"]["frontend"]
    BY <1>2, <1>3, <1>4, <2>1, <2>2 DEF PendingAt, VersionsGrow,
       Pending!Works, Pending!Mutants, Pending!Weakenings
  <2> QED
    BY <1>3, <1>8, <2>3, Zenon DEF VersionsGrow
<1>10. PendingTypes'
  <2>1. p_exit' \in {-1, 0, 1}
    BY <1>3
  <2> QED
    BY <1>3, <1>5, <2>1, Zenon DEF PendingAt, PendingTypes
<1>11. ExitIsPassed(k + 1)'
  <2>1. p_exit' # 0 /\ (p_edits = 0 => p_exit' = -1)
    BY <1>3 DEF PendingAt, Unmeddled, Pending!Files
  <2> QED
    BY <1>3, <2>1 DEF ExitIsPassed
<1>12. k + 1 \in 0..32
  BY <1>1
<1> QED
  BY <1>1, <1>8, <1>9, <1>10, <1>11, <1>12, Zenon DEF PendingAt

\* Comparing: a workspace is isolated when both files are what was read.
LEMMA PendingIsolates ==
  ASSUME NEW k \in 0..32, PendingAt(k), Pending!Isolate
  PROVE  k + 1 \in 0..32 /\ PendingAt(k + 1)'
<1> DEFINE w == Head(p_todo)[2]
<1>1. /\ k + 1 \in 1..32 /\ AtPlace(k + 1)' /\ Head(p_todo)[1] = "isolate"
      /\ Head(p_todo) = Pending!Script[k + 1] /\ StepIsPlaced(Head(p_todo), k + 1)
  BY PendingTakes, Zenon DEF PendingAt, Pending!Isolate, Pending!Step
<1>2. k \in 0..31 /\ w \in Pending!Mutants /\ k + 1 = ComparedAt(w)
  BY <1>1 DEF StepIsPlaced
<1>3. /\ p_isolated' = IF Pending!IsolatedNow(w) THEN p_isolated \cup {w} ELSE p_isolated
      /\ UNCHANGED <<p_disk, p_newest, p_restored, p_text, p_copied, p_result, p_exit, p_edits, p_trouble, p_truth>>
      /\ p_exit = -1
  BY Zenon DEF Pending!Isolate, Pending!Step
<1> HIDE DEF w
<1>4. \A v \in Pending!Mutants : ComparedAt(v) \in 11..31 /\ v \in Pending!Works
  BY Comparisons DEF Pending!Works
<1>5. \A v \in Pending!Mutants : ComparedAt(v) <= k + 1 => ComparedAt(v) <= k \/ v = w
  BY <1>2 DEF ComparedAt, PlaceOf, Pending!Mutants, Pending!Weakenings
<1> HIDE DEF ComparedAt
<1>6. PendingTypes'
  <2>1. p_isolated' \subseteq Pending!Mutants
    BY <1>2, <1>3, Zenon DEF PendingAt, PendingTypes
  <2> QED
    BY <1>3, <2>1, Zenon DEF PendingAt, PendingTypes
<1>7. VersionsGrow(k + 1)'
  <2>1. k + 1 \in 11..31
    BY <1>2, <1>4
  <2>2. \A n \in {3, 4, 9} : k >= n
    BY <2>1
  <2>3. k + 1 >= 14 => k >= 14
    <3>1. k # 13
      BY <1>2 DEF ComparedAt, PlaceOf, Pending!Mutants, Pending!Weakenings
    <3> QED
      BY <3>1
  <2> QED
    BY <1>3, <2>2, <2>3 DEF PendingAt, VersionsGrow, InOrder
<1>8. IsolatedHeld(k + 1)'
  <2>1. SUFFICES ASSUME NEW v \in p_isolated'
                 PROVE  /\ ComparedAt(v) <= k + 1
                        /\ p_copied[v]["frontend"] = p_text["frontend"]
                        /\ p_copied[v]["invariant"] = p_text["invariant"]
    BY <1>3, Zenon DEF IsolatedHeld
  <2>2. CASE v \in p_isolated
    <3>1. ComparedAt(v) \in 11..31
      BY <1>4, <2>2 DEF PendingAt, PendingTypes
    <3> QED
      BY <2>2, <3>1 DEF PendingAt, IsolatedHeld
  <2>3. CASE v \notin p_isolated
    <3>1. v = w /\ Pending!IsolatedNow(w)
      BY <1>3, <2>1, <2>3, Zenon
    <3> QED
      BY <1>2, <3>1 DEF Pending!IsolatedNow
  <2> QED
    BY <2>2, <2>3, Zenon
<1>9. Unmeddled(k + 1)'
  <2>1. SUFFICES ASSUME p_edits = 0
                 PROVE  /\ \A f \in Pending!Files :
                              p_disk[f] = 0 /\ p_text[f] = 0 /\ \A v \in Pending!Works : p_copied[v][f] = 0
                        /\ \A v \in Pending!Mutants : ComparedAt(v) <= k + 1 => v \in p_isolated'
                        /\ \A t \in Pending!Tasks :
                              \/ p_result[t] \in {"none", TrueVerdict(t)}
                              \/ p_trouble > 0 /\ p_result[t] = Pending!Breakdown(t)
    BY <1>3, Zenon DEF Unmeddled, TrueVerdict
  <2>2. /\ \A f \in Pending!Files :
              p_disk[f] = 0 /\ p_text[f] = 0 /\ \A v \in Pending!Works : p_copied[v][f] = 0
        /\ \A v \in Pending!Mutants : ComparedAt(v) <= k => v \in p_isolated
        /\ \A t \in Pending!Tasks :
              \/ p_result[t] \in {"none", TrueVerdict(t)}
              \/ p_trouble > 0 /\ p_result[t] = Pending!Breakdown(t)
    BY <2>1, Zenon DEF PendingAt, Unmeddled
  <2>3. Pending!IsolatedNow(w)
    BY <1>2, <1>4, <2>2 DEF Pending!IsolatedNow, Pending!Files
  <2>4. p_isolated' = p_isolated \cup {w}
    BY <1>3, <2>3, Zenon
  <2> QED
    BY <1>5, <2>2, <2>4, Zenon
<1>10. ResultsKept(k + 1)'
  BY <1>1, <1>2, <1>3, OtherSteps
<1>11. ExitIsPassed(k + 1)'
  BY <1>3 DEF ExitIsPassed
<1>12. k + 1 \in 0..32
  BY <1>1
<1> QED
  BY <1>1, <1>6, <1>7, <1>8, <1>9, <1>10, <1>11, <1>12, Zenon DEF PendingAt

\* Running a tool, which may break down.
LEMMA PendingRuns ==
  ASSUME NEW k \in 0..32, PendingAt(k), Pending!RunTool
  PROVE  k + 1 \in 0..32 /\ PendingAt(k + 1)'
<1> DEFINE t == Head(p_todo)
<1>1. k + 1 \in 1..32 /\ AtPlace(k + 1)' /\ t = Pending!Script[k + 1] /\ t \in Pending!Tasks
  BY PendingTakes, Zenon DEF PendingAt, Pending!RunTool
<1>2. /\ \/ p_result' = [p_result EXCEPT ![t] = Pending!Verdict(t)] /\ p_trouble' = p_trouble
         \/ /\ p_trouble' = p_trouble + 1
            /\ p_result' = [p_result EXCEPT ![t] = Pending!Breakdown(t)]
      /\ UNCHANGED <<p_disk, p_newest, p_restored, p_text, p_copied, p_isolated, p_exit, p_edits, p_truth>>
      /\ p_exit = -1
  BY Zenon DEF Pending!RunTool
<1> HIDE DEF t
<1>3. /\ Pending!Verdict(t) \in {"pass", "fail"} /\ Pending!Breakdown(t) \in {"fail", "error"}
      /\ p_result \in [Pending!Tasks -> {"none", "pass", "fail", "error"}] /\ p_trouble \in Nat
  BY DEF Pending!Verdict, Pending!Breakdown, PendingAt, PendingTypes
<1>4. /\ p_result' \in [Pending!Tasks -> {"none", "pass", "fail", "error"}]
      /\ p_result'[t] # "none" /\ p_trouble' \in Nat /\ p_trouble' >= p_trouble
      /\ \A u \in Pending!Tasks : u # t => p_result'[u] = p_result[u]
      /\ \/ p_result'[t] = Pending!Verdict(t)
         \/ p_trouble' > 0 /\ p_result'[t] = Pending!Breakdown(t)
  BY <1>1, <1>2, <1>3
<1>5. PendingTypes'
  BY <1>2, <1>4, Zenon DEF PendingAt, PendingTypes
<1>6. k \in 0..31 /\ t[1] \in Pending!Works
      /\ t[1] \notin {"read", "sources", "invariant", "mutate", "isolate"}
  BY <1>1, TasksAreScripted DEF Pending!Works, Pending!Mutants, Pending!Weakenings
<1>7. k \notin {2, 3, 8, 13}
  BY <1>1, <1>6, ScriptTable
<1>8. VersionsGrow(k + 1)'
  <2>1. \A n \in {3, 4, 9, 14} : k + 1 >= n => k >= n
    BY <1>6, <1>7
  <2> QED
    BY <1>2, <2>1 DEF PendingAt, VersionsGrow, InOrder
<1>9. \A w \in Pending!Mutants : ComparedAt(w) <= k + 1 => ComparedAt(w) <= k
  <2>1. Pending!Script[k + 1][1] # "isolate"
    BY <1>1, <1>6
  <2> QED
    BY <1>6, <2>1, OtherSteps, Zenon
<1>10. IsolatedHeld(k + 1)'
  <2> HIDE DEF ComparedAt
  <2>1. \A w \in p_isolated : ComparedAt(w) \in 11..31
    BY Comparisons DEF PendingAt, PendingTypes
  <2>2. \A w \in p_isolated : ComparedAt(w) <= k + 1
    BY <2>1 DEF PendingAt, IsolatedHeld
  <2> QED
    BY <1>2, <2>2, Zenon DEF PendingAt, IsolatedHeld
<1>11. Unmeddled(k + 1)'
  <2>1. SUFFICES ASSUME p_edits = 0
                 PROVE  /\ \A f \in Pending!Files :
                              p_disk[f] = 0 /\ p_text[f] = 0 /\ \A v \in Pending!Works : p_copied[v][f] = 0
                        /\ \A v \in Pending!Mutants : ComparedAt(v) <= k + 1 => v \in p_isolated
                        /\ \A u \in Pending!Tasks :
                              \/ p_result'[u] \in {"none", TrueVerdict(u)}
                              \/ p_trouble' > 0 /\ p_result'[u] = Pending!Breakdown(u)
    BY <1>2, Zenon DEF Unmeddled, TrueVerdict, Pending!Breakdown
  <2>2. /\ \A f \in Pending!Files :
              p_disk[f] = 0 /\ p_text[f] = 0 /\ \A v \in Pending!Works : p_copied[v][f] = 0
        /\ \A v \in Pending!Mutants : ComparedAt(v) <= k => v \in p_isolated
        /\ \A u \in Pending!Tasks :
              \/ p_result[u] \in {"none", TrueVerdict(u)}
              \/ p_trouble > 0 /\ p_result[u] = Pending!Breakdown(u)
    BY <2>1, Zenon DEF PendingAt, Unmeddled
  <2>3. p_copied[t[1]] = [f \in Pending!Files |-> 0]
    BY <1>6, <2>2 DEF PendingAt, PendingTypes
  <2>4. Pending!Verdict(t) = TrueVerdict(t)
    BY <2>3, Zenon DEF Pending!Verdict, TrueVerdict
  <2>5. p_trouble > 0 => p_trouble' > 0
    BY <1>3, <1>4
  <2>6. \A u \in Pending!Tasks :
           \/ p_result'[u] \in {"none", TrueVerdict(u)}
           \/ p_trouble' > 0 /\ p_result'[u] = Pending!Breakdown(u)
    BY <1>4, <2>2, <2>4, <2>5, Zenon
  <2> QED
    BY <1>9, <2>2, <2>6, Zenon
<1>12. ResultsKept(k + 1)'
  <2>1. SUFFICES ASSUME NEW i \in 1..(k + 1), Pending!Script[i] \in Pending!Tasks
                 PROVE  p_result'[Pending!Script[i]] # "none"
    BY DEF ResultsKept
  <2>2. CASE i = k + 1
    BY <1>1, <1>4, <2>2, Zenon
  <2>3. CASE i # k + 1
    <3>1. i \in 1..k
      BY <1>6, <2>3
    <3>2. p_result[Pending!Script[i]] # "none"
      BY <2>1, <3>1, Zenon DEF PendingAt, ResultsKept
    <3> QED
      BY <1>4, <2>1, <3>2, Zenon
  <2> QED
    BY <2>2, <2>3, Zenon
<1>13. ExitIsPassed(k + 1)'
  BY <1>2 DEF ExitIsPassed
<1>14. k + 1 \in 0..32
  BY <1>1
<1> QED
  BY <1>1, <1>5, <1>8, <1>10, <1>11, <1>12, <1>13, <1>14, Zenon DEF PendingAt

\* The exit status, at the end of the script.
LEMMA PendingFinishes ==
  ASSUME NEW k \in 0..32, PendingAt(k), Pending!Finish
  PROVE  PendingAt(k)'
<1>1. /\ p_exit = -1 /\ p_todo = <<>> /\ p_exit' = IF Pending!Passed THEN 0 ELSE 1
      /\ UNCHANGED <<p_disk, p_newest, p_restored, p_text, p_copied, p_isolated, p_todo, p_result, p_edits, p_trouble, p_truth>>
  BY Zenon DEF Pending!Finish
<1>2. k = 32
  BY <1>1 DEF PendingAt, AtPlace
<1>3. Pending!Passed' <=> Pending!Passed
  BY <1>1, Zenon DEF Pending!Passed, Pending!Killed
<1>4. ExitIsPassed(k)'
  BY <1>1, <1>2, <1>3 DEF ExitIsPassed
<1>5. PendingTypes'
  <2>1. p_exit' \in {-1, 0, 1}
    BY <1>1
  <2> QED
    BY <1>1, <2>1, Zenon DEF PendingAt, PendingTypes
<1> QED
  BY <1>1, <1>4, <1>5, Zenon DEF PendingAt, AtPlace, VersionsGrow, InOrder, IsolatedHeld, Unmeddled,
     TrueVerdict, ResultsKept, Pending!Breakdown

\* An edit makes a later version than any before it.
LEMMA PendingEdited ==
  ASSUME NEW k \in 0..32, PendingAt(k), NEW f \in Pending!Files, Pending!Edit(f)
  PROVE  PendingAt(k)'
<1>1. /\ p_exit = -1 /\ p_edits' = p_edits + 1
      /\ p_newest' = [p_newest EXCEPT ![f] = @ + 1] /\ p_disk' = [p_disk EXCEPT ![f] = p_newest[f] + 1]
      /\ UNCHANGED <<p_restored, p_text, p_copied, p_isolated, p_todo, p_result, p_exit,
                     p_trouble, p_truth>>
  BY Zenon DEF Pending!Edit
<1>2. /\ p_edits' \in Nat /\ p_edits' # 0
      /\ p_disk' \in [Pending!Files -> Nat] /\ p_newest' \in [Pending!Files -> Nat]
  BY <1>1 DEF PendingAt, PendingTypes
<1>3. \A g \in Pending!Files : p_disk[g] <= p_disk'[g] /\ p_disk'[g] <= p_newest'[g]
  BY <1>1 DEF PendingAt, PendingTypes, VersionsGrow
<1>4. PendingTypes'
  BY <1>1, <1>2, Zenon DEF PendingAt, PendingTypes
<1>5. VersionsGrow(k)'
  <2>1. ASSUME NEW g \in Pending!Files PROVE InOrder(g)'
    BY <1>1, <1>2, <1>3 DEF PendingAt, PendingTypes, VersionsGrow, InOrder
  <2> QED
    BY <1>1, <1>3, <2>1, Zenon DEF PendingAt, VersionsGrow
<1>6. AtPlace(k)' /\ IsolatedHeld(k)' /\ ResultsKept(k)'
  BY <1>1, Zenon DEF PendingAt, AtPlace, IsolatedHeld, ResultsKept
<1>7. Unmeddled(k)' /\ ExitIsPassed(k)'
  BY <1>1, <1>2 DEF Unmeddled, ExitIsPassed
<1> QED
  BY <1>4, <1>5, <1>6, <1>7, Zenon DEF PendingAt

\* A file put back is no longer in order.
LEMMA PendingPutBack ==
  ASSUME NEW k \in 0..32, PendingAt(k), NEW f \in Pending!Files, Pending!PutBack(f)
  PROVE  PendingAt(k)'
<1>1. /\ p_exit = -1 /\ p_edits' = p_edits + 1 /\ p_restored' = p_restored \cup {f}
      /\ UNCHANGED <<p_newest, p_text, p_copied, p_isolated, p_todo, p_result, p_exit,
                     p_trouble, p_truth>>
  BY Zenon DEF Pending!PutBack
<1>2. PICK v \in 0 .. p_newest[f] : p_disk' = [p_disk EXCEPT ![f] = v]
  BY Zenon DEF Pending!PutBack
<1>3. /\ p_edits' \in Nat /\ p_edits' # 0 /\ p_disk' \in [Pending!Files -> Nat]
      /\ \A g \in Pending!Files : p_disk'[g] <= p_newest[g] /\ (g # f => p_disk'[g] = p_disk[g])
  BY <1>1, <1>2 DEF PendingAt, PendingTypes, VersionsGrow
<1>4. PendingTypes'
  BY <1>1, <1>3, Zenon DEF PendingAt, PendingTypes
<1>5. VersionsGrow(k)'
  <2>1. ASSUME NEW g \in Pending!Files PROVE InOrder(g)'
    BY <1>1, <1>3 DEF PendingAt, VersionsGrow, InOrder
  <2> QED
    BY <1>1, <1>3, <2>1, Zenon DEF PendingAt, VersionsGrow
<1>6. AtPlace(k)' /\ IsolatedHeld(k)' /\ ResultsKept(k)'
  BY <1>1, Zenon DEF PendingAt, AtPlace, IsolatedHeld, ResultsKept
<1>7. Unmeddled(k)' /\ ExitIsPassed(k)'
  BY <1>1, <1>3 DEF Unmeddled, ExitIsPassed
<1> QED
  BY <1>4, <1>5, <1>6, <1>7, Zenon DEF PendingAt

\* The wanted outcomes are outcomes of tasks.
LEMMA TruthsAreTasks == Pending!Init => p_truth \subseteq Pending!Tasks
<1> SUFFICES ASSUME Pending!Init PROVE p_truth \subseteq Pending!Tasks
  OBVIOUS
<1>1. PICK odd \in UNION {Pending!kSubset(n, Pending!Tasks) : n \in 0 .. PendingOdd} :
         p_truth = Pending!SymDiff(Pending!Wanted, odd)
  BY DEF Pending!Init
<1>2. odd \subseteq Pending!Tasks
  BY <1>1 DEF Pending!kSubset
<1> QED
  BY <1>1, <1>2 DEF Pending!SymDiff, Pending!Wanted

LEMMA PendingInitInv == Pending!Init => PendingInv
<1> SUFFICES ASSUME Pending!Init PROVE PendingAt(0)
  BY DEF PendingInv
<1>1. /\ p_disk = [f \in Pending!Files |-> 0] /\ p_newest = p_disk /\ p_restored = {}
      /\ p_text = p_disk
      /\ p_copied = [w \in Pending!Works |-> p_disk] /\ p_isolated = {}
      /\ p_todo = Pending!Script /\ p_result = [t \in Pending!Tasks |-> "none"]
      /\ p_exit = -1 /\ p_edits = 0 /\ p_trouble = 0
  BY Zenon DEF Pending!Init
<1>2. PendingTypes
  BY <1>1, TruthsAreTasks DEF PendingTypes
<1>3. AtPlace(0)
  <2>1. Pending!Script \in Seq({Pending!Script[i] : i \in 1..32}) /\ Len(Pending!Script) = 32
    BY DEF Pending!Script
  <2> QED
    BY <1>1, <2>1 DEF AtPlace, PendingSteps
<1>4. VersionsGrow(0) /\ IsolatedHeld(0) /\ ResultsKept(0) /\ ExitIsPassed(0)
  BY <1>1 DEF VersionsGrow, InOrder, IsolatedHeld, ResultsKept, ExitIsPassed
<1>5. Unmeddled(0)
  <2>1. \A w \in Pending!Mutants : ~(ComparedAt(w) <= 0)
    BY Comparisons
  <2> QED
    BY <1>1, <2>1 DEF Unmeddled
<1> QED
  BY <1>2, <1>3, <1>4, <1>5, Zenon DEF PendingAt

LEMMA PendingNextInv == PendingInv /\ [Pending!Next]_(Pending!vars) => PendingInv'
<1> SUFFICES ASSUME NEW k \in 0..32, PendingAt(k), [Pending!Next]_(Pending!vars)
             PROVE  \E j \in 0..32 : PendingAt(j)'
  BY DEF PendingInv
<1>1. CASE UNCHANGED Pending!vars
  <2>1. UNCHANGED <<p_disk, p_newest, p_restored, p_text, p_copied, p_isolated, p_todo, p_result, p_exit, p_edits,
                    p_trouble, p_truth>>
    BY <1>1 DEF Pending!vars
  <2>2. VersionsGrow(k)'
    BY <2>1, Zenon DEF PendingAt, VersionsGrow, InOrder
  <2>3. PendingAt(k)'
    BY <2>1, <2>2, Zenon DEF PendingAt, AtPlace, PendingTypes, IsolatedHeld,
       Unmeddled, TrueVerdict, ResultsKept, ExitIsPassed, Pending!Passed, Pending!Killed, Pending!Breakdown
  <2> QED
    BY <2>3, Zenon
<1>2. CASE Pending!Finish
  BY <1>2, PendingFinishes, Zenon
<1>3. CASE \E f \in Pending!Files : Pending!Edit(f) \/ Pending!PutBack(f)
  BY <1>3, PendingEdited, PendingPutBack, Zenon
<1> QED
  BY <1>1, <1>2, <1>3, PendingReads, PendingCopiesSources, PendingCopiesInvariant,
     PendingMutates, PendingIsolates, PendingRuns, Zenon DEF Pending!Next

\* Of a file that is never put back, every copy of the baseline lies between the text
\* read and a copy compared with it.
LEMMA PendingOneSource ==
  ASSUME NEW k \in 0..32, PendingAt(k) PROVE Pending!OneSource
<1> SUFFICES ASSUME p_exit = 0, NEW f \in {"frontend", "invariant"}, NEW w \in Pending!Works
             PROVE  p_copied[w][f] = p_text[f] \/ (w = "baseline" /\ f \in p_restored)
  BY DEF Pending!OneSource
<1>1. k = 32 /\ Pending!Passed
  BY DEF PendingAt, ExitIsPassed
<1>2. \A v \in Pending!Mutants : v \in p_isolated
  BY <1>1, Zenon DEF Pending!Passed, Pending!Killed, Pending!Mutants
<1>3. \A v \in Pending!Mutants : /\ p_copied[v]["frontend"] = p_text["frontend"]
                                 /\ p_copied[v]["invariant"] = p_text["invariant"]
  BY <1>2, Zenon DEF PendingAt, IsolatedHeld
<1>4. CASE w \in Pending!Mutants
  BY <1>3, <1>4
<1>5. CASE w = "baseline" /\ f \notin p_restored
  <2>1. /\ p_copied["weaken_assertion"]["frontend"] = p_text["frontend"]
        /\ p_copied["omit_union"]["invariant"] = p_text["invariant"]
    BY <1>3 DEF Pending!Mutants, Pending!Weakenings
  <2>2. /\ p_text["frontend"] \in Nat /\ p_copied["baseline"]["frontend"] \in Nat
        /\ p_text["invariant"] \in Nat /\ p_copied["baseline"]["invariant"] \in Nat
    BY DEF PendingAt, PendingTypes, Pending!Files, Pending!Works
  <2>3. CASE f = "frontend"
    <3>1. /\ p_text["frontend"] <= p_copied["baseline"]["frontend"]
          /\ p_copied["baseline"]["frontend"] <= p_copied["weaken_assertion"]["frontend"]
      BY <1>1, <1>5, <2>3 DEF PendingAt, VersionsGrow
    <3> QED
      BY <1>5, <2>1, <2>2, <2>3, <3>1
  <2>4. CASE f = "invariant"
    <3>1. /\ p_text["invariant"] <= p_copied["baseline"]["invariant"]
          /\ p_copied["baseline"]["invariant"] <= p_copied["omit_union"]["invariant"]
      BY <1>1, <1>5, <2>4 DEF PendingAt, VersionsGrow
    <3> QED
      BY <1>5, <2>1, <2>2, <2>4, <3>1
  <2> QED
    BY <2>3, <2>4
<1> QED
  BY <1>4, <1>5 DEF Pending!Works

\* Without an edit, a verdict that is wanted is true, and one that is not wanted is
\* unless the validator broke down.
LEMMA PendingEarned ==
  ASSUME NEW k \in 0..32, PendingAt(k) PROVE Pending!PassIsEarned
<1> SUFFICES ASSUME p_exit = 0, p_edits = 0
             PROVE  /\ Pending!Wanted \subseteq p_truth
                    /\ Pending!Task("omit_union", "bmc") \notin p_truth
                    /\ p_trouble = 0 => p_truth = Pending!Wanted
  BY DEF Pending!PassIsEarned
<1>1. Pending!Passed
  BY DEF PendingAt, ExitIsPassed
<1>2. \A t \in Pending!Tasks :
         \/ p_result[t] \in {"none", TrueVerdict(t)}
         \/ p_trouble > 0 /\ p_result[t] = Pending!Breakdown(t)
  BY Zenon DEF PendingAt, Unmeddled
<1>3. \A t \in Pending!Tasks :
         /\ p_result[t] = "pass" => t \in p_truth
         /\ p_result[t] = "fail" /\ (t[2] # "contract" \/ p_trouble = 0) => t \notin p_truth
  BY <1>2 DEF TrueVerdict, Pending!Breakdown
<1>4. /\ p_result[<<"baseline", "contract">>] = "pass" /\ p_result[<<"baseline", "bmc">>] = "pass"
      /\ p_result[<<"baseline", "cover">>] = "pass"
      /\ p_result[<<"omit_union", "contract">>] = "pass" /\ p_result[<<"omit_union", "bmc">>] = "fail"
      /\ p_result[<<"weaken_assertion", "contract">>] = "fail"
      /\ p_result[<<"weaken_assertion", "bmc">>] = "pass" /\ p_result[<<"weaken_assertion", "cover">>] = "pass"
      /\ p_result[<<"remove_assertion", "contract">>] = "fail"
      /\ p_result[<<"remove_assertion", "bmc">>] = "pass" /\ p_result[<<"remove_assertion", "cover">>] = "pass"
      /\ p_result[<<"control_cover", "contract">>] = "pass"
  BY <1>1 DEF Pending!Passed, Pending!Killed, Pending!Task, Pending!Weakenings
<1>5. /\ \A t \in Pending!Tasks \ {<<"omit_union", "bmc">>, <<"weaken_assertion", "contract">>,
                                   <<"remove_assertion", "contract">>} : p_result[t] = "pass"
      /\ \A t \in {<<"omit_union", "bmc">>, <<"weaken_assertion", "contract">>,
                   <<"remove_assertion", "contract">>} : t \in Pending!Tasks /\ p_result[t] = "fail"
  BY <1>4, TasksAre, Zenon
<1>6. Pending!Wanted = Pending!Tasks \ {<<"omit_union", "bmc">>, <<"weaken_assertion", "contract">>,
                                        <<"remove_assertion", "contract">>}
  BY DEF Pending!Wanted, Pending!Task, Pending!Weakenings
<1>7. p_truth \subseteq Pending!Tasks
  BY DEF PendingAt, PendingTypes
<1>8. Pending!Wanted \subseteq p_truth
  BY <1>3, <1>5, <1>6, Zenon
<1>9. Pending!Task("omit_union", "bmc") \notin p_truth
  BY <1>3, <1>5 DEF Pending!Task
<1>10. ASSUME p_trouble = 0 PROVE p_truth = Pending!Wanted
  BY <1>3, <1>5, <1>6, <1>7, <1>8, <1>10, Zenon
<1> QED
  BY <1>8, <1>9, <1>10

\* Unmeddled, every workspace is isolated and every verdict true and there.
LEMMA PendingPasses ==
  ASSUME NEW k \in 0..32, PendingAt(k) PROVE Pending!EarnedPasses
<1> SUFFICES ASSUME p_exit # -1, p_edits = 0, p_trouble = 0, p_truth = Pending!Wanted
             PROVE  p_exit = 0
  BY DEF Pending!EarnedPasses
<1>1. k = 32 /\ (Pending!Passed => p_exit = 0)
  BY DEF PendingAt, ExitIsPassed
<1>2. \A w \in Pending!Mutants : w \in p_isolated
  <2>1. \A w \in Pending!Mutants : ComparedAt(w) <= k
    BY <1>1, Comparisons
  <2> QED
    BY <2>1, Zenon DEF PendingAt, Unmeddled
<1>3. \A t \in Pending!Tasks : p_result[t] \in {"none", TrueVerdict(t)}
  BY DEF PendingAt, Unmeddled
<1>4. \A t \in Pending!Tasks : p_result[t] # "none"
  BY <1>1, TasksAreScripted, Zenon DEF PendingAt, ResultsKept
<1>5. \A t \in Pending!Tasks : p_result[t] = IF t \in Pending!Wanted THEN "pass" ELSE "fail"
  BY <1>3, <1>4, Zenon DEF TrueVerdict
<1>6. Pending!Wanted = Pending!Tasks \ {<<"omit_union", "bmc">>, <<"weaken_assertion", "contract">>,
                                        <<"remove_assertion", "contract">>}
  BY DEF Pending!Wanted, Pending!Task, Pending!Weakenings
<1>7. Pending!Passed
  <2>1. /\ p_result[<<"baseline", "contract">>] = "pass" /\ p_result[<<"baseline", "bmc">>] = "pass"
        /\ p_result[<<"baseline", "cover">>] = "pass"
        /\ p_result[<<"omit_union", "contract">>] = "pass" /\ p_result[<<"omit_union", "bmc">>] = "fail"
        /\ p_result[<<"weaken_assertion", "contract">>] = "fail"
        /\ p_result[<<"weaken_assertion", "bmc">>] = "pass" /\ p_result[<<"weaken_assertion", "cover">>] = "pass"
        /\ p_result[<<"remove_assertion", "contract">>] = "fail"
        /\ p_result[<<"remove_assertion", "bmc">>] = "pass" /\ p_result[<<"remove_assertion", "cover">>] = "pass"
        /\ p_result[<<"control_cover", "contract">>] = "pass"
    BY <1>5, <1>6, TasksAre
  <2>2. /\ "omit_union" \in p_isolated /\ "weaken_assertion" \in p_isolated
        /\ "remove_assertion" \in p_isolated /\ "control_cover" \in p_isolated
    BY <1>2 DEF Pending!Mutants, Pending!Weakenings
  <2> QED
    BY <2>1, <2>2 DEF Pending!Passed, Pending!Killed, Pending!Task, Pending!Weakenings
<1> QED
  BY <1>1, <1>7

\* However often the files are edited and edits undone, whichever tools break down
\* and whatever the tools would say: every mutant of a passing pending gate was made
\* from the frontend and invariant text read at the start, and the baseline ran on it
\* too unless that file was put back meanwhile; unedited, a pass is what the receipt
\* claims; and nothing else stands in the way of a pass (main of
\* check_blake3_pending_invariant.py).
THEOREM PendingGateStaysHonest == Pending!Spec => []PendingGateIsHonest
<1>1. PendingInv => PendingGateIsHonest
  BY PendingOneSource, PendingEarned, PendingPasses, Zenon
     DEF PendingInv, PendingGateIsHonest, Pending!PendingGateIsHonest
<1> QED
  BY <1>1, PendingInitInv, PendingNextInv, PTL DEF Pending!Spec
=============================================================================
