-------------------------- MODULE RepoToolsProofs ---------------------------
(***************************************************************************)
(* Proofs about the repository's process and file tools: BuildPublish, for *)
(* any builds, recipes, edits, kills and hang-ups; SubprocessTree, for any *)
(* processes the command may fork; CompilerArtifact and WorkloadValidation,*)
(* for any commits, texts and edits; UpstreamComparison, for any trace.    *)
(***************************************************************************)
EXTENDS MCRepoTools, Sequences, TLAPS

-----------------------------------------------------------------------------
(* The inductive invariant of BuildPublish                                 *)

Entry == [bit : Nat, sums : Nat, manifest : Nat]
Archive == [Recipes -> Entry]

Steps == {"idle", "locking", "copy", "record", "synth", "pack", "sums", "check",
          "publish", "rmtree", "exit", "done"}

\* The steps between Copy and the exchange, and those of them after Record.
Staging == {"record", "synth", "pack", "sums", "check", "publish"}
Recorded == {"synth", "pack", "sums", "check", "publish"}

Whole(entry) == entry.sums = entry.bit /\ entry.manifest = entry.bit

PublishTypes ==
    /\ recipe \in [Builds -> Recipes]
    /\ pc \in [Builds -> Steps]
    /\ source \in Nat
    /\ top \in [Recipes -> Nat]
    /\ recorded \in [Builds -> Nat]
    /\ archive \in Archive
    /\ stage \in [Builds -> Archive \cup {None}]
    /\ \A b \in Builds : pc[b] \in Staging => stage[b] \in Archive

\* What a build has staged: the other recipes' entries are whole, and its own
\* is made of what the sources were from Record on.  Sources only move
\* forward, so a version that is neither older than the recorded one nor newer
\* than the present one is the one in between when those two are equal.
Faithful(b) ==
    LET own == stage[b][recipe[b]]
    IN  /\ pc[b] \in Staging => \A r \in Recipes \ {recipe[b]} : Whole(stage[b][r])
        /\ pc[b] \in Recorded => own.manifest = recorded[b] /\ recorded[b] <= source
        /\ pc[b] = "pack" => recorded[b] <= top[recipe[b]]
        /\ pc[b] \in {"sums", "check"} => recorded[b] <= own.bit /\ own.bit <= source
        /\ pc[b] = "publish" => Whole(own)

StageIsFaithful == \A b \in Builds : Faithful(b)

\* The lock serves one script at a time until a wrapper hangs up.
LockIsHeld ==
    hung = {} =>
        /\ \A b \in Builds : Running(b) => lock = b
        /\ \A b \in Builds : pc[b] \in Staging =>
              \A r \in Recipes \ {recipe[b]} : stage[b][r] = archive[r]

\* What is built is never ahead of its sources.
BuiltIsOld == \A r \in Recipes : top[r] <= source

PInv ==
    /\ PublishTypes
    /\ StageIsFaithful
    /\ LockIsHeld
    /\ BuiltIsOld
    /\ PublicationIsSound

-----------------------------------------------------------------------------
(* Every step keeps it                                                     *)

LEMMA PublishInitInv == Init => PInv
<1> SUFFICES ASSUME Init PROVE PInv
  OBVIOUS
<1> USE DEF Init
<1>1. PublishTypes
  BY DEF PublishTypes, Archive, Entry, Steps, Staging
<1>2. StageIsFaithful /\ LockIsHeld /\ BuiltIsOld
  BY DEF StageIsFaithful, Faithful, LockIsHeld, BuiltIsOld, Staging, Recorded, Running
<1>3. PublicationIsSound
  BY DEF PublicationIsSound, ArchiveIsWhole, NoLostPublication, StageRemoved
<1> QED
  BY <1>1, <1>2, <1>3 DEF PInv

\* Sources move forward.
LEMMA EditInv ==
  ASSUME PInv, EditSource PROVE PInv'
<1>1. /\ source' = source + 1
      /\ UNCHANGED <<recipe, pc, lock, top, stage, recorded, archive, published, killed, hung>>
  BY DEF EditSource
<1>2. PublishTypes' /\ BuiltIsOld'
  BY <1>1 DEF PInv, PublishTypes, BuiltIsOld
<1>3. StageIsFaithful'
  <2> SUFFICES ASSUME NEW b \in Builds PROVE Faithful(b)'
    BY DEF StageIsFaithful
  <2>1. recorded[b] \in Nat /\ source \in Nat
    BY DEF PInv, PublishTypes
  <2>2. pc[b] \in {"sums", "check"} => stage[b][recipe[b]].bit \in Nat
    BY DEF PInv, PublishTypes, Archive, Entry, Staging
  <2>3. Faithful(b)
    BY DEF PInv, StageIsFaithful
  <2> QED
    BY <1>1, <2>1, <2>2, <2>3 DEF Faithful
<1>4. LockIsHeld' /\ PublicationIsSound'
  BY <1>1, Zenon
  DEF PInv, LockIsHeld, Running, PublicationIsSound, ArchiveIsWhole, NoLostPublication,
      StageRemoved
<1> QED
  BY <1>2, <1>3, <1>4 DEF PInv

\* A build's own step leaves the others' stages alone.
LEMMA OthersStayFaithful ==
  ASSUME PInv, NEW b \in Builds, NEW x \in Builds \ {b}, UNCHANGED <<recipe, source>>,
         pc'[x] = pc[x], stage'[x] = stage[x], recorded'[x] = recorded[x],
         top' = top \/ top' = [top EXCEPT ![recipe[b]] = source]
  PROVE  Faithful(x)'
<1>1. Faithful(x)
  BY DEF PInv, StageIsFaithful
<1>2. pc[x] = "pack" => recorded[x] <= top'[recipe[x]]
  BY <1>1 DEF PInv, PublishTypes, Faithful, Recorded
<1> QED
  BY <1>1, <1>2, Zenon DEF Faithful, Whole

\* Steps of a build that publish nothing: what has to be shown is about it.
LEMMA BuildStepInv ==
  ASSUME PInv, NEW b \in Builds, NEW next \in Steps \ {"idle", "done"},
         Running(b), pc' = [pc EXCEPT ![b] = next],
         UNCHANGED <<recipe, lock, source, archive, published, killed, hung>>,
         top' = top \/ top' = [top EXCEPT ![recipe[b]] = source],
         recorded' = recorded \/ recorded' = [recorded EXCEPT ![b] = source],
         NEW staged \in Archive \cup {None}, stage' = [stage EXCEPT ![b] = staged],
         next \in Staging => staged \in Archive,
         Faithful(b)',
         hung = {} /\ next \in Staging =>
            \A r \in Recipes \ {recipe[b]} : staged[r] = archive[r]
  PROVE  PInv'
<1>1. /\ pc \in [Builds -> Steps] /\ stage \in [Builds -> Archive \cup {None}] /\ recipe \in [Builds -> Recipes]
      /\ source \in Nat /\ top \in [Recipes -> Nat] /\ recorded \in [Builds -> Nat]
  BY DEF PInv, PublishTypes
<1>2. pc'[b] = next /\ stage'[b] = staged
  BY <1>1
<1>3. ASSUME NEW x \in Builds \ {b}
      PROVE  pc'[x] = pc[x] /\ stage'[x] = stage[x] /\ recorded'[x] = recorded[x]
  BY <1>1
<1>4. PublishTypes'
  <2>1. \A x \in Builds : pc'[x] \in Staging => stage'[x] \in Archive
    BY <1>2, <1>3 DEF PInv, PublishTypes
  <2> QED
    BY <1>1, <2>1 DEF PInv, PublishTypes
<1>5. StageIsFaithful'
  BY <1>3, OthersStayFaithful DEF StageIsFaithful
<1>6. LockIsHeld'
  <2> SUFFICES ASSUME hung = {}, NEW x \in Builds
               PROVE  /\ Running(x)' => lock = x
                      /\ pc'[x] \in Staging =>
                            \A r \in Recipes \ {recipe[x]} : stage'[x][r] = archive[r]
    BY DEF LockIsHeld
  <2>1. CASE x = b
    BY <1>2, <2>1 DEF PInv, LockIsHeld
  <2>2. CASE x # b
    <3>1. pc'[x] = pc[x] /\ stage'[x] = stage[x]
      BY <1>3, <2>2
    <3> QED
      BY <3>1 DEF PInv, LockIsHeld, Running
  <2> QED
    BY <2>1, <2>2
<1>7. BuiltIsOld'
  BY <1>1 DEF PInv, BuiltIsOld
<1>8. PublicationIsSound'
  <2>1. \A x \in Builds : pc'[x] = "done" /\ x \notin killed => stage'[x] = None
    BY <1>2, <1>3 DEF PInv, PublicationIsSound, StageRemoved
  <2> QED
    BY <2>1 DEF PInv, PublicationIsSound, ArchiveIsWhole, NoLostPublication, StageRemoved
<1> QED
  BY <1>4, <1>5, <1>6, <1>7, <1>8 DEF PInv

\* What a running build's fields are.
LEMMA BuildTypes ==
  ASSUME PInv, NEW b \in Builds
  PROVE  /\ recipe[b] \in Recipes
         /\ source \in Nat /\ top[recipe[b]] \in Nat /\ recorded[b] \in Nat
         /\ top[recipe[b]] <= source
         /\ pc[b] \in Staging => stage[b] \in Archive
         /\ Faithful(b)
         /\ hung = {} /\ pc[b] \in Staging =>
               \A r \in Recipes \ {recipe[b]} : stage[b][r] = archive[r]
  BY DEF PInv, PublishTypes, BuiltIsOld, StageIsFaithful, LockIsHeld

\* A stage whose own entry is replaced is still an archive, and its other
\* entries are what they were.
LEMMA OwnEntry ==
  ASSUME NEW s \in Archive, NEW r \in Recipes, NEW e \in Entry
  PROVE  /\ [s EXCEPT ![r] = e] \in Archive
         /\ [s EXCEPT ![r] = e][r] = e
         /\ \A q \in Recipes \ {r} : [s EXCEPT ![r] = e][q] = s[q]
  BY DEF Archive

LEMMA CopyInv ==
  ASSUME PInv, NEW b \in Builds, Copy(b) PROVE PInv'
<1>1. /\ pc[b] = "copy" /\ pc' = [pc EXCEPT ![b] = "record"]
      /\ stage' = [stage EXCEPT ![b] = archive]
      /\ UNCHANGED <<recipe, lock, source, top, recorded, archive, published, killed, hung>>
  BY DEF Copy, At
<1>2. pc'[b] = "record" /\ stage'[b] = archive
  BY <1>1 DEF PInv, PublishTypes
<1>3. Faithful(b)'
  BY <1>1, <1>2
  DEF Faithful, PInv, PublicationIsSound, ArchiveIsWhole, Whole, Staging, Recorded
<1>4. archive \in Archive /\ Running(b)
  BY <1>1 DEF PInv, PublishTypes, Running
<1>5. "record" \in Steps \ {"idle", "done"}
  BY DEF Steps
<1> QED
  BY <1>1, <1>3, <1>4, <1>5, BuildStepInv

LEMMA RecordInv ==
  ASSUME PInv, NEW b \in Builds, Record(b) PROVE PInv'
<1> DEFINE r == recipe[b]
           entry == [stage[b][r] EXCEPT !.manifest = source]
           staged == [stage[b] EXCEPT ![r] = entry]
<1>1. /\ pc[b] = "record" /\ pc' = [pc EXCEPT ![b] = "synth"]
      /\ recorded' = [recorded EXCEPT ![b] = source]
      /\ UNCHANGED <<recipe, lock, source, top, archive, published, killed, hung>>
  BY DEF Record, At
<1>2. stage' = [stage EXCEPT ![b] = staged]
  BY Zenon DEF Record
<1>3. /\ r \in Recipes /\ source \in Nat /\ stage[b] \in Archive /\ Faithful(b)
      /\ hung = {} => \A q \in Recipes \ {r} : stage[b][q] = archive[q]
  BY <1>1, BuildTypes DEF Staging
<1>4. entry \in Entry /\ entry.manifest = source
  BY <1>3 DEF Archive, Entry
<1> HIDE DEF entry
<1>5. /\ staged \in Archive /\ staged[r] = entry
      /\ \A q \in Recipes \ {r} : staged[q] = stage[b][q]
  BY <1>3, <1>4, OwnEntry
<1>6. pc'[b] = "synth" /\ stage'[b] = staged /\ recorded'[b] = source
  BY <1>1, <1>2 DEF PInv, PublishTypes
<1> HIDE DEF staged
<1>7. Faithful(b)'
  BY <1>1, <1>3, <1>4, <1>5, <1>6 DEF Faithful, Whole, Staging, Recorded
<1>8. "synth" \in Steps \ {"idle", "done"} /\ Running(b)
  BY <1>1 DEF Steps, Running
<1>9. hung = {} => \A q \in Recipes \ {recipe[b]} : staged[q] = archive[q]
  BY <1>3, <1>5
<1> HIDE DEF r
<1> QED
  BY <1>1, <1>2, <1>5, <1>7, <1>8, <1>9, BuildStepInv

LEMMA SynthInv ==
  ASSUME PInv, NEW b \in Builds, Synth(b) PROVE PInv'
<1> DEFINE r == recipe[b]
<1>1. /\ pc[b] = "synth" /\ pc' = [pc EXCEPT ![b] = "pack"]
      /\ top' = [top EXCEPT ![r] = source]
      /\ UNCHANGED <<recipe, lock, source, stage, recorded, archive, published, killed, hung>>
  BY DEF Synth, At
<1>2. /\ r \in Recipes /\ source \in Nat /\ stage[b] \in Archive /\ Faithful(b)
      /\ hung = {} => \A q \in Recipes \ {r} : stage[b][q] = archive[q]
  BY <1>1, BuildTypes DEF Staging
<1>3. pc'[b] = "pack" /\ top'[r] = source /\ stage' = [stage EXCEPT ![b] = stage[b]]
  BY <1>1, <1>2 DEF PInv, PublishTypes
<1>4. Faithful(b)'
  BY <1>1, <1>2, <1>3 DEF Faithful, Whole, Staging, Recorded
<1>5. "pack" \in Steps \ {"idle", "done"} /\ Running(b)
  BY <1>1 DEF Steps, Running
<1> QED
  BY <1>1, <1>2, <1>3, <1>4, <1>5, BuildStepInv

LEMMA PackInv ==
  ASSUME PInv, NEW b \in Builds, Pack(b) PROVE PInv'
<1> DEFINE r == recipe[b]
           own == stage[b][r]
           packed == [own EXCEPT !.bit = top[r]]
           summed == [own EXCEPT !.sums = own.bit]
<1>1. UNCHANGED <<recipe, lock, source, top, recorded, archive, published, killed, hung>>
  BY DEF Pack
<1>2. CASE pc[b] = "pack" /\ At(b, "pack", "sums")
           /\ stage' = [stage EXCEPT ![b][recipe[b]].bit = top[recipe[b]]]
  <2> DEFINE staged == [stage[b] EXCEPT ![r] = packed]
  <2>1. stage' = [stage EXCEPT ![b] = staged] /\ pc' = [pc EXCEPT ![b] = "sums"]
    BY <1>2, Zenon DEF At
  <2>2. /\ r \in Recipes /\ source \in Nat /\ stage[b] \in Archive /\ Faithful(b)
        /\ top[r] \in Nat /\ top[r] <= source /\ recorded[b] \in Nat
        /\ hung = {} => \A q \in Recipes \ {r} : stage[b][q] = archive[q]
    BY <1>2, BuildTypes DEF Staging
  <2>3. packed \in Entry /\ packed.bit = top[r] /\ packed.manifest = own.manifest
    BY <2>2 DEF Archive, Entry
  <2> HIDE DEF packed
  <2>4. /\ staged \in Archive /\ staged[r] = packed
        /\ \A q \in Recipes \ {r} : staged[q] = stage[b][q]
    BY <2>2, <2>3, OwnEntry
  <2>5. pc'[b] = "sums" /\ stage'[b] = staged
    BY <2>1 DEF PInv, PublishTypes
  <2> HIDE DEF staged
  <2>6. Faithful(b)'
    BY <1>1, <1>2, <2>2, <2>3, <2>4, <2>5 DEF Faithful, Whole, Staging, Recorded
  <2>7. "sums" \in Steps \ {"idle", "done"} /\ Running(b)
    BY <1>2 DEF Steps, Running
  <2>8. hung = {} => \A q \in Recipes \ {recipe[b]} : staged[q] = archive[q]
    BY <2>2, <2>4
  <2> HIDE DEF r
  <2> QED
    BY <1>1, <2>1, <2>4, <2>6, <2>7, <2>8, BuildStepInv
<1>3. CASE pc[b] = "sums" /\ At(b, "sums", "check")
           /\ stage' = [stage EXCEPT ![b][recipe[b]].sums = stage[b][recipe[b]].bit]
  <2> DEFINE staged == [stage[b] EXCEPT ![r] = summed]
  <2>1. stage' = [stage EXCEPT ![b] = staged] /\ pc' = [pc EXCEPT ![b] = "check"]
    BY <1>3, Zenon DEF At
  <2>2. /\ r \in Recipes /\ source \in Nat /\ stage[b] \in Archive /\ Faithful(b)
        /\ recorded[b] \in Nat
        /\ hung = {} => \A q \in Recipes \ {r} : stage[b][q] = archive[q]
    BY <1>3, BuildTypes DEF Staging
  <2>3. summed \in Entry /\ summed.bit = own.bit /\ summed.manifest = own.manifest
    BY <2>2 DEF Archive, Entry
  <2> HIDE DEF summed
  <2>4. /\ staged \in Archive /\ staged[r] = summed
        /\ \A q \in Recipes \ {r} : staged[q] = stage[b][q]
    BY <2>2, <2>3, OwnEntry
  <2>5. pc'[b] = "check" /\ stage'[b] = staged
    BY <2>1 DEF PInv, PublishTypes
  <2> HIDE DEF staged
  <2>6. Faithful(b)'
    BY <1>1, <1>3, <2>2, <2>3, <2>4, <2>5 DEF Faithful, Whole, Staging, Recorded
  <2>7. "check" \in Steps \ {"idle", "done"} /\ Running(b)
    BY <1>3 DEF Steps, Running
  <2>8. hung = {} => \A q \in Recipes \ {recipe[b]} : staged[q] = archive[q]
    BY <2>2, <2>4
  <2> HIDE DEF r
  <2> QED
    BY <1>1, <2>1, <2>4, <2>6, <2>7, <2>8, BuildStepInv
<1> QED
  BY <1>2, <1>3 DEF Pack, At

\* The lock is handed on only when a script ends or its wrapper hangs up.
LEMMA EndInv ==
  ASSUME PInv, NEW b \in Builds, Running(b), pc' = [pc EXCEPT ![b] = "done"],
         lock' = IF lock = b THEN None ELSE lock,
         UNCHANGED <<recipe, source, top, recorded, archive, published, hung>>,
         \/ stage' = [stage EXCEPT ![b] = None] /\ killed' = killed
         \/ stage' = stage /\ killed' = killed \cup {b}
  PROVE  PInv'
<1>1. pc \in [Builds -> Steps] /\ stage \in [Builds -> Archive \cup {None}]
  BY DEF PInv, PublishTypes
<1>2. pc'[b] = "done" /\ (b \notin killed' => stage'[b] = None)
  BY <1>1
<1>3. ASSUME NEW x \in Builds \ {b}
      PROVE  pc'[x] = pc[x] /\ stage'[x] = stage[x] /\ (x \in killed' <=> x \in killed)
  BY <1>1
<1>4. pc'[b] \notin Staging /\ ~Running(b)'
  BY <1>2 DEF Staging, Running
<1>5. PublishTypes'
  <2>1. \A x \in Builds : pc'[x] \in Staging => stage'[x] \in Archive
    BY <1>3, <1>4 DEF PInv, PublishTypes
  <2> QED
    BY <1>1, <2>1 DEF PInv, PublishTypes, Steps
<1>6. StageIsFaithful'
  <2>1. Faithful(b)'
    BY <1>2 DEF Faithful, Staging, Recorded
  <2> QED
    BY <1>3, <2>1, OthersStayFaithful DEF StageIsFaithful
<1>7. LockIsHeld'
  <2> SUFFICES ASSUME hung = {}, NEW x \in Builds \ {b}
               PROVE  /\ Running(x)' => lock' = x
                      /\ pc'[x] \in Staging =>
                            \A r \in Recipes \ {recipe[x]} : stage'[x][r] = archive[r]
    BY <1>4 DEF LockIsHeld
  <2>1. pc'[x] = pc[x] /\ stage'[x] = stage[x]
    BY <1>3
  <2> QED
    BY <2>1 DEF PInv, LockIsHeld, Running
<1>8. BuiltIsOld'
  BY DEF PInv, BuiltIsOld
<1>9. PublicationIsSound'
  <2>1. \A x \in Builds : pc'[x] = "done" /\ x \notin killed' => stage'[x] = None
    BY <1>2, <1>3 DEF PInv, PublicationIsSound, StageRemoved
  <2> QED
    BY <2>1 DEF PInv, PublicationIsSound, ArchiveIsWhole, NoLostPublication, StageRemoved
<1> QED
  BY <1>5, <1>6, <1>7, <1>8, <1>9 DEF PInv

LEMMA CheckInv ==
  ASSUME PInv, NEW b \in Builds, Check(b) PROVE PInv'
<1> DEFINE own == stage[b][recipe[b]]
<1>1. /\ pc[b] = "check" /\ Running(b)
      /\ UNCHANGED <<recipe, source, top, recorded, archive, published, killed, hung>>
  BY DEF Check, Running
<1>2. CASE own.sums = own.bit /\ SourceUnchanged(b)
  <2>1. pc' = [pc EXCEPT ![b] = "publish"] /\ UNCHANGED <<stage, lock>>
    BY <1>2 DEF Check
  <2>2. /\ source \in Nat /\ stage[b] \in Archive /\ Faithful(b) /\ recipe[b] \in Recipes
        /\ hung = {} => \A q \in Recipes \ {recipe[b]} : stage[b][q] = archive[q]
    BY <1>1, BuildTypes DEF Staging
  <2>3. own.bit \in Nat
    BY <2>2 DEF Archive, Entry
  <2>4. Whole(own)
    BY <1>1, <1>2, <2>2, <2>3 DEF Faithful, SourceUnchanged, Whole, Recorded
  <2>5. pc'[b] = "publish" /\ stage' = [stage EXCEPT ![b] = stage[b]]
    BY <2>1 DEF PInv, PublishTypes
  <2>6. Faithful(b)'
    BY <1>1, <2>1, <2>2, <2>4, <2>5 DEF Faithful, Whole, Staging, Recorded
  <2>7. "publish" \in Steps \ {"idle", "done"}
    BY DEF Steps
  <2> QED
    BY <1>1, <2>1, <2>2, <2>5, <2>6, <2>7, BuildStepInv
<1>3. CASE ~(own.sums = own.bit /\ SourceUnchanged(b))
  <2>1. Leave(b)
    BY <1>3 DEF Check
  <2> QED
    BY <1>1, <2>1, EndInv DEF Leave, StageAfterExit
<1> QED
  BY <1>2, <1>3

\* Publishing replaces the archive by a whole one that differs from it only in
\* the publisher's entry, unless a hang-up let another build in between.
LEMMA ExchangeInv ==
  ASSUME PInv, NEW b \in Builds, Exchange(b) PROVE PInv'
<1>1. /\ pc[b] = "publish" /\ pc' = [pc EXCEPT ![b] = "rmtree"]
      /\ archive' = stage[b] /\ stage' = [stage EXCEPT ![b] = archive]
      /\ published' = [published EXCEPT ![recipe[b]] = stage[b][recipe[b]]]
      /\ UNCHANGED <<recipe, lock, source, top, recorded, killed, hung>>
  BY DEF Exchange, At
<1>2. /\ stage[b] \in Archive /\ Faithful(b) /\ recipe[b] \in Recipes
      /\ hung = {} => \A q \in Recipes \ {recipe[b]} : stage[b][q] = archive[q]
  BY <1>1, BuildTypes DEF Staging
<1>3. /\ pc \in [Builds -> Steps] /\ stage \in [Builds -> Archive \cup {None}] /\ archive \in Archive
  BY DEF PInv, PublishTypes
<1>4. pc'[b] = "rmtree"
  BY <1>1, <1>3
<1>5. ASSUME NEW x \in Builds \ {b}
      PROVE  pc'[x] = pc[x] /\ stage'[x] = stage[x]
  BY <1>1, <1>3
<1>6. PublishTypes'
  <2>1. \A x \in Builds : pc'[x] \in Staging => stage'[x] \in Archive
    BY <1>4, <1>5 DEF PInv, PublishTypes, Staging
  <2> QED
    BY <1>1, <1>2, <1>3, <2>1 DEF PInv, PublishTypes, Steps
<1>7. StageIsFaithful'
  <2>1. Faithful(b)'
    BY <1>4 DEF Faithful, Staging, Recorded
  <2> QED
    BY <1>1, <1>5, <2>1, OthersStayFaithful DEF StageIsFaithful
<1>8. LockIsHeld'
  <2> SUFFICES ASSUME hung = {}, NEW x \in Builds
               PROVE  /\ Running(x)' => lock = x
                      /\ pc'[x] \in Staging =>
                            \A r \in Recipes \ {recipe[x]} : stage'[x][r] = archive'[r]
    BY <1>1 DEF LockIsHeld
  <2>1. lock = b
    BY <1>1 DEF PInv, LockIsHeld, Running
  <2>2. CASE x = b
    BY <1>4, <2>1, <2>2 DEF Staging
  <2>3. CASE x # b
    <3>1. pc'[x] = pc[x] /\ ~Running(x)
      BY <1>5, <2>1, <2>3 DEF PInv, LockIsHeld
    <3>2. ~Running(x)' /\ pc'[x] \notin Staging
      BY <3>1 DEF Running, Staging
    <3> QED
      BY <3>2
  <2> QED
    BY <2>2, <2>3
<1>9. BuiltIsOld'
  BY <1>1 DEF PInv, BuiltIsOld
<1>10. PublicationIsSound'
  <2>1. ArchiveIsWhole'
    BY <1>1, <1>2 DEF ArchiveIsWhole, Faithful, Whole, Staging
  <2>2. NoLostPublication'
    <3> SUFFICES ASSUME hung = {} PROVE stage[b] = [archive EXCEPT ![recipe[b]] =
                                                      stage[b][recipe[b]]]
      BY <1>1 DEF PInv, PublicationIsSound, NoLostPublication
    <3> QED
      BY <1>2, <1>3 DEF Archive
  <2>3. \A x \in Builds : pc'[x] = "done" /\ x \notin killed => stage'[x] = None
    BY <1>4, <1>5 DEF PInv, PublicationIsSound, StageRemoved
  <2> QED
    BY <1>1, <2>1, <2>2, <2>3 DEF PublicationIsSound, StageRemoved
<1> QED
  BY <1>6, <1>7, <1>8, <1>9, <1>10 DEF PInv

LEMMA RmtreeInv ==
  ASSUME PInv, NEW b \in Builds, Rmtree(b) PROVE PInv'
<1>1. /\ pc[b] = "rmtree" /\ pc' = [pc EXCEPT ![b] = "exit"]
      /\ stage' = [stage EXCEPT ![b] = None]
      /\ UNCHANGED <<recipe, lock, source, top, recorded, archive, published, killed, hung>>
  BY DEF Rmtree, At
<1>2. pc'[b] = "exit"
  BY <1>1 DEF PInv, PublishTypes
<1>3. Faithful(b)'
  BY <1>2 DEF Faithful, Staging, Recorded
<1>4. /\ "exit" \in Steps \ {"idle", "done"} /\ "exit" \notin Staging /\ Running(b)
      /\ None \in Archive \cup {None}
  BY <1>1 DEF Steps, Running, Staging
<1> QED
  BY <1>1, <1>3, <1>4, BuildStepInv

\* Launching, waiting for the lock and losing the wrapper.
LEMMA LockInv ==
  ASSUME PInv, NEW b \in Builds, Launch(b) \/ Acquire(b) \/ HangUp(b) PROVE PInv'
<1>1. /\ UNCHANGED <<recipe, source, top, stage, recorded, archive, published, killed>>
      /\ \/ /\ pc[b] = "idle" /\ pc' = [pc EXCEPT ![b] = "locking"]
            /\ UNCHANGED <<lock, hung>>
         \/ /\ pc[b] = "locking" /\ pc' = [pc EXCEPT ![b] = "copy"]
            /\ lock = None /\ lock' = b /\ UNCHANGED hung
         \/ pc' = pc /\ hung' = hung \cup {b}
  BY DEF Launch, Acquire, HangUp, At, MayLock
<1>2. pc \in [Builds -> Steps]
  BY DEF PInv, PublishTypes
<1>3. ASSUME NEW x \in Builds
      PROVE  /\ pc'[x] = pc[x] \/ pc'[x] \in {"locking", "copy"}
             /\ x # b => pc'[x] = pc[x]
             /\ pc' = pc \/ pc'[b] \in {"locking", "copy"}
  BY <1>1, <1>2
<1>4. ASSUME NEW x \in Builds
      PROVE  /\ pc'[x] \in Staging \cup Recorded \cup {"done"} => pc'[x] = pc[x]
             /\ pc'[x] \in {"pack", "sums", "check", "publish"} => pc'[x] = pc[x]
  BY <1>3 DEF Staging, Recorded
<1>5. PublishTypes'
  <2>1. pc' \in [Builds -> Steps]
    BY <1>1, <1>2 DEF Steps
  <2> QED
    BY <1>1, <1>4, <2>1 DEF PInv, PublishTypes
<1>6. StageIsFaithful'
  <2> SUFFICES ASSUME NEW x \in Builds PROVE Faithful(x)'
    BY DEF StageIsFaithful
  <2>1. Faithful(x)
    BY DEF PInv, StageIsFaithful
  <2>2. CASE pc'[x] = pc[x]
    BY <1>1, <2>1, <2>2, Zenon DEF Faithful, Whole
  <2>3. CASE pc'[x] \in {"locking", "copy"}
    BY <2>3 DEF Faithful, Staging, Recorded
  <2> QED
    BY <1>3, <2>2, <2>3
<1>7. LockIsHeld'
  <2> SUFFICES ASSUME hung' = {}, NEW x \in Builds
               PROVE  /\ Running(x)' => lock' = x
                      /\ pc'[x] \in Staging =>
                            \A r \in Recipes \ {recipe[x]} : stage[x][r] = archive[r]
    BY <1>1 DEF LockIsHeld
  <2>1. hung = {}
    BY <1>1
  <2>2. Running(x)' => lock' = x
    <3>1. CASE pc[b] = "idle" /\ pc' = [pc EXCEPT ![b] = "locking"] /\ lock' = lock
      BY <1>2, <2>1, <3>1 DEF PInv, LockIsHeld, Running
    <3>2. CASE pc' = [pc EXCEPT ![b] = "copy"] /\ lock = None /\ lock' = b
      BY <1>2, <2>1, <3>2, PublishAssumption DEF PInv, LockIsHeld, Running
    <3> QED
      BY <1>1, <3>1, <3>2
  <2> QED
    BY <1>4, <2>1, <2>2 DEF PInv, LockIsHeld
<1>8. BuiltIsOld' /\ PublicationIsSound'
  <2>1. hung' = {} => hung = {}
    BY <1>1
  <2> QED
    BY <1>1, <1>4, <2>1
    DEF PInv, BuiltIsOld, PublicationIsSound, ArchiveIsWhole, NoLostPublication, StageRemoved
<1> QED
  BY <1>5, <1>6, <1>7, <1>8 DEF PInv

\* A step of neither.
LEMMA PublishStutterInv ==
  ASSUME PInv, UNCHANGED vars PROVE PInv'
<1> USE DEF vars
<1>1. PublishTypes' /\ LockIsHeld' /\ BuiltIsOld'
  BY DEF PInv, PublishTypes, LockIsHeld, BuiltIsOld, Running
<1>2. StageIsFaithful'
  BY Zenon DEF PInv, StageIsFaithful, Faithful, Whole
<1>3. PublicationIsSound'
  BY DEF PInv, PublicationIsSound, ArchiveIsWhole, NoLostPublication, StageRemoved
<1> QED
  BY <1>1, <1>2, <1>3 DEF PInv

LEMMA PublishNextInv == PInv /\ [Next]_vars => PInv'
<1> SUFFICES ASSUME PInv, [Next]_vars PROVE PInv'
  OBVIOUS
<1>1. ASSUME NEW b \in Builds, Launch(b) \/ Script(b) \/ Exit(b) \/ HangUp(b) \/ Kill(b)
      PROVE  PInv'
  <2>1. CASE Script(b)
    BY <2>1, LockInv, CopyInv, RecordInv, SynthInv, PackInv, CheckInv, ExchangeInv,
       RmtreeInv, Zenon DEF Script
  <2>2. CASE Exit(b)
    BY <2>2, EndInv DEF Exit, Leave, StageAfterExit
  <2>3. CASE Kill(b)
    BY <2>3, EndInv DEF Kill, LockAfterKill
  <2> QED
    BY <1>1, <2>1, <2>2, <2>3, LockInv
<1> QED
  BY <1>1, EditInv, PublishStutterInv DEF Next

\* However many builds run, whatever is edited, signalled, hung up or killed
\* and at whichever step: the published archive is whole, no build undoes
\* another recipe's publication while every wrapper lives, and only SIGKILL
\* leaves a staged directory (build_uart.sh, portable_build_support.py,
\* atomic_publish.py).
THEOREM PublicationStaysSound == Spec => []PublicationIsSound
<1>1. PInv => PublicationIsSound
  BY DEF PInv
<1> QED
  BY <1>1, PublishInitInv, PublishNextInv, PTL DEF Spec

-----------------------------------------------------------------------------
(* SubprocessTree                                                          *)

\* Everyone named was started, so a process forked now is named by nobody; and
\* once the grace period is over, who was to end has ended.
TInv ==
    /\ t_alive \subseteq t_started /\ t_group \subseteq t_started
    /\ t_termed \subseteq t_started /\ t_killed \subseteq t_started
    /\ t_pc = "communicate" => ~t_graceOver
    /\ t_graceOver => t_termed \cap t_polite \cap t_alive = {}
    /\ t_pc \notin {"drain", "raised"} => t_killed = {}
    /\ Tree!TimeoutIsExact

LEMMA TreeNextInv == TInv /\ [Tree!Next]_(Tree!vars) => TInv'
<1> SUFFICES ASSUME TInv, [Tree!Next]_(Tree!vars) PROVE TInv'
  OBVIOUS
<1> USE DEF TInv, Tree!TimeoutIsExact, Tree!GroupIsGone, Tree!GraceIsKept
<1>1. CASE Tree!Complete
  BY <1>1 DEF Tree!Complete, Tree!procs
<1>2. CASE Tree!Timeout
  BY <1>2 DEF Tree!Timeout, Tree!procs
<1>3. CASE Tree!GraceEnds
  BY <1>3 DEF Tree!GraceEnds, Tree!procs
<1>4. CASE Tree!Kill
  BY <1>4 DEF Tree!Kill, Tree!MayKill, Tree!Targets
<1>5. CASE Tree!Raise
  BY <1>5 DEF Tree!Raise, Tree!procs
<1>6. ASSUME NEW p \in Tree!Processes, Tree!End(p) PROVE TInv'
  BY <1>6 DEF Tree!End
<1>7. ASSUME NEW p \in Tree!Processes, NEW q \in Descendants, Tree!Fork(p, q) PROVE TInv'
  <2>1. /\ p \in t_alive /\ q \notin t_started
        /\ t_started' = t_started \cup {q} /\ t_alive' = t_alive \cup {q}
        /\ t_group' = t_group \/ (p \in t_group /\ t_group' = t_group \cup {q})
        /\ t_polite' = t_polite \/ t_polite' = t_polite \cup {q}
        /\ UNCHANGED <<t_pc, t_termed, t_killed, t_graceOver>>
    BY <1>7 DEF Tree!Fork
  <2> QED
    BY <2>1
<1>8. CASE UNCHANGED Tree!vars
  BY <1>8 DEF Tree!vars, Tree!procs
<1> QED
  BY <1>1, <1>2, <1>3, <1>4, <1>5, <1>6, <1>7, <1>8 DEF Tree!Next, Tree!Run

\* However the command's processes fork, leave the group, end or ignore
\* SIGTERM: after a timeout nobody of its group is alive, and SIGKILL ends no
\* process that was told and ends on SIGTERM in time (run_bounded).
THEOREM TimeoutStaysExact == Tree!Spec => []TimeoutIsExact
<1>1. Tree!Init => TInv
  BY DEF Tree!Init, TInv, Tree!TimeoutIsExact, Tree!GroupIsGone, Tree!GraceIsKept
<1>2. TInv => TimeoutIsExact
  BY DEF TInv, TimeoutIsExact
<1> QED
  BY <1>1, <1>2, TreeNextInv, PTL DEF Tree!Spec

-----------------------------------------------------------------------------
(* CompilerArtifact                                                        *)

\* Only the step after the copy vouches for the private toolchain, and from
\* the probe on its output is bound to the text the job holds; a comparison
\* holds the text of the artifact it loaded from beginning to end.
AInv ==
    /\ a_pc # "exited" => a_job \in {"export", "compare"}
    /\ a_pc # "exited" /\ a_job = "compare" => a_text = a_loaded.text
    /\ a_pc = "read" => a_job = "export"
    /\ a_pc = "reproduce" => a_job = "compare"
    /\ a_pc = "run" => a_private = GoodTool
    /\ a_pc \in {"upstream again", "candidate again", "write", "reproduce"} =>
          a_probe = Artifact!Output(a_text, GoodTool)
    /\ Artifact!AcceptedIsReproducible

LEMMA ArtifactNextInv == AInv /\ [Artifact!Next]_(Artifact!vars) => AInv'
<1> SUFFICES ASSUME AInv, [Artifact!Next]_(Artifact!vars) PROVE AInv'
  OBVIOUS
<1> USE DEF AInv, Artifact!AcceptedIsReproducible, Artifact!world, Artifact!process,
            Artifact!GoTo, Artifact!Check
<1>1. CASE Artifact!Edit
  BY <1>1 DEF Artifact!Edit
<1>2. CASE Artifact!Start
  BY <1>2 DEF Artifact!Start
<1>3. CASE Artifact!Candidate
  BY <1>3 DEF Artifact!Candidate
<1>4. CASE Artifact!Upstream
  BY <1>4 DEF Artifact!Upstream
<1>5. CASE Artifact!ReadSource
  BY <1>5 DEF Artifact!ReadSource
<1>6. CASE Artifact!Namespace
  BY <1>6 DEF Artifact!Namespace
<1>7. CASE Artifact!Authenticate
  BY <1>7 DEF Artifact!Authenticate
<1>8. CASE Artifact!CopyToolchain
  BY <1>8 DEF Artifact!CopyToolchain
<1>9. CASE Artifact!Recheck
  BY <1>9 DEF Artifact!Recheck, Artifact!PrivateIsGood
<1>10. CASE Artifact!RunProbe
  BY <1>10 DEF Artifact!RunProbe
<1>11. CASE Artifact!CandidateAgain
  BY <1>11 DEF Artifact!CandidateAgain
<1>12. CASE Artifact!WriteArtifact
  BY <1>12 DEF Artifact!WriteArtifact
<1>13. CASE Artifact!Reproduce
  BY <1>13 DEF Artifact!Reproduce, Artifact!Reproduced
<1>14. CASE UNCHANGED Artifact!vars
  BY <1>14 DEF Artifact!vars
<1> QED
  BY <1>1, <1>2, <1>3, <1>4, <1>5, <1>6, <1>7, <1>8, <1>9, <1>10, <1>11, <1>12, <1>13,
     <1>14 DEF Artifact!Next

\* Whatever is edited behind the job's back, at whichever step: what an export
\* is about to write is the pinned toolchain's program of the text it read, and
\* what a comparison accepted has the program its own text compiles to
\* (lean_compiler_export.py, host_upstream_comparison.py).
THEOREM ArtifactStaysReproducible == Artifact!Spec => []ArtifactIsReproducible
<1>1. Artifact!Init => AInv
  BY DEF Artifact!Init, AInv, Artifact!AcceptedIsReproducible
<1>2. AInv => ArtifactIsReproducible
  BY DEF AInv, ArtifactIsReproducible, Artifact!ArtifactIsReproducible, Artifact!ExportedIsPinned
<1> QED
  BY <1>1, <1>2, ArtifactNextInv, PTL DEF Artifact!Spec

-----------------------------------------------------------------------------
(* WorkloadValidation                                                      *)

Trees == Candidates \cup {Pinned, OtherUpstream, Dirty, None}
Snapshot == [tree : Trees, frozen : BOOLEAN]
ComparisonFile == [tool : Trees, upstream : Trees, expected : BOOLEAN, run : Nat]

\* The steps of a run: before the evidence, while it is collected, after it.
Pinning == {"add", "inspect", "freeze", "frozen"}
Early == {"cache", "clean", "head", "tree", "plan", "upstream"} \cup Pinning
Collecting == {"inputs", "compare", "comparing", "judge"}
Publishing == {"upstream again", "publish", "same head", "same tree", "open receipt",
               "write receipt"}

Frozen(repo) == w_snap[repo] \in Snapshot /\ w_snap[repo].frozen

ValidationTypes ==
    /\ w_checkout \in [Validation!Repositories -> [head : Trees, work : Trees]]
    /\ w_snap \in [Validation!Repositories -> Snapshot \cup {None}]
    /\ w_files \in [1..Workloads -> ComparisonFile \cup {None}]
    /\ w_run \in Nat
    /\ w_captured \in [head : Trees, tree : Trees]
    /\ w_evidence \in Seq(ComparisonFile)
    /\ w_pc \in {"exited", "unwind"} \cup Early \cup Collecting \cup Publishing
    /\ w_pc \in Pinning => w_at \in Validation!Repositories

\* A snapshot that was frozen cannot be touched any more, so what the
\* comparator ran on is what is checked after it.
SnapshotsAreFrozen ==
    /\ w_pc \in {"inspect", "freeze"} => w_snap[w_at] \in Snapshot
    /\ w_pc = "frozen" => Frozen(w_at)
    /\ w_pc \in Pinning /\ w_at = "upstream" => Frozen("candidate")
    /\ w_pc \in Collecting => \A repo \in Validation!Repositories : Frozen(repo)
    /\ w_pc = "judge" =>
          LET file == w_files[Len(w_evidence) + 1]
          IN  /\ file \in ComparisonFile
              /\ file.tool = w_snap["candidate"].tree /\ file.upstream = w_snap["upstream"].tree

\* What is recorded so far is on disk, had the planned outcome and is about
\* the captured commit and the pinned upstream.
EvidenceHolds ==
    \A w \in 1..Len(w_evidence) :
        /\ w <= Workloads /\ w_files[w] = w_evidence[w]
        /\ w_evidence[w].tool = w_captured.head /\ w_evidence[w].upstream = Pinned
        /\ w_evidence[w].expected

EvidenceIsTrue ==
    /\ w_pc \in Early => w_evidence = <<>>
    /\ w_pc \in Collecting => Len(w_evidence) < Workloads
    /\ w_pc \in Publishing \/ (w_pc = "unwind" /\ w_fate = "ok") => Len(w_evidence) = Workloads
    /\ w_pc \in Collecting \cup Publishing \/ (w_pc = "unwind" /\ w_fate = "ok") => EvidenceHolds
    /\ \/ w_pc \in {"upstream"} \cup Pinning \cup Collecting \cup Publishing
       \/ w_pc = "unwind" /\ w_fate = "ok"
       => w_captured.head \in GoodPlans

\* No receipt is on disk from prepare_receipt_path until the last write; a run
\* that fails before has no snapshot to unwind; and the snapshots are gone, or
\* known to be left, before publish_receipt.
WInv ==
    /\ ValidationTypes
    /\ SnapshotsAreFrozen
    /\ EvidenceIsTrue
    /\ w_pc \notin {"exited", "cache"} => ~Validation!IsReceipt(w_receipt)
    /\ w_pc = "cache" => Validation!Held = {}
    /\ w_pc \in {"exited"} \cup Publishing => Validation!Held \subseteq w_left
    /\ Validation!ReceiptIsTrue
    /\ Validation!ReceiptMatchesFiles

\* The claims about a receipt on disk speak of it and of the files only.
ReceiptClaims == Validation!ReceiptIsTrue /\ Validation!ReceiptMatchesFiles

LEMMA ClaimsStay ==
  ASSUME ReceiptClaims, w_receipt' = w_receipt \/ w_receipt' \in {None, Torn},
         w_files' = w_files \/ ~Validation!IsReceipt(w_receipt)
  PROVE  ReceiptClaims'
BY DEF ReceiptClaims, Validation!IsReceipt, Validation!ReceiptIsTrue,
       Validation!ReceiptMatchesFiles

\* A failed check: nothing is claimed of the run any more.
LEMMA FailInv ==
  ASSUME WInv, w_pc # "exited", Validation!Fail,
         UNCHANGED <<w_checkout, w_snap, w_files, w_receipt>>
  PROVE  WInv'
<1>1. /\ w_fate' = "fail" /\ w_pc' \in {"exited", "unwind"}
      /\ w_pc' = "exited" <=> Validation!Held = {}
      /\ UNCHANGED <<w_run, w_at, w_captured, w_evidence, w_left>>
  BY DEF Validation!Fail
<1>2. ValidationTypes'
  BY <1>1 DEF WInv, ValidationTypes, Pinning
<1>3. SnapshotsAreFrozen'
  BY <1>1 DEF SnapshotsAreFrozen, Pinning, Collecting
<1>4. EvidenceIsTrue'
  BY <1>1 DEF EvidenceIsTrue, Early, Pinning, Collecting, Publishing
<1>5. /\ w_pc' = "cache" => Validation!Held' = {}
      /\ w_pc' \in {"exited"} \cup Publishing => Validation!Held' \subseteq w_left'
  BY <1>1 DEF Publishing, Validation!Held
<1>6. w_pc' \notin {"exited", "cache"} => ~Validation!IsReceipt(w_receipt)'
  BY <1>1 DEF WInv, Validation!IsReceipt
<1> QED
  BY <1>2, <1>3, <1>4, <1>5, <1>6, ClaimsStay DEF WInv, ReceiptClaims

\* Start: nothing is held, nothing recorded.
LEMMA StartInv ==
  ASSUME WInv, Validation!Start PROVE WInv'
<1>1. /\ w_pc = "exited" /\ w_pc' = "cache" /\ w_evidence' = <<>> /\ w_run' = w_run + 1
      /\ w_snap' = [repo \in Validation!Repositories |-> None]
      /\ w_captured' = [head |-> None, tree |-> None]
      /\ UNCHANGED <<w_checkout, w_files, w_receipt>>
  BY DEF Validation!Start
<1>2. ValidationTypes'
  BY <1>1 DEF WInv, ValidationTypes, Pinning, Early, Trees
<1>3. SnapshotsAreFrozen'
  BY <1>1 DEF SnapshotsAreFrozen, Pinning, Collecting
<1>4. EvidenceIsTrue'
  BY <1>1 DEF EvidenceIsTrue, Early, Pinning, Collecting, Publishing
<1>5. /\ w_pc' = "cache" => Validation!Held' = {}
      /\ w_pc' \in {"exited"} \cup Publishing => Validation!Held' \subseteq w_left'
      /\ w_pc' \notin {"exited", "cache"} => ~Validation!IsReceipt(w_receipt)'
  BY <1>1 DEF Publishing, Validation!Held
<1> QED
  BY <1>1, <1>2, <1>3, <1>4, <1>5, ClaimsStay DEF WInv, ReceiptClaims

\* Any other step of the script: what is left to show of it.
LEMMA MoveInv ==
  ASSUME WInv, w_pc # "exited", w_pc' \notin {"exited", "cache"},
         w_receipt' = w_receipt \/ w_receipt' \in {None, Torn},
         w_pc = "cache" => w_receipt' \in {None, Torn} /\ w_files' = w_files,
         ValidationTypes', SnapshotsAreFrozen', EvidenceIsTrue',
         w_pc' \in Publishing => Validation!Held' \subseteq w_left'
  PROVE  WInv'
<1>1. ~Validation!IsReceipt(w_receipt')
  BY DEF WInv, Validation!IsReceipt
<1>2. w_files' = w_files \/ ~Validation!IsReceipt(w_receipt)
  BY DEF WInv
<1> QED
  BY <1>1, <1>2, ClaimsStay DEF WInv, ReceiptClaims, Validation!IsReceipt

LEMMA CacheInv ==
  ASSUME WInv, Validation!Cache PROVE WInv'
<1>1. CASE Validation!Fail /\ UNCHANGED w_receipt
  BY <1>1, FailInv DEF Validation!Cache
<1>2. CASE w_receipt' = None /\ Validation!GoTo("clean")
  <2>1. /\ w_pc = "cache" /\ w_pc' = "clean" /\ w_receipt' = None
        /\ UNCHANGED <<w_checkout, w_snap, w_files, w_run, w_at, w_captured, w_evidence, w_fate, w_left>>
    BY <1>2 DEF Validation!Cache, Validation!GoTo
  <2>2. ValidationTypes' /\ SnapshotsAreFrozen'
    BY <2>1 DEF WInv, ValidationTypes, SnapshotsAreFrozen, Early, Pinning, Collecting
  <2>3. EvidenceIsTrue'
    BY <2>1 DEF WInv, EvidenceIsTrue, Early, Pinning, Collecting, Publishing
  <2> QED
    BY <2>1, <2>2, <2>3, MoveInv DEF Publishing
<1> QED
  BY <1>1, <1>2 DEF Validation!Cache, Validation!PreparedReceipt

LEMMA CleanHeadInv ==
  ASSUME WInv, Validation!CleanHead PROVE WInv'
<1>1. CASE Validation!Fail
  BY <1>1, FailInv DEF Validation!CleanHead
<1>2. CASE ~Validation!Fail
  <2>1. /\ w_pc \in {"clean", "head", "tree"} /\ w_pc' \in {"head", "tree", "plan"}
        /\ UNCHANGED <<w_checkout, w_snap, w_files, w_receipt, w_run, w_at, w_evidence, w_fate, w_left>>
        /\ \/ UNCHANGED w_captured
           \/ w_captured' = [w_captured EXCEPT !.head = w_checkout["candidate"].head]
           \/ w_captured' = [w_captured EXCEPT !.tree = w_checkout["candidate"].head]
    BY <1>2 DEF Validation!CleanHead, Validation!GoTo
  <2>2. w_captured' \in [head : Trees, tree : Trees]
    BY <2>1 DEF WInv, ValidationTypes, Validation!Repositories
  <2>3. ValidationTypes' /\ SnapshotsAreFrozen'
    BY <2>1, <2>2 DEF WInv, ValidationTypes, SnapshotsAreFrozen, Early, Pinning, Collecting
  <2>4. EvidenceIsTrue'
    BY <2>1 DEF WInv, EvidenceIsTrue, Early, Pinning, Collecting, Publishing
  <2> QED
    BY <2>1, <2>3, <2>4, MoveInv DEF Publishing
<1> QED
  BY <1>1, <1>2

LEMMA PlanInv ==
  ASSUME WInv, Validation!Plan PROVE WInv'
<1>1. CASE Validation!Fail
  BY <1>1, FailInv DEF Validation!Plan
<1>2. CASE ~Validation!Fail
  <2>1. /\ w_pc = "plan" /\ w_pc' = "upstream" /\ w_captured.head \in GoodPlans
        /\ UNCHANGED <<w_checkout, w_snap, w_files, w_receipt, w_run, w_at, w_captured, w_evidence, w_fate, w_left>>
    BY <1>2 DEF Validation!Plan, Validation!PlanOf, Validation!GoTo
  <2>2. ValidationTypes' /\ SnapshotsAreFrozen'
    BY <2>1 DEF WInv, ValidationTypes, SnapshotsAreFrozen, Early, Pinning, Collecting
  <2>3. EvidenceIsTrue'
    BY <2>1 DEF WInv, EvidenceIsTrue, Early, Pinning, Collecting, Publishing
  <2> QED
    BY <2>1, <2>2, <2>3, MoveInv DEF Publishing
<1> QED
  BY <1>1, <1>2

LEMMA UpstreamInv ==
  ASSUME WInv, Validation!Upstream PROVE WInv'
<1>1. CASE Validation!Fail
  BY <1>1, FailInv DEF Validation!Upstream
<1>2. CASE w_pc = "upstream" /\ w_pc' = "add" /\ w_at' = "candidate"
           /\ UNCHANGED <<w_run, w_captured, w_evidence, w_fate, w_left>>
  <2>1. UNCHANGED <<w_checkout, w_snap, w_files, w_receipt>>
    BY DEF Validation!Upstream
  <2>2. ValidationTypes' /\ SnapshotsAreFrozen'
    BY <1>2, <2>1 DEF WInv, ValidationTypes, SnapshotsAreFrozen, Early, Pinning, Collecting,
       Validation!Repositories
  <2>3. EvidenceIsTrue'
    BY <1>2, <2>1 DEF WInv, EvidenceIsTrue, Early, Pinning, Collecting, Publishing
  <2> QED
    BY <1>2, <2>1, <2>2, <2>3, MoveInv DEF Publishing
<1>3. CASE w_pc = "upstream again" /\ w_pc' = "publish"
           /\ UNCHANGED <<w_run, w_at, w_captured, w_evidence, w_fate, w_left>>
  <2>1. UNCHANGED <<w_checkout, w_snap, w_files, w_receipt>>
    BY DEF Validation!Upstream
  <2>2. ValidationTypes' /\ SnapshotsAreFrozen'
    BY <1>3, <2>1 DEF WInv, ValidationTypes, SnapshotsAreFrozen, Publishing, Pinning, Collecting
  <2>3. EvidenceHolds => EvidenceHolds'
    BY <1>3, <2>1 DEF EvidenceHolds
  <2>4. EvidenceIsTrue'
    BY <1>3, <2>1, <2>3 DEF WInv, EvidenceIsTrue, Early, Pinning, Collecting, Publishing
  <2>5. Validation!Held' \subseteq w_left'
    BY <1>3, <2>1 DEF WInv, Validation!Held, Publishing
  <2> QED
    BY <1>3, <2>1, <2>2, <2>4, <2>5, MoveInv
<1> QED
  BY <1>1, <1>2, <1>3 DEF Validation!Upstream, Validation!GoTo, Validation!GoToAt

LEMMA AddWorktreeInv ==
  ASSUME WInv, Validation!AddWorktree PROVE WInv'
<1>1. CASE Validation!Fail /\ UNCHANGED w_snap
  BY <1>1, FailInv DEF Validation!AddWorktree
<1>2. CASE /\ w_snap' = [w_snap EXCEPT ![w_at] = [tree |-> Validation!CommitOf(w_at), frozen |-> FALSE]]
           /\ Validation!GoTo("inspect")
  <2>1. /\ w_pc = "add" /\ w_pc' = "inspect"
        /\ UNCHANGED <<w_checkout, w_files, w_receipt, w_run, w_at, w_captured, w_evidence, w_fate, w_left>>
    BY <1>2 DEF Validation!AddWorktree, Validation!GoTo
  <2> DEFINE new == [tree |-> Validation!CommitOf(w_at), frozen |-> FALSE]
  <2>2. new \in Snapshot /\ w_at \in Validation!Repositories
    BY <2>1 DEF WInv, ValidationTypes, Snapshot, Trees, Validation!CommitOf, Pinning
  <2>3. w_snap' = [w_snap EXCEPT ![w_at] = new]
    BY <1>2
  <2> HIDE DEF new
  <2>4. w_snap' \in [Validation!Repositories -> Snapshot \cup {None}]
    BY <2>2, <2>3 DEF WInv, ValidationTypes
  <2>5. /\ w_snap'[w_at] = new
        /\ w_at = "upstream" => w_snap'["candidate"] = w_snap["candidate"]
    BY <2>2, <2>3 DEF WInv, ValidationTypes, Validation!Repositories
  <2>6. ValidationTypes'
    BY <2>1, <2>4 DEF WInv, ValidationTypes, Early, Pinning
  <2>7. SnapshotsAreFrozen'
    BY <2>1, <2>2, <2>5 DEF WInv, SnapshotsAreFrozen, Pinning, Collecting, Frozen
  <2>8. EvidenceIsTrue'
    BY <2>1 DEF WInv, EvidenceIsTrue, Early, Pinning, Collecting, Publishing
  <2> QED
    BY <2>1, <2>6, <2>7, <2>8, MoveInv DEF Publishing
<1> QED
  BY <1>1, <1>2 DEF Validation!AddWorktree

LEMMA InspectInv ==
  ASSUME WInv, Validation!Inspect PROVE WInv'
<1>1. CASE Validation!Fail
  BY <1>1, FailInv DEF Validation!Inspect
<1>2. CASE ~Validation!Fail
  <2>1. /\ w_pc = "inspect" /\ w_pc' = "freeze"
        /\ UNCHANGED <<w_checkout, w_snap, w_files, w_receipt, w_run, w_at, w_captured, w_evidence, w_fate, w_left>>
    BY <1>2 DEF Validation!Inspect, Validation!GoTo
  <2>2. ValidationTypes' /\ SnapshotsAreFrozen'
    BY <2>1 DEF WInv, ValidationTypes, SnapshotsAreFrozen, Early, Pinning, Collecting, Frozen
  <2>3. EvidenceIsTrue'
    BY <2>1 DEF WInv, EvidenceIsTrue, Early, Pinning, Collecting, Publishing
  <2> QED
    BY <2>1, <2>2, <2>3, MoveInv DEF Publishing
<1> QED
  BY <1>1, <1>2

LEMMA FreezeInv ==
  ASSUME WInv, Validation!Freeze PROVE WInv'
<1>1. CASE Validation!Fail /\ UNCHANGED w_snap
  BY <1>1, FailInv DEF Validation!Freeze
<1>2. CASE w_snap' = [w_snap EXCEPT ![w_at].frozen = TRUE] /\ Validation!GoTo("frozen")
  <2>1. /\ w_pc = "freeze" /\ w_pc' = "frozen"
        /\ UNCHANGED <<w_checkout, w_files, w_receipt, w_run, w_at, w_captured, w_evidence, w_fate, w_left>>
    BY <1>2 DEF Validation!Freeze, Validation!GoTo
  <2>2. w_at \in Validation!Repositories /\ w_snap[w_at] \in Snapshot
    BY <2>1 DEF WInv, ValidationTypes, SnapshotsAreFrozen, Pinning
  <2> DEFINE new == [w_snap[w_at] EXCEPT !.frozen = TRUE]
  <2>3. new \in Snapshot /\ new.frozen
    BY <2>2 DEF Snapshot
  <2>4. w_snap' = [w_snap EXCEPT ![w_at] = new]
    BY <1>2
  <2> HIDE DEF new
  <2>5. w_snap' \in [Validation!Repositories -> Snapshot \cup {None}]
    BY <2>2, <2>3, <2>4 DEF WInv, ValidationTypes
  <2>6. /\ w_snap'[w_at] = new
        /\ w_at = "upstream" => w_snap'["candidate"] = w_snap["candidate"]
    BY <2>2, <2>4 DEF WInv, ValidationTypes, Validation!Repositories
  <2>7. ValidationTypes'
    BY <2>1, <2>5 DEF WInv, ValidationTypes, Early, Pinning
  <2>8. SnapshotsAreFrozen'
    BY <2>1, <2>3, <2>6 DEF WInv, SnapshotsAreFrozen, Pinning, Collecting, Frozen
  <2>9. EvidenceIsTrue'
    BY <2>1 DEF WInv, EvidenceIsTrue, Early, Pinning, Collecting, Publishing
  <2> QED
    BY <2>1, <2>7, <2>8, <2>9, MoveInv DEF Publishing
<1> QED
  BY <1>1, <1>2 DEF Validation!Freeze

LEMMA RequireFrozenInv ==
  ASSUME Workloads \in Nat \ {0}, WInv, Validation!RequireFrozen PROVE WInv'
<1>1. CASE Validation!Fail
  BY <1>1, FailInv DEF Validation!RequireFrozen
<1>2. CASE ~Validation!Fail
  <2>1. /\ w_pc = "frozen"
        /\ UNCHANGED <<w_checkout, w_snap, w_files, w_receipt, w_run, w_captured, w_evidence, w_fate, w_left>>
        /\ \/ w_at = "candidate" /\ w_pc' = "add" /\ w_at' = "upstream"
           \/ w_at # "candidate" /\ w_pc' = "inputs" /\ w_at' = w_at
    BY <1>2 DEF Validation!RequireFrozen, Validation!GoTo, Validation!GoToAt
  <2>2. Frozen(w_at) /\ (w_at = "upstream" => Frozen("candidate")) /\ w_evidence = <<>>
        /\ w_at \in {"candidate", "upstream"} /\ w_captured.head \in GoodPlans
    BY <2>1 DEF WInv, ValidationTypes, SnapshotsAreFrozen, EvidenceIsTrue, Pinning, Early,
       Validation!Repositories
  <2>3. ValidationTypes'
    BY <2>1 DEF WInv, ValidationTypes, Early, Pinning, Collecting, Validation!Repositories
  <2>4. SnapshotsAreFrozen'
    BY <2>1, <2>2 DEF SnapshotsAreFrozen, Pinning, Collecting, Frozen, Validation!Repositories
  <2>5. w_evidence' = <<>> /\ Len(w_evidence') = 0
    BY <2>1, <2>2
  <2>6. EvidenceHolds'
    BY <2>5 DEF EvidenceHolds
  <2>7. w_captured'.head \in GoodPlans /\ w_pc' \in {"add", "inputs"} /\ Len(w_evidence') < Workloads
    BY <2>1, <2>2, <2>5
  <2>8. EvidenceIsTrue'
    BY <2>5, <2>6, <2>7 DEF EvidenceIsTrue, Early, Pinning, Collecting, Publishing
  <2> QED
    BY <2>1, <2>3, <2>4, <2>8, MoveInv DEF Publishing
<1> QED
  BY <1>1, <1>2

LEMMA UnwindInv ==
  ASSUME WInv, Validation!Unwind PROVE WInv'
<1> DEFINE next == Validation!UnwindNext(Validation!Held \ w_left)
<1>1. w_pc = "unwind" /\ UNCHANGED <<w_checkout, w_files, w_receipt, w_run, w_at, w_captured, w_evidence>>
  BY DEF Validation!Unwind, Validation!GoTo
<1>2. ASSUME NEW repo \in next, w_pc' = w_pc, w_snap' = [w_snap EXCEPT ![repo] = None] \/ w_snap' = w_snap,
             w_fate' = w_fate \/ w_fate' = "fail"
      PROVE  WInv'
  <2>1. w_snap' \in [Validation!Repositories -> Snapshot \cup {None}]
    BY <1>2 DEF WInv, ValidationTypes
  <2>2. ValidationTypes' /\ SnapshotsAreFrozen'
    BY <1>1, <1>2, <2>1 DEF WInv, ValidationTypes, SnapshotsAreFrozen, Pinning, Collecting
  <2>3. EvidenceHolds => EvidenceHolds'
    BY <1>1 DEF EvidenceHolds
  <2>4. EvidenceIsTrue'
    BY <1>1, <1>2, <2>3 DEF WInv, EvidenceIsTrue, Early, Pinning, Collecting, Publishing
  <2> QED
    BY <1>1, <1>2, <2>2, <2>4, MoveInv DEF Publishing
<1>3. CASE /\ next = {} /\ UNCHANGED w_snap
           /\ Validation!GoTo(IF w_fate = "ok" THEN "upstream again" ELSE "exited")
  <2>1. Validation!Held \subseteq w_left
    BY <1>3 DEF Validation!UnwindNext
  <2>2. UNCHANGED <<w_left, w_fate>>
    BY <1>3 DEF Validation!GoTo
  <2>3. Validation!Held' \subseteq w_left'
    BY <1>3, <2>1, <2>2 DEF Validation!Held
  <2>4. EvidenceHolds => EvidenceHolds'
    BY <1>1 DEF EvidenceHolds
  <2>5. /\ w_pc' = "upstream again" /\ w_fate = "ok"
        \/ w_pc' = "exited"
    BY <1>3 DEF Validation!GoTo
  <2>6. ValidationTypes' /\ SnapshotsAreFrozen'
    BY <1>1, <1>3, <2>5 DEF WInv, ValidationTypes, SnapshotsAreFrozen, Pinning, Collecting, Publishing
  <2>7. EvidenceIsTrue'
    BY <1>1, <2>4, <2>5 DEF WInv, EvidenceIsTrue, Early, Pinning, Collecting, Publishing
  <2>8. ReceiptClaims'
    BY <1>1, ClaimsStay DEF WInv, ReceiptClaims
  <2>9. w_pc' \notin {"exited", "cache"} => ~Validation!IsReceipt(w_receipt)'
    BY <1>1 DEF WInv, Validation!IsReceipt
  <2> QED
    BY <2>3, <2>5, <2>6, <2>7, <2>8, <2>9 DEF WInv, ReceiptClaims
<1> QED
  BY <1>2, <1>3 DEF Validation!Unwind

LEMMA InputsInv ==
  ASSUME WInv, Validation!Inputs PROVE WInv'
<1>1. CASE Validation!Fail
  BY <1>1, FailInv DEF Validation!Inputs
<1>2. CASE ~Validation!Fail
  <2>1. /\ w_pc = "inputs" /\ w_pc' = "compare"
        /\ UNCHANGED <<w_checkout, w_snap, w_files, w_receipt, w_run, w_at, w_captured, w_evidence, w_fate, w_left>>
    BY <1>2 DEF Validation!Inputs, Validation!GoTo
  <2>2. ValidationTypes' /\ SnapshotsAreFrozen'
    BY <2>1 DEF WInv, ValidationTypes, SnapshotsAreFrozen, Early, Pinning, Collecting, Frozen
  <2>3. EvidenceHolds => EvidenceHolds'
    BY <2>1 DEF EvidenceHolds
  <2>4. EvidenceIsTrue'
    BY <2>1, <2>3 DEF WInv, EvidenceIsTrue, Early, Pinning, Collecting, Publishing
  <2> QED
    BY <2>1, <2>2, <2>4, MoveInv DEF Publishing
<1> QED
  BY <1>1, <1>2

\* Only the file of the workload in hand changes, which is not recorded yet.
LEMMA RunComparisonInv ==
  ASSUME Workloads \in Nat \ {0}, WInv, Validation!RunComparison PROVE WInv'
<1>1. CASE Validation!Fail /\ UNCHANGED w_files
  BY <1>1, FailInv DEF Validation!RunComparison
<1> DEFINE item == Len(w_evidence) + 1
<1>2. ASSUME NEW file \in ComparisonFile \cup {None}, w_files' = [w_files EXCEPT ![item] = file],
             UNCHANGED <<w_checkout, w_snap, w_receipt, w_run, w_at, w_captured, w_evidence, w_fate, w_left>>,
             w_pc \in {"compare", "comparing"}, w_pc' \in {"comparing", "judge"},
             w_pc' = "judge" => /\ file \in ComparisonFile /\ file.tool = w_snap["candidate"].tree
                                /\ file.upstream = w_snap["upstream"].tree
      PROVE  WInv'
  <2>1. Len(w_evidence) \in Nat /\ Len(w_evidence) < Workloads /\ item \in 1..Workloads
    BY <1>2 DEF WInv, ValidationTypes, EvidenceIsTrue, Collecting
  <2>2. /\ w_files' \in [1..Workloads -> ComparisonFile \cup {None}] /\ w_files'[item] = file
        /\ \A w \in 1..Len(w_evidence) : w \in 1..Workloads /\ w_files'[w] = w_files[w]
    BY <1>2, <2>1 DEF WInv, ValidationTypes
  <2> HIDE DEF item
  <2>3. ValidationTypes'
    BY <1>2, <2>2 DEF WInv, ValidationTypes, Pinning, Collecting
  <2>4. SnapshotsAreFrozen'
    BY <1>2, <2>2 DEF WInv, SnapshotsAreFrozen, Pinning, Collecting, Frozen, item
  <2>5. EvidenceHolds'
    BY <1>2, <2>2 DEF WInv, EvidenceIsTrue, EvidenceHolds, Collecting
  <2>6. EvidenceIsTrue'
    BY <1>2, <2>1, <2>5 DEF WInv, EvidenceIsTrue, Early, Pinning, Collecting, Publishing
  <2> QED
    BY <1>2, <2>3, <2>4, <2>6, MoveInv DEF Publishing
<1>3. CASE w_pc = "compare" /\ w_files' = [w_files EXCEPT ![Validation!Item] = None] /\ Validation!GoTo("comparing")
  BY <1>2, <1>3 DEF Validation!RunComparison, Validation!GoTo, Validation!Item
<1>4. ASSUME w_pc = "comparing", NEW expected \in BOOLEAN, Validation!GoTo("judge"),
             w_files' = [w_files EXCEPT ![Validation!Item] =
                          [tool |-> w_snap["candidate"].tree, upstream |-> w_snap["upstream"].tree,
                           expected |-> expected, run |-> w_run]]
      PROVE  WInv'
  <2> DEFINE file == [tool |-> w_snap["candidate"].tree, upstream |-> w_snap["upstream"].tree,
                      expected |-> expected, run |-> w_run]
  <2>1. w_snap["candidate"] \in Snapshot /\ w_snap["upstream"] \in Snapshot /\ w_run \in Nat
    BY <1>4 DEF WInv, ValidationTypes, SnapshotsAreFrozen, Collecting, Frozen, Validation!Repositories
  <2>2. w_snap["candidate"].tree \in Trees /\ w_snap["upstream"].tree \in Trees
    BY <2>1 DEF Snapshot
  <2>3. file \in ComparisonFile
    BY <1>4, <2>1, <2>2, Zenon DEF ComparisonFile
  <2>4. file.tool = w_snap["candidate"].tree /\ file.upstream = w_snap["upstream"].tree
    OBVIOUS
  <2>5. w_files' = [w_files EXCEPT ![item] = file]
    BY <1>4 DEF Validation!Item
  <2> HIDE DEF file
  <2> QED
    BY <1>2, <1>4, <2>3, <2>4, <2>5 DEF Validation!RunComparison, Validation!GoTo
<1> QED
  BY <1>1, <1>3, <1>4 DEF Validation!RunComparison

\* The frozen snapshots are the captured commit and the pinned upstream, so the
\* file made from them may be recorded.
LEMMA JudgeInv ==
  ASSUME Workloads \in Nat \ {0}, WInv, Validation!Judge PROVE WInv'
<1>1. CASE Validation!Fail
  BY <1>1, FailInv DEF Validation!Judge
<1>2. CASE ~Validation!Fail
  <2> DEFINE item == Len(w_evidence) + 1
             file == w_files[item]
  <2>1. /\ w_pc = "judge" /\ file.expected /\ w_evidence' = Append(w_evidence, file)
        /\ UNCHANGED <<w_checkout, w_snap, w_files, w_receipt, w_run, w_at, w_captured, w_left>>
        /\ \/ item < Workloads /\ w_pc' = "inputs" /\ w_fate' = w_fate
           \/ ~(item < Workloads) /\ w_pc' = "unwind" /\ w_fate' = "ok"
        /\ \A repo \in Validation!Repositories : Validation!FrozenMatches(repo)
    BY <1>2 DEF Validation!Judge, Validation!OutcomeHolds, Validation!Item
  <2>2. file.tool = w_captured.head /\ file.upstream = Pinned /\ file \in ComparisonFile
    BY <2>1 DEF WInv, SnapshotsAreFrozen, Validation!FrozenMatches, Validation!CommitOf,
       Validation!Repositories
  <2>3. /\ w_evidence \in Seq(ComparisonFile) /\ Len(w_evidence) \in Nat /\ Len(w_evidence) < Workloads
        /\ EvidenceHolds /\ w_captured.head \in GoodPlans
    BY <2>1 DEF WInv, ValidationTypes, EvidenceIsTrue, Collecting
  <2>4. file = w_files[item]
    OBVIOUS
  <2> HIDE DEF file
  <2>5. /\ w_evidence' \in Seq(ComparisonFile) /\ Len(w_evidence') = item /\ w_evidence'[item] = file
        /\ \A w \in 1..Len(w_evidence) : w_evidence'[w] = w_evidence[w]
    BY <2>1, <2>2, <2>3
  <2>6. ValidationTypes'
    BY <2>1, <2>5 DEF WInv, ValidationTypes, Pinning, Collecting
  <2>7. SnapshotsAreFrozen'
    BY <2>1 DEF WInv, SnapshotsAreFrozen, Pinning, Collecting, Frozen
  <2>8. EvidenceHolds'
    <3> SUFFICES ASSUME NEW w \in 1..Len(w_evidence')
                 PROVE  /\ w <= Workloads /\ w_files'[w] = w_evidence'[w]
                        /\ w_evidence'[w].tool = w_captured'.head /\ w_evidence'[w].upstream = Pinned
                        /\ w_evidence'[w].expected
      BY DEF EvidenceHolds
    <3>1. CASE w = item
      BY <2>1, <2>2, <2>3, <2>4, <2>5, <3>1
    <3>2. CASE w # item
      <4>1. w \in 1..Len(w_evidence)
        BY <2>3, <2>5, <3>2
      <4> QED
        BY <2>1, <2>3, <2>5, <4>1 DEF EvidenceHolds
    <3> QED
      BY <3>1, <3>2
  <2>9. /\ w_captured'.head \in GoodPlans
        /\ \/ w_pc' = "inputs" /\ Len(w_evidence') < Workloads
           \/ w_pc' = "unwind" /\ Len(w_evidence') = Workloads
    BY <2>1, <2>3, <2>5
  <2>10. EvidenceIsTrue'
    BY <2>8, <2>9 DEF EvidenceIsTrue, Early, Pinning, Collecting, Publishing
  <2> QED
    BY <2>1, <2>6, <2>7, <2>10, MoveInv DEF Publishing
<1> QED
  BY <1>1, <1>2

\* The last write: the receipt says what the evidence is.
LEMMA WriteInv ==
  ASSUME WInv, w_pc = "write receipt", w_pc' = "exited",
         w_receipt' = [head |-> w_captured.head, tree |-> w_captured.tree, evidence |-> w_evidence],
         UNCHANGED <<w_checkout, w_snap, w_files, w_run, w_at, w_captured, w_evidence, w_fate, w_left>>
  PROVE  WInv'
<1>1. ValidationTypes' /\ SnapshotsAreFrozen'
  BY DEF WInv, ValidationTypes, SnapshotsAreFrozen, Pinning, Collecting
<1>2. EvidenceIsTrue'
  BY DEF EvidenceIsTrue, Early, Pinning, Collecting, Publishing
<1>3. Validation!Held' \subseteq w_left'
  BY DEF WInv, Publishing, Validation!Held
<1>4. EvidenceHolds /\ Len(w_evidence) = Workloads /\ w_captured.head \in GoodPlans
  BY DEF WInv, EvidenceIsTrue, Publishing
<1>5. Validation!ReceiptIsTrue' /\ Validation!ReceiptMatchesFiles'
  BY <1>4 DEF EvidenceHolds, Validation!ReceiptIsTrue, Validation!ReceiptMatchesFiles
<1> QED
  BY <1>1, <1>2, <1>3, <1>5 DEF WInv, Publishing

LEMMA PublishReceiptInv ==
  ASSUME WInv, Validation!Publish PROVE WInv'
<1>1. CASE Validation!Fail /\ UNCHANGED w_receipt /\ w_pc \in Publishing
  BY <1>1, FailInv DEF Validation!Publish, Publishing
<1>2. CASE /\ w_pc \in Publishing /\ w_pc' \in Publishing
           /\ w_receipt' = w_receipt \/ w_receipt' \in {None, Torn}
           /\ UNCHANGED <<w_checkout, w_snap, w_files, w_run, w_at, w_captured, w_evidence, w_fate, w_left>>
  <2>1. ValidationTypes' /\ SnapshotsAreFrozen'
    BY <1>2 DEF WInv, ValidationTypes, SnapshotsAreFrozen, Publishing, Pinning, Collecting
  <2>2. EvidenceHolds => EvidenceHolds'
    BY <1>2 DEF EvidenceHolds
  <2>3. EvidenceIsTrue'
    BY <1>2, <2>2 DEF WInv, EvidenceIsTrue, Early, Pinning, Collecting, Publishing
  <2>4. Validation!Held' \subseteq w_left'
    BY <1>2 DEF WInv, Validation!Held
  <2> QED
    BY <1>2, <2>1, <2>3, <2>4, MoveInv DEF Publishing
<1> QED
  BY <1>1, <1>2, WriteInv DEF Validation!Publish, Validation!GoTo, Publishing

LEMMA ValidationKillInv ==
  ASSUME WInv, Validation!Kill PROVE WInv'
<1>1. /\ w_pc' = "exited" /\ w_left' = Validation!Repositories
      /\ UNCHANGED <<w_checkout, w_snap, w_files, w_receipt, w_run, w_at, w_captured, w_evidence, w_fate>>
  BY DEF Validation!Kill
<1>2. ValidationTypes' /\ SnapshotsAreFrozen'
  BY <1>1 DEF WInv, ValidationTypes, SnapshotsAreFrozen, Pinning, Collecting
<1>3. EvidenceIsTrue'
  BY <1>1 DEF EvidenceIsTrue, Early, Pinning, Collecting, Publishing
<1>4. Validation!Held' \subseteq w_left'
  BY <1>1 DEF Validation!Held
<1> QED
  BY <1>1, <1>2, <1>3, <1>4, ClaimsStay DEF WInv, ReceiptClaims

\* An edit spares what is frozen, makes no snapshot and removes none.
LEMMA ValidationEditInv ==
  ASSUME GoodPlans \subseteq Candidates, WInv, Validation!Edit PROVE WInv'
<1>1. UNCHANGED <<w_files, w_receipt, w_run, w_pc, w_at, w_captured, w_evidence, w_fate, w_left>>
  BY DEF Validation!Edit, Validation!process
<1>2. w_checkout' \in [Validation!Repositories -> [head : Trees, work : Trees]]
  <2>1. ASSUME NEW repo \in Validation!Repositories, NEW c \in Validation!Commits(repo)
        PROVE  [head |-> c, work |-> c] \in [head : Trees, work : Trees]
    BY <2>1 DEF Validation!Commits, Trees
  <2> QED
    BY <2>1 DEF WInv, ValidationTypes, Validation!Edit, Trees
<1>3. /\ w_snap' \in [Validation!Repositories -> Snapshot \cup {None}]
      /\ \A repo \in Validation!Repositories :
            /\ w_snap[repo] \in Snapshot => w_snap'[repo] \in Snapshot
            /\ Frozen(repo) => w_snap'[repo] = w_snap[repo]
            /\ w_snap'[repo] # None => w_snap[repo] # None
  <2>1. CASE w_snap' = w_snap
    BY <2>1 DEF WInv, ValidationTypes
  <2>2. ASSUME NEW repo \in Validation!Repositories, w_snap[repo] # None, ~w_snap[repo].frozen,
               w_snap' = [w_snap EXCEPT ![repo].tree = Dirty]
        PROVE  <1>3!1 /\ <1>3!2
    <3> DEFINE new == [w_snap[repo] EXCEPT !.tree = Dirty]
    <3>1. w_snap \in [Validation!Repositories -> Snapshot \cup {None}] /\ w_snap[repo] \in Snapshot
      BY <2>2 DEF WInv, ValidationTypes
    <3>2. new \in Snapshot
      BY <3>1 DEF Snapshot, Trees
    <3>3. w_snap' = [w_snap EXCEPT ![repo] = new]
      BY <2>2
    <3> HIDE DEF new
    <3> QED
      BY <2>2, <3>1, <3>2, <3>3 DEF Frozen
  <2> QED
    BY <2>1, <2>2 DEF Validation!Edit
<1>4. Validation!Held' \subseteq Validation!Held
  BY <1>3 DEF Validation!Held
<1>5. ValidationTypes'
  BY <1>1, <1>2, <1>3 DEF WInv, ValidationTypes
<1>6. \A repo \in Validation!Repositories : Frozen(repo) => Frozen(repo)'
  BY <1>3 DEF Frozen
<1>7. SnapshotsAreFrozen'
  <2>1. "candidate" \in Validation!Repositories /\ "upstream" \in Validation!Repositories
    BY DEF Validation!Repositories
  <2>2. w_pc \in Pinning => w_at \in Validation!Repositories
    BY DEF WInv, ValidationTypes
  <2>3. w_pc = "judge" => w_snap'["candidate"] = w_snap["candidate"] /\ w_snap'["upstream"] = w_snap["upstream"]
    BY <1>3, <2>1 DEF WInv, SnapshotsAreFrozen, Collecting
  <2> QED
    BY <1>1, <1>3, <1>6, <2>1, <2>2, <2>3 DEF WInv, SnapshotsAreFrozen, Pinning
<1>8. EvidenceHolds => EvidenceHolds'
  BY <1>1 DEF EvidenceHolds
<1>9. EvidenceIsTrue'
  BY <1>1, <1>8 DEF WInv, EvidenceIsTrue
<1>10. ReceiptClaims'
  BY <1>1, ClaimsStay DEF WInv, ReceiptClaims
<1> QED
  BY <1>1, <1>4, <1>5, <1>7, <1>9, <1>10 DEF WInv, ReceiptClaims, Validation!IsReceipt

LEMMA ValidationStutterInv ==
  ASSUME WInv, UNCHANGED Validation!vars PROVE WInv'
<1> USE DEF Validation!vars, Validation!process
<1>1. ValidationTypes' /\ SnapshotsAreFrozen'
  BY DEF WInv, ValidationTypes, SnapshotsAreFrozen, Frozen
<1>2. EvidenceIsTrue'
  BY DEF WInv, EvidenceIsTrue, EvidenceHolds
<1>3. ReceiptClaims'
  BY ClaimsStay DEF WInv, ReceiptClaims
<1> QED
  BY <1>1, <1>2, <1>3 DEF WInv, ReceiptClaims, Validation!IsReceipt, Validation!Held

\* Whatever is edited or killed, at whichever step and over however many runs:
\* a receipt on disk is true of the commit it names and of the files beside it,
\* and a run leaves no frozen worktree it did not have to (workload_validation.py).
THEOREM ReceiptStaysSound == Validation!Spec => []ReceiptIsSound
<1>1. Workloads \in Nat \ {0} /\ GoodPlans \subseteq Candidates
  BY ValidationAssumption DEF Validation!ValidationAssumption
<1>2. Validation!Init => WInv
  <2> SUFFICES ASSUME Validation!Init PROVE WInv
    OBVIOUS
  <2> USE DEF Validation!Init
  <2>1. w_checkout \in [Validation!Repositories -> [head : Trees, work : Trees]]
    BY DEF Validation!Commits, Trees
  <2>2. ValidationTypes
    BY <2>1 DEF ValidationTypes, Trees, Pinning
  <2>3. SnapshotsAreFrozen /\ EvidenceIsTrue
    BY DEF SnapshotsAreFrozen, EvidenceIsTrue, Early, Pinning, Collecting, Publishing
  <2> QED
    BY <2>2, <2>3 DEF WInv, Publishing, Validation!Held, Validation!IsReceipt,
       Validation!ReceiptIsTrue, Validation!ReceiptMatchesFiles
<1>3. WInv /\ [Validation!Next]_(Validation!vars) => WInv'
  BY <1>1, StartInv, CacheInv, CleanHeadInv, PlanInv, UpstreamInv, AddWorktreeInv, InspectInv,
     FreezeInv, RequireFrozenInv, UnwindInv, InputsInv, RunComparisonInv, JudgeInv,
     PublishReceiptInv, ValidationKillInv, ValidationEditInv, ValidationStutterInv
  DEF Validation!Next, Validation!Step
<1>4. WInv => ReceiptIsSound
  BY DEF WInv, ReceiptIsSound, Validation!ReceiptIsSound, Validation!NoWorktreeLeft
<1> QED
  BY <1>2, <1>3, <1>4, PTL DEF Validation!Spec

-----------------------------------------------------------------------------
(* UpstreamComparison                                                      *)

\* The verdict is given once, on what no step changes any more; and what
\* upstream says it touched covers everything it wrote.
CInv ==
    /\ DOMAIN c_cells \subseteq Addresses
    /\ c_mem_used \in Nat \cup {None}
    /\ c_terminal \in {None, "halted", "unsupported", "fault"}
    /\ c_mem_used = None => c_terminal = None
    /\ c_terminal = None => c_result = None
    /\ c_mem_used # None => \A a \in Comparison!Written(c_trace) : a < c_mem_used
    /\ Comparison!VerdictsAreExact

\* A verdict is true when it is given.
LEMMA CompareInv ==
  ASSUME CInv, Comparison!compare
  PROVE  CInv'
<1>1. /\ c_terminal # None /\ UNCHANGED <<c_trace, c_mem_used, c_cells, c_step_index, c_terminal>>
      /\ c_result' = IF Comparison!Mismatched THEN "MISMATCH"
                   ELSE IF c_terminal = "halted" THEN "MATCH" ELSE "PREFIX_MATCH"
  BY DEF Comparison!compare
<1>2. c_mem_used \in Nat
  BY <1>1 DEF CInv
<1>3. Addresses \subseteq Nat /\ DOMAIN c_cells \subseteq Addresses
  BY ComparisonAssumption DEF CInv, Comparison!ComparisonAssumption
<1>4. \A a \in Comparison!Written(c_trace) : a < c_mem_used
  BY <1>2, ComparisonAssumption DEF CInv, Comparison!ComparisonAssumption
<1>5. \A a : a \notin Comparison!Written(c_trace) => Comparison!Mem(a) = 0
  BY DEF Comparison!Mem
<1>6. UNCHANGED Comparison!Written(c_trace) /\ \A a : UNCHANGED <<Comparison!Mem(a), Comparison!HostMem(a)>>
  BY <1>1 DEF Comparison!Written, Comparison!Mem, Comparison!HostMem
<1>7. ASSUME ~Comparison!Mismatched
      PROVE  /\ \A a \in DOMAIN c_cells : ~(a >= c_mem_used) /\ c_cells[a] = Comparison!Mem(a)
             /\ c_terminal = "halted" => c_step_index = Len(c_trace) /\ ~Comparison!Omitted
             /\ c_terminal # "halted" => c_terminal = "unsupported" /\ Comparison!Missing = {}
  BY <1>7 DEF Comparison!Mismatched, Comparison!Disagrees, Comparison!Gap
<1>8. Comparison!MatchIsEquality'
  <2> SUFFICES ASSUME c_result' = "MATCH"
               PROVE  /\ c_terminal = "halted" /\ c_step_index = Len(c_trace)
                      /\ \A a \in Addresses : Comparison!HostMem(a) = Comparison!Mem(a)
    BY <1>1, <1>6 DEF Comparison!MatchIsEquality
  <2>1. ~Comparison!Mismatched /\ c_terminal = "halted"
    BY <1>1
  <2>2. ASSUME NEW a \in Addresses PROVE Comparison!HostMem(a) = Comparison!Mem(a)
    <3>1. CASE a \in DOMAIN c_cells
      BY <1>7, <2>1, <3>1 DEF Comparison!HostMem
    <3>2. CASE a \notin DOMAIN c_cells
      <4>1. Comparison!Mem(a) = 0
        <5>1. CASE a < c_mem_used
          BY <1>7, <2>1, <3>2, <5>1 DEF Comparison!Omitted, Comparison!Missing
        <5>2. CASE ~(a < c_mem_used)
          BY <1>4, <1>5, <5>2
        <5> QED
          BY <5>1, <5>2
      <4> QED
        BY <3>2, <4>1 DEF Comparison!HostMem
    <3> QED
      BY <3>1, <3>2
  <2> QED
    BY <1>7, <2>1, <2>2
<1>9. Comparison!FaithfulRunMatches'
  <2> SUFFICES ASSUME c_terminal = "halted", c_step_index = Len(c_trace),
                      DOMAIN c_cells = Comparison!Written(c_trace),
                      \A a \in DOMAIN c_cells : c_cells[a] = Comparison!Mem(a)
               PROVE  c_result' = "MATCH"
    BY <1>1, <1>6 DEF Comparison!FaithfulRunMatches
  <2>1. \A a \in DOMAIN c_cells : ~Comparison!Disagrees(a)
    <3> SUFFICES ASSUME NEW a \in DOMAIN c_cells PROVE ~(a >= c_mem_used)
      BY DEF Comparison!Disagrees
    <3>1. a < c_mem_used /\ a \in Nat
      BY <1>3, <1>4
    <3> QED
      BY <1>2, <3>1
  <2>2. ~Comparison!Omitted
    BY <1>5 DEF Comparison!Omitted, Comparison!Missing
  <2> QED
    BY <1>1, <2>1, <2>2 DEF Comparison!Mismatched
<1>10. Comparison!PrefixIsHonest'
  <2> SUFFICES ASSUME c_result' = "PREFIX_MATCH"
               PROVE  /\ c_terminal = "unsupported"
                      /\ \A a \in Addresses : a < c_mem_used =>
                            a \in DOMAIN c_cells /\ c_cells[a] = Comparison!Mem(a)
                      /\ \A a \in DOMAIN c_cells : a < c_mem_used
    BY <1>1, <1>6 DEF Comparison!PrefixIsHonest
  <2>1. ~Comparison!Mismatched /\ c_terminal # "halted"
    BY <1>1
  <2>2. \A a \in Addresses : a < c_mem_used => a \in DOMAIN c_cells
    BY <1>7, <2>1 DEF Comparison!Missing
  <2>3. \A a \in DOMAIN c_cells : a \in Nat /\ ~(a >= c_mem_used)
    BY <1>3, <1>7, <2>1
  <2> QED
    BY <1>2, <1>7, <2>1, <2>2, <2>3
<1> QED
  BY <1>1, <1>6, <1>8, <1>9, <1>10 DEF CInv, Comparison!VerdictsAreExact

\* Until the verdict nothing is claimed, and afterwards nothing moves.
LEMMA ComparisonNextInv ==
  ASSUME CInv, [Comparison!Next]_(Comparison!vars)
  PROVE  CInv'
<1>1. None \notin Nat \cup {"MATCH", "PREFIX_MATCH"}
  BY ComparisonAssumption DEF Comparison!ComparisonAssumption
<1>2. ASSUME c_result = None, c_result' = None PROVE Comparison!VerdictsAreExact'
  BY <1>1, <1>2 DEF Comparison!VerdictsAreExact, Comparison!MatchIsEquality,
     Comparison!FaithfulRunMatches, Comparison!PrefixIsHonest
<1>3. CASE Comparison!UpstreamStep
  <2>1. /\ c_mem_used = None
        /\ UNCHANGED <<c_mem_used, c_cells, c_step_index, c_terminal, c_result>>
    BY <1>3 DEF CInv, Comparison!UpstreamStep
  <2> QED
    BY <1>2, <2>1 DEF CInv
<1>4. CASE Comparison!UpstreamEnd
  <2>1. /\ c_mem_used = None /\ UNCHANGED <<c_trace, c_cells, c_step_index, c_terminal, c_result>>
        /\ c_mem_used' \in 0..(Comparison!Max(Addresses) + 1)
        /\ \A a \in Comparison!Written(c_trace) : a < c_mem_used'
    BY <1>4 DEF Comparison!UpstreamEnd
  <2>2. c_mem_used' \in Nat
    BY <2>1, ComparisonAssumption DEF Comparison!ComparisonAssumption
  <2>3. Comparison!Written(c_trace)' = Comparison!Written(c_trace)
    BY <2>1 DEF Comparison!Written
  <2> QED
    BY <1>2, <2>1, <2>2, <2>3 DEF CInv
<1>5. CASE Comparison!HostStep
  <2>1. /\ c_mem_used # None /\ c_terminal = None
        /\ UNCHANGED <<c_trace, c_mem_used, c_terminal, c_result>>
        /\ DOMAIN c_cells' \subseteq Addresses
    BY <1>5 DEF CInv, Comparison!HostStep, Comparison!Writes
  <2>2. Comparison!Written(c_trace)' = Comparison!Written(c_trace)
    BY <2>1 DEF Comparison!Written
  <2> QED
    BY <1>2, <2>1, <2>2 DEF CInv
<1>6. CASE Comparison!HostEnd
  <2>1. /\ c_mem_used # None /\ c_terminal = None
        /\ UNCHANGED <<c_trace, c_mem_used, c_cells, c_step_index, c_result>>
        /\ c_terminal' \in {"halted", "unsupported", "fault"}
    BY <1>6 DEF Comparison!HostEnd
  <2>2. Comparison!Written(c_trace)' = Comparison!Written(c_trace)
    BY <2>1 DEF Comparison!Written
  <2> QED
    BY <1>2, <2>1, <2>2 DEF CInv
<1>7. CASE UNCHANGED Comparison!vars
  <2>1. UNCHANGED <<c_trace, c_mem_used, c_cells, c_step_index, c_terminal, c_result>>
    BY <1>7 DEF Comparison!vars
  <2>2. /\ UNCHANGED Comparison!Written(c_trace)
        /\ \A a : UNCHANGED <<Comparison!Mem(a), Comparison!HostMem(a)>>
    BY <2>1 DEF Comparison!Written, Comparison!Mem, Comparison!HostMem
  <2>3. Comparison!VerdictsAreExact'
    BY <2>1, <2>2 DEF CInv, Comparison!VerdictsAreExact, Comparison!MatchIsEquality,
       Comparison!FaithfulRunMatches, Comparison!PrefixIsHonest
  <2> QED
    BY <2>1, <2>2, <2>3 DEF CInv
<1> QED
  BY <1>3, <1>4, <1>5, <1>6, <1>7, CompareInv DEF Comparison!Next

\* Whatever the program writes and whatever the host does, rightly or not: MATCH
\* is the same memory after as many cycles, a faithful run is never called a
\* mismatch, and PREFIX_MATCH claims no more than a prefix that is wholly right
\* (compare of host_upstream_comparison.py).
THEOREM VerdictsStayExact == Comparison!Spec => []VerdictsAreExact
<1>1. Comparison!Init => CInv
  BY ComparisonAssumption DEF Comparison!ComparisonAssumption, Comparison!Init, CInv, Comparison!VerdictsAreExact,
     Comparison!MatchIsEquality, Comparison!FaithfulRunMatches, Comparison!PrefixIsHonest
<1>2. CInv => VerdictsAreExact
  BY DEF CInv, VerdictsAreExact
<1> QED
  BY <1>1, <1>2, ComparisonNextInv, PTL DEF Comparison!Spec
=============================================================================
