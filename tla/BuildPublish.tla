---------------------------- MODULE BuildPublish ----------------------------
(***************************************************************************)
(* Concurrent runs of the ULX3S build recipes (fpga/ulx3s/build_uart.sh,   *)
(* build_smoke.sh), which share one archive directory: the flock wrapper   *)
(* and digests of tools/portable_build_support.py, the source manifest of  *)
(* tools/source_provenance.py, and the exchange of tools/atomic_publish.py.*)
(* A process group may be told to stop, the wrapper alone may lose its     *)
(* terminal, and everything may be killed, at any step; sources may be     *)
(* edited, though never back to what they were.                            *)
(*                                                                         *)
(* An archive has one entry per recipe: the version of the sources its     *)
(* bitstream, its checksums and its source manifest are of.                *)
(***************************************************************************)
EXTENDS Integers, FiniteSets

CONSTANTS Builds, Recipes,
          MaxSource, MaxKills, MaxHangUps, \* bounds
          None

ASSUME PublishAssumption ==
    {MaxSource, MaxKills, MaxHangUps} \subseteq Nat /\ None \notin Builds

VARIABLES recipe,     \* [build -> recipe]
          pc,         \* [build -> step of the shell script]
          lock,       \* the build whose wrapper holds the lock, or None
          source,     \* version of the sources
          top,        \* [recipe -> ${TOP}.bit, in the recipe's own directory]
          stage,      \* [build -> its staged directory, or None]
          recorded,   \* [build -> the version in its source manifest]
          archive,    \* OUTDIR
          published,  \* history: [recipe -> entry last published]
          killed,     \* history: builds killed outright
          hung        \* history: builds whose wrapper lost its terminal

vars == <<recipe, pc, lock, source, top, stage, recorded, archive, published, killed, hung>>

Running(b) == pc[b] \notin {"idle", "locking", "done"}
At(b, step, next) == pc[b] = step /\ pc' = [pc EXCEPT ![b] = next]
-----------------------------------------------------------------------------
EditSource ==
    /\ source < MaxSource /\ source' = source + 1
    /\ UNCHANGED <<recipe, pc, lock, top, stage, recorded, archive, published, killed, hung>>

Launch(b) ==
    /\ At(b, "idle", "locking")
    /\ UNCHANGED <<recipe, lock, source, top, stage, recorded, archive, published, killed, hung>>

\* Mutant: a shared lock.
MayLockShared == TRUE
MayLock == lock = None

\* locked: LOCK_EX, then the script in a session of its own.
Acquire(b) ==
    /\ MayLock /\ lock' = b /\ At(b, "locking", "copy")
    /\ UNCHANGED <<recipe, source, top, stage, recorded, archive, published, killed, hung>>

\* mktemp and cp -a "$OUTDIR/." "$STAGE/"
Copy(b) ==
    /\ At(b, "copy", "record") /\ stage' = [stage EXCEPT ![b] = archive]
    /\ UNCHANGED <<recipe, lock, source, top, recorded, archive, published, killed, hung>>

\* source_provenance.py: digests of the inputs before the tools read them.
Record(b) ==
    /\ At(b, "record", "synth") /\ recorded' = [recorded EXCEPT ![b] = source]
    /\ stage' = [stage EXCEPT ![b][recipe[b]].manifest = source]
    /\ UNCHANGED <<recipe, lock, source, top, archive, published, killed, hung>>

\* yosys, nextpnr and ecppack.
Synth(b) ==
    /\ At(b, "synth", "pack") /\ top' = [top EXCEPT ![recipe[b]] = source]
    /\ UNCHANGED <<recipe, lock, source, stage, recorded, archive, published, killed, hung>>

\* cp of the bitstream, then write_manifest.
Pack(b) ==
    /\ \/ At(b, "pack", "sums") /\ stage' = [stage EXCEPT ![b][recipe[b]].bit = top[recipe[b]]]
       \/ At(b, "sums", "check") /\ stage' = [stage EXCEPT ![b][recipe[b]].sums = stage[b][recipe[b]].bit]
    /\ UNCHANGED <<recipe, lock, source, top, recorded, archive, published, killed, hung>>

SourceUnchanged(b) == recorded[b] = source

StageAfterExit(b) == None
Leave(b) == /\ pc' = [pc EXCEPT ![b] = "done"] /\ stage' = [stage EXCEPT ![b] = StageAfterExit(b)]
            /\ lock' = IF lock = b THEN None ELSE lock

\* check_manifest and source_provenance.py --check, or the exit that set -e makes of it.
Check(b) ==
    /\ pc[b] = "check"
    /\ IF stage[b][recipe[b]].sums = stage[b][recipe[b]].bit /\ SourceUnchanged(b)
       THEN pc' = [pc EXCEPT ![b] = "publish"] /\ UNCHANGED <<stage, lock>>
       ELSE Leave(b)
    /\ UNCHANGED <<recipe, source, top, recorded, archive, published, killed, hung>>

\* publish: renameat2(RENAME_EXCHANGE), then rmtree of what is now the old archive.
Exchange(b) ==
    /\ At(b, "publish", "rmtree")
    /\ archive' = stage[b] /\ stage' = [stage EXCEPT ![b] = archive]
    /\ published' = [published EXCEPT ![recipe[b]] = stage[b][recipe[b]]]
    /\ UNCHANGED <<recipe, lock, source, top, recorded, killed, hung>>

Rmtree(b) ==
    /\ At(b, "rmtree", "exit") /\ stage' = [stage EXCEPT ![b] = None]
    /\ UNCHANGED <<recipe, lock, source, top, recorded, archive, published, killed, hung>>

\* The script's end: success, a failing command, or the INT or TERM that the wrapper
\* forwards to the group.  The trap removes the stage, so that a script that outlives
\* the signal fails at its next step; the wrapper's exit releases the lock.
Exit(b) ==
    /\ Running(b) /\ Leave(b)
    /\ UNCHANGED <<recipe, source, top, recorded, archive, published, killed, hung>>

\* SIGHUP reaches the wrapper, which does not handle it, and not the script's session.
HangUp(b) ==
    /\ Running(b) /\ lock = b /\ lock' = None
    /\ Cardinality(hung) < MaxHangUps /\ hung' = hung \cup {b}
    /\ UNCHANGED <<recipe, pc, source, top, stage, recorded, archive, published, killed>>

\* Mutant: a lock file that its owner has to remove.
LockAfterKillKept(b) == lock
LockAfterKill(b) == IF lock = b THEN None ELSE lock

Kill(b) ==
    /\ Running(b) /\ Cardinality(killed) < MaxKills
    /\ pc' = [pc EXCEPT ![b] = "done"] /\ lock' = LockAfterKill(b) /\ killed' = killed \cup {b}
    /\ UNCHANGED <<recipe, source, top, stage, recorded, archive, published, hung>>

Init ==
    /\ recipe \in [Builds -> Recipes] /\ pc = [b \in Builds |-> "idle"] /\ lock = None
    /\ source = 1 /\ top = [r \in Recipes |-> 0]
    /\ stage = [b \in Builds |-> None] /\ recorded = [b \in Builds |-> 0]
    /\ archive = [r \in Recipes |-> [bit |-> 0, sums |-> 0, manifest |-> 0]]
    /\ published = archive /\ killed = {} /\ hung = {}

Script(b) == \/ Acquire(b) \/ Copy(b) \/ Record(b) \/ Synth(b) \/ Pack(b) \/ Check(b)
             \/ Exchange(b) \/ Rmtree(b)
Next == \/ EditSource
        \/ \E b \in Builds : Launch(b) \/ Script(b) \/ Exit(b) \/ HangUp(b) \/ Kill(b)

\* A script that holds the lock runs on; flock serves a waiting wrapper.
Spec == Init /\ [][Next]_vars /\ \A b \in Builds : WF_vars(Script(b) \/ Exit(b))
-----------------------------------------------------------------------------
(* Properties *)

\* At every moment, through every interruption, the published archive is whole: each
\* bitstream is the one its checksums and its source manifest describe.
ArchiveIsWhole ==
    \A r \in Recipes : archive[r].sums = archive[r].bit /\ archive[r].manifest = archive[r].bit

\* No build undoes the other recipe's last publication, although it publishes a copy of
\* the whole archive that it took earlier; a wrapper that was hung up releases the lock
\* under its script, and then one may.
NoLostPublication == hung = {} => archive = published

\* A build that ended, not by SIGKILL, leaves no staged directory.
StageRemoved == \A b \in Builds : pc[b] = "done" /\ b \notin killed => stage[b] = None

\* A build that waits for the lock gets it, whatever became of its holder.
LockIsPassedOn == \A b \in Builds : pc[b] = "locking" ~> pc[b] # "locking"

\* What a reader of the archive, and of the build directory, may rely on.
PublicationIsSound == ArchiveIsWhole /\ NoLostPublication /\ StageRemoved
=============================================================================
