-------------------------- MODULE UpstreamComparison --------------------------
(***************************************************************************)
(* The verdict of tools/host_upstream_comparison.py: upstream executes a   *)
(* program and leaves a memory image, the host executes it too, rightly or *)
(* not, to its end or not, and compare() judges what the host left.        *)
(***************************************************************************)
EXTENDS Integers, Sequences, FiniteSets, Functions, FiniteSetsExt

CONSTANTS Addresses,   \* cells: 0..n
          Values,      \* what a cell may hold, 0 included
          MaxCycles,   \* bound
          None

\* What the constants must satisfy.
ComparisonAssumption ==
    /\ Max(Addresses) \in Nat /\ Addresses = 0..Max(Addresses)
    /\ 0 \in Values /\ MaxCycles \in Nat
    /\ None \notin Nat \cup {"MATCH", "PREFIX_MATCH"}

VARIABLES trace,      \* upstream's writes, one per cycle: [addr, val], or None for no write
          mem_used,   \* upstream's touched prefix, None while it runs
          cells,      \* the host's memory: a function on the cells it wrote
          step_index, terminal,   \* the host's run
          result

vars == <<trace, mem_used, cells, step_index, terminal, result>>

Writes == {None} \cup [addr : Addresses, val : Values]
Written(t) == {t[i].addr : i \in {j \in DOMAIN t : t[j] # None}}
\* The upstream image: untouched cells are zero.
Mem(a) == IF a \in Written(trace)
          THEN (CHOOSE w \in Range(trace) : w # None /\ w.addr = a).val ELSE 0
HostMem(a) == IF a \in DOMAIN cells THEN cells[a] ELSE 0
-----------------------------------------------------------------------------
\* Program::execute; memory is write-once.
UpstreamStep ==
    /\ mem_used = None /\ Len(trace) < MaxCycles
    /\ \E w \in Writes : (w # None => w.addr \notin Written(trace)) /\ trace' = Append(trace, w)
    /\ UNCHANGED <<mem_used, cells, step_index, terminal, result>>

UpstreamEnd ==
    /\ mem_used = None
    /\ mem_used' \in {u \in 0..(Max(Addresses) + 1) : \A a \in Written(trace) : a < u}
    /\ UNCHANGED <<trace, cells, step_index, terminal, result>>

\* HostRuntime.step, faithful or not; the host's memory is write-once too.
HostStep ==
    /\ mem_used # None /\ terminal = None /\ step_index < MaxCycles
    /\ \E w \in Writes :
         /\ w # None => w.addr \notin DOMAIN cells
         /\ cells' = IF w = None THEN cells
                     ELSE [a \in DOMAIN cells \cup {w.addr} |-> IF a = w.addr THEN w.val ELSE cells[a]]
    /\ step_index' = step_index + 1
    /\ UNCHANGED <<trace, mem_used, terminal, result>>

HostEnd ==
    /\ mem_used # None /\ terminal = None
    /\ terminal' \in {"halted", "unsupported", "fault"}
    /\ UNCHANGED <<trace, mem_used, cells, step_index, result>>

Disagrees(a) == a >= mem_used \/ cells[a] # Mem(a)

Missing == {a \in Addresses : a < mem_used} \ DOMAIN cells

\* Mutant: cells the host never wrote are not looked at.
OmittedIgnored == FALSE
Omitted == \E a \in Missing : Mem(a) # 0

Gap == Missing # {}

Mismatched ==
    \/ \E a \in DOMAIN cells : Disagrees(a)
    \/ terminal \notin {"halted", "unsupported"}
    \/ terminal = "halted" /\ step_index # Len(trace)
    \/ IF terminal = "halted" THEN Omitted ELSE Gap

compare ==
    /\ terminal # None /\ result = None
    /\ result' = IF Mismatched THEN "MISMATCH"
                 ELSE IF terminal = "halted" THEN "MATCH" ELSE "PREFIX_MATCH"
    /\ UNCHANGED <<trace, mem_used, cells, step_index, terminal>>

Init ==
    /\ trace = <<>> /\ mem_used = None /\ cells = <<>> /\ step_index = 0
    /\ terminal = None /\ result = None

Next == UpstreamStep \/ UpstreamEnd \/ HostStep \/ HostEnd \/ compare
Spec == Init /\ [][Next]_vars
-----------------------------------------------------------------------------
(* Properties *)

\* MATCH says that the host ran to the end, in as many cycles, to the same memory.
MatchIsEquality ==
    result = "MATCH" =>
        /\ terminal = "halted" /\ step_index = Len(trace)
        /\ \A a \in Addresses : HostMem(a) = Mem(a)

\* A run that did what upstream did is never called a mismatch.
FaithfulRunMatches ==
    /\ result # None /\ terminal = "halted" /\ step_index = Len(trace)
    /\ DOMAIN cells = Written(trace) /\ \A a \in DOMAIN cells : cells[a] = Mem(a)
    => result = "MATCH"

\* A run that stopped early claims at most a prefix, and only when every cell upstream
\* touched was decided by the host, and rightly.
PrefixIsHonest ==
    /\ result = "MATCH" => terminal = "halted"
    /\ result = "PREFIX_MATCH" =>
         /\ terminal = "unsupported"
         /\ \A a \in Addresses : a < mem_used => a \in DOMAIN cells /\ cells[a] = Mem(a)
         /\ \A a \in DOMAIN cells : a < mem_used

\* What the three verdicts of the comparison mean.
VerdictsAreExact == MatchIsEquality /\ FaithfulRunMatches /\ PrefixIsHonest
=============================================================================
