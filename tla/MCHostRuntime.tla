--------------------------- MODULE MCHostRuntime ----------------------------
(***************************************************************************)
(* HostRuntime over GF(8), four indices and addresses 0..5, in one of two  *)
(* scenes.  "any": every step of the host and the lane, for programs of    *)
(* three instructions and a sentinel that defer and chain equalities,      *)
(* suspend in BLAKE3, conflict, back-solve, jump and change frames.        *)
(* "recovery": what the clauses of step() recover from, a BLAKE3 step that *)
(* fails before its RETIRE reaches the endpoint and a RETIRE refused for   *)
(* its checksum; at most MaxFailures of them happen, and the caller calls  *)
(* run() again after each.  Its programs halt: two BLAKE3 steps, and one   *)
(* after a deferred equality it closes.                                    *)
(***************************************************************************)
EXTENDS HostRuntime

CONSTANTS AnyTxn,         \* bound: transactions drawn in the scene "any"
          MaxFailures     \* bound: failures in the scene "recovery"

ASSUME SceneAssumption == AnyTxn \in Nat /\ MaxFailures \in Nat

VARIABLES scene, failures

mcVars == <<hrVars, scene, failures>>
-----------------------------------------------------------------------------
(* The instance                                                            *)

X == {1}

MCCrc(payload) == (payload.next_pc + payload.next_fp + Len(payload.writes)) % 3

\* A digest that depends on every operand.
MCCompress(operands) ==
    LET mix[n \in 0..Len(operands)] ==
          IF n = 0 THEN One ELSE Xor(field_xtime(mix[n - 1]), operands[n])
    IN  <<mix[Len(operands)], field_xtime(mix[Len(operands)])>>

Slot == [kind |-> "Set", offsets |-> <<5>>, constant |-> One, mode |-> "Cell",
         message_offsets |-> <<0>>, cv_offset |-> 1, out_offset |-> 4,
         metadata_valid |-> TRUE]
Op(k, offsets)    == [Slot EXCEPT !.kind = k, !.offsets = offsets]
Set(offset)       == Op("Set", <<offset>>)
Deref(m, offsets) == [Slot EXCEPT !.kind = "Deref", !.offsets = offsets, !.mode = m]
Hash              == [Slot EXCEPT !.kind = "Blake3"]
HashTo(out)       == [Hash EXCEPT !.out_offset = out, !.cv_offset = 0]

Prog(a, b, c) == [operations |-> <<a, b, c, Slot>>, pc0 |-> 0, fp0 |-> 0]

AnyPrograms ==
    { Prog(Deref("Cell", <<0, 3, 4>>), Deref("Cell", <<0, 4, 5>>), Slot),
      Prog(Deref("Cell", <<0, 4, 5>>), Hash, Slot),
      Prog(Slot, Hash, Slot),
      Prog(Hash, Op("Xor", <<4, 5, 2>>), Op("Mul", <<2, 0, 3>>)),
      Prog(Deref("Pc", <<0, 4, 5>>), Deref("Fp", <<0, 5, 5>>), Op("Jump", <<0, 5, 5>>)),
      Prog(Op("Jump", <<0, 2, 3>>), Op("Xor", <<0, 1, 2>>), Slot),
      Prog([Hash EXCEPT !.metadata_valid = FALSE], Slot, Slot),
      [Prog(Slot, Op("Jump", <<0, 2, 4>>), Hash) EXCEPT !.pc0 = 1, !.fp0 = 1] }

RecoveryPrograms ==
    { Prog(HashTo(4), Set(2), HashTo(4)),
      Prog(Deref("Cell", <<0, 2, 3>>), HashTo(3), Set(5)),
      Prog(Deref("Cell", <<0, 3, 5>>), HashTo(2), HashTo(2)) }

MCPrograms == AnyPrograms \cup RecoveryPrograms

Memory(f) == [a \in Address |-> IF a \in DOMAIN f THEN Present(f[a]) ELSE ABSENT]

TwoWords == Memory([a \in {0, 1} |-> IF a = 0 THEN One ELSE Zero])

MCMemories == { TwoWords, Memory([a \in {0, 1, 2, 3} |-> IF a \in {0, 1} THEN One ELSE X]) }
-----------------------------------------------------------------------------
(* The scenes                                                              *)

\* The endpoint refuses the RETIRE in flight.
WrongRetire == phase = "retiring" /\ last_status' = "RETIRE_MISMATCH"

\* The lane and the host work; Prepare after a failure is the caller's retry.
Work ==
    /\ scene = "recovery"
    /\ \/ Deliver /\ ~WrongRetire
       \/ FinishNegotiate
       \/ Prepare
       \/ Halt
       \/ AnswerService
       \/ RequestFaults
       \/ ServiceResponseFaults
       \/ RetireFaults
       \/ SendRetire
       \/ Apply
    /\ UNCHANGED <<scene, failures>>

\* A BLAKE3 exchange raises or its frame is damaged, the service fails, or RETIRE
\* does not match.
Fail ==
    /\ scene = "recovery"
    /\ failures < MaxFailures
    /\ failures' = failures + 1
    /\ \/ /\ phase \in {"requested", "answered"}
          /\ IsBlake3
          /\ ExchangeRaises \/ ServiceFails
       \/ phase = "answered" /\ Corrupt
       \/ phase = "retiring" /\ wire /\ Serviced /\ ExchangeRaises
       \/ Deliver /\ WrongRetire
    /\ UNCHANGED scene

AnyStep ==
    /\ scene = "any"
    /\ HostNext
    /\ txn_id' <= AnyTxn
    /\ UNCHANGED <<scene, failures>>

MCInit ==
    /\ HostInit /\ failures = 0
    /\ \/ scene = "any" /\ program \in AnyPrograms
       \/ scene = "recovery" /\ program \in RecoveryPrograms /\ cells = TwoWords

MCSpec == MCInit /\ [][AnyStep \/ Work \/ Fail]_mcVars /\ WF_mcVars(Work)

\* A program that runs to its sentinel does so although steps fail on
\* the way: every such failure leaves the runtime reusable, with no service
\* left suspended, no binding left outstanding and no key taken for a replay
\* (the except clauses and RETIRE_DISCARDING_FAULTS of step(),
\* ModelServiceAdapter.abort).
ProgramCompletes == scene = "recovery" ~> phase = "closed" /\ ended = "halted"
=============================================================================
