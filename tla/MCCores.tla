------------------------------ MODULE MCCores -------------------------------
(*****************************************************************************)
(* The cores and what surrounds them on the FPGA, each clocked on its own:   *)
(* the scalar controller, the UART bridge with an echoing core, the stream   *)
(* ALU, and the LSC-1u core with its pin model under any host ("lsc1u") and  *)
(* under the bring-up kit ("kit"). They do not interact; Init picks the one  *)
(* that runs and the others rest in their initial state. The bridge has four *)
(* operands per command and five clocks per byte: the drift of a command     *)
(* stays below a byte time, as sixteen operands do at 250 clocks.            *)
(*****************************************************************************)
EXTENDS M2Controller, UartBridge

VARIABLE machine   \* the one that runs; the others are at rest
VARIABLES a_state, a_byte_index, a_scratch_byte, a_fault, a_a_shift, a_acc, a_record, a_txn
VARIABLES k_state, k_byte_index, k_saved_byte, k_out_byte, k_out_valid, k_fault_reg,
          k_done_reg, k_a_shift, k_accumulator, k_command, k_incoming, k_outgoing,
          k_responses_acked, k_response_total, k_mul_bits_remaining,
          k_pending_mul_result, k_mul_tx_bubble, k_fault, k_done, k_fed, k_got, k_case,
          k_phase, k_todo, k_answer, k_seen, k_observations, k_receipt, k_edited,
          k_verdict

\* Bytes of three bits and words of two bytes: GF(2^6) modulo x^6 + x + 1.
MCXor == {0}
MCMul == {1}
MCSet == {0, 1}
MCStatusBytes == <<{0}, {0}, {0, 1, 2}, {2}>>
MCAluBytes == {{}, {0}, {1, 2}, {0, 2}}

\* Four vectors as in vectors.json: SET, XOR, MUL and a MUL that reduces.
MCVectors ==
    << [opcode |-> MCSet, a |-> <<{0, 2}, {1}>>, b |-> <<{}, {}>>,
        expected |-> <<{0, 2}, {1}>>],
       [opcode |-> MCXor, a |-> <<{0, 2}, {1}>>, b |-> <<{0, 1}, {}>>,
        expected |-> <<{1, 2}, {1}>>],
       [opcode |-> MCMul, a |-> <<{1}, {}>>, b |-> <<{0, 2}, {0}>>,
        expected |-> <<{1}, {0, 1}>>],
       [opcode |-> MCMul, a |-> <<{0, 1}, {2}>>, b |-> <<{1, 2}, {0, 2}>>,
        expected |-> <<{}, {0}>>] >>

\* GF(8) and four cells: g has order 7, so its powers below four differ and
\* some words are no power below four.
Op(k, o, c) == [kind |-> k, offsets |-> o, constant |-> c]
MCLoadValues == {{}, {1}, {0, 1}}
MCOperations ==
    {Op("Set", <<o>>, {2}) : o \in {0, 2, 3}}
    \cup {Op(k, o, {}) : k \in {"Xor", "Mul"},
                           o \in {<<0, 1, 2>>, <<1, 1, 0>>, <<0, 1, 0>>, <<2, 3, 3>>}}
    \cup {Op("Jump", o, {}) : o \in {<<0, 1, 2>>, <<1, 0, 0>>}}

Alu == INSTANCE StreamAlu WITH
      ByteBits <- 3, WordBytes <- 2, XOR128 <- MCXor, MUL128 <- MCMul,
      SET128 <- MCSet, NONZERO <- {2}, CLEAR <- {0, 2}, STATUS <- {1, 2},
      StatusBytes <- MCStatusBytes, HostBytes <- MCAluBytes,
      ErrorByte <- {1, 2}, None <- NoByte, state <- a_state,
      byte_index <- a_byte_index, scratch_byte <- a_scratch_byte,
      fault <- a_fault, a_shift <- a_a_shift, acc <- a_acc, record <- a_record,
      txn <- a_txn
aluVars == <<a_state, a_byte_index, a_scratch_byte, a_fault, a_a_shift, a_acc, a_record,
          a_txn>>
ASSUME AluAssumption == Alu!AluAssumption

Kit == INSTANCE Lsc1uBringup WITH
      ByteBits <- 3, WordBytes <- 2, ReductionLow <- {0, 1}, XOR <- MCXor,
      MUL <- MCMul, SET <- MCSet, FaultByte <- {1},
      HostBytes <- {{0}, {1}, {0, 1}, {0, 2}}, Vectors <- MCVectors,
      state <- k_state, byte_index <- k_byte_index, saved_byte <- k_saved_byte,
      out_byte <- k_out_byte, out_valid <- k_out_valid,
      fault_reg <- k_fault_reg, done_reg <- k_done_reg, a_shift <- k_a_shift,
      accumulator <- k_accumulator, command <- k_command,
      incoming <- k_incoming, outgoing <- k_outgoing,
      responses_acked <- k_responses_acked, response_total <- k_response_total,
      mul_bits_remaining <- k_mul_bits_remaining,
      pending_mul_result <- k_pending_mul_result,
      mul_tx_bubble <- k_mul_tx_bubble, fault <- k_fault, done <- k_done,
      fed <- k_fed, got <- k_got, case <- k_case, phase <- k_phase,
      todo <- k_todo, answer <- k_answer, seen <- k_seen,
      observations <- k_observations, receipt <- k_receipt, edited <- k_edited,
      verdict <- k_verdict
coreVars == <<k_state, k_byte_index, k_saved_byte, k_out_byte, k_out_valid, k_fault_reg, k_done_reg,
          k_a_shift, k_accumulator, k_command, k_incoming, k_outgoing,
          k_responses_acked, k_response_total, k_mul_bits_remaining,
          k_pending_mul_result, k_mul_tx_bubble, k_fault, k_done, k_fed, k_got>>
driverVars == <<k_case, k_phase, k_todo, k_answer, k_seen, k_observations, k_receipt, k_edited,
          k_verdict>>
ASSUME Lsc1uAssumption == Kit!Lsc1uAssumption /\ Kit!CorpusAgrees

MCVars == <<machine, vars, bridgeVars, aluVars, coreVars, driverVars>>

-----------------------------------------------------------------------------
Machines == {"lsc1u", "kit", "alu", "m2", "bridge"}

MCInit ==
    /\ machine \in Machines
    /\ Init
    /\ BridgeInit
    /\ Alu!Init
    /\ Kit!KitInit

MCNext ==
    \/ /\ machine = "m2" /\ Next
       /\ UNCHANGED <<machine, bridgeVars, aluVars, coreVars, driverVars>>
    \/ /\ machine = "bridge" /\ BridgeNext
       /\ UNCHANGED <<machine, vars, aluVars, coreVars, driverVars>>
    \/ /\ machine = "alu" /\ Alu!Next
       /\ UNCHANGED <<machine, vars, bridgeVars, coreVars, driverVars>>
    \/ /\ machine = "lsc1u" /\ Kit!Next
       /\ UNCHANGED <<machine, vars, bridgeVars, aluVars, driverVars>>
    \/ /\ machine = "kit" /\ Kit!KitNext
       /\ UNCHANGED <<machine, vars, bridgeVars, aluVars>>

MCSpec == /\ MCInit /\ [][MCNext]_MCVars
          /\ WF_<<coreVars, driverVars>>(machine = "kit" /\ Kit!KitNext)
-----------------------------------------------------------------------------
(* Properties of the instances, by the names of their modules *)

\* Every command of the stream ALU completes with the reference model's bytes,
\* beats and product, and done marks exactly its completion.
CommandsAreExact == Alu!CommandsAreExact

\* The RTL of LSC-1u and the bring-up kit's pin model are the same on the pins, DONE
\* comes with the oracle's answer, the kit passes, and only its own receipt validates.
BringupIsSound == Kit!BringupIsSound

\* What a core holds out it holds until it is taken: a response byte of the
\* stream ALU and of LSC-1u, the order of the bridge's echoes, a written cell of
\* the controller; and so no wait of the bring-up kit is without end.
HandshakesHold ==
    /\ [][Alu!StallStep /\ Kit!OfferStep /\ WrittenStep /\ EchoStep]_MCVars
    /\ machine = "kit" ~> k_phase = "checked"
=============================================================================
