------------------------- MODULE MCImplementations --------------------------
(*****************************************************************************)
(* The two other implementations of the endpoint: the clocked RTL frontend   *)
(* and the byte-level executor of the simulation. They do not interact; Init *)
(* picks the one that runs and the other rests in its initial state, where   *)
(* it satisfies its own properties, so that one run checks the properties of *)
(* both.                                                                     *)
(*****************************************************************************)
EXTENDS PacketFrontend, TLC

VARIABLE machine   \* the one that runs; the others are at rest
VARIABLES x_state, x_profile, x_committed, x_state_valid, x_retire_seq, x_last_status,
          x_last_fault, x_staged, x_rx, x_expected, x_tx, x_left, x_done

-----------------------------------------------------------------------------
(* The frontend: GF(8) and four indices; for each arm of the decode ladder and
   each datapath state, requests that pass it and requests that stop there. *)
X  == {1}        \* the generator g
X2 == {2}        \* g^2
XInv == {0, 2}   \* g^-1: x * (x^2 + 1) = 1

MCDigests == {<<One, One>>, <<X, One>>}

\* A lossy checksum: different results do collide.
MCCrc(payload) == (payload.next_pc + 2 * payload.next_fp + Len(payload.writes)) % 3

Base(opcode, txn, pc, fp) ==
    [opcode |-> opcode, txn_id |-> txn, pc |-> pc, fp |-> fp,
     profile |-> INTERPRETER_COMPAT,
     offsets |-> <<0, 1, 2>>, cells |-> <<ABSENT, ABSENT, ABSENT>>,
     constant |-> One, base |-> 0, taken |-> FALSE, dest_pc |-> 0,
     dest_fp |-> 0, proposed_inverse |-> ABSENT, message_offsets |-> <<0>>,
     cv_offset |-> 0, out_offset |-> 2, metadata_valid |-> TRUE]

Shapes(txn, pc, fp) ==
    LET B(opcode) == Base(opcode, txn, pc, fp) IN
    { [B("SET_CONSTANT") EXCEPT !.offsets = <<0>>, !.cells = <<c>>] :
          c \in {ABSENT, Present(X)} }
    \cup
    { [B("XOR") EXCEPT !.cells = c] :
          c \in {<<ABSENT, Present(X), Present(One)>>, <<Present(X), Present(X), Present(X)>>} }
    \cup
    { [B("MUL_NATIVE") EXCEPT !.cells = <<Present(X), ABSENT, c>>, !.proposed_inverse = i] :
          c \in {ABSENT, Present(X2)}, i \in {Present(XInv), Present(One)} }
    \cup
    { [B("DEREF_CELL") EXCEPT !.base = 1, !.cells = <<Present(X), ABSENT, c>>] :
          c \in {ABSENT, Present(One)} }
    \cup
    { [B("DEREF_PC") EXCEPT !.base = 1, !.cells = <<Present(p), t, ABSENT>>] :
          p \in {X, One}, t \in {ABSENT, Present(X2)} }
    \cup
    { [B("DEREF_FP") EXCEPT !.base = 0, !.cells = <<Present(One), ABSENT, ABSENT>>] }
    \cup
    { [B("JUMP") EXCEPT !.cells = <<Present(X), Present(field_encode(d[1])), Present(d[3])>>,
          !.taken = TRUE, !.dest_pc = d[1], !.dest_fp = d[2],
          !.proposed_inverse = Present(XInv)] :
          d \in {<<1, 1, X>>, <<3, 0, X>>} }
    \cup
    { B("JUMP") }
    \cup
    { [B("BLAKE3_REQUEST") EXCEPT !.cells = <<Present(One), Present(One), ABSENT, ABSENT, o>>] :
          o \in {ABSENT, Present(X)} }

\* One request for each fault found at decode.
Refused(txn) ==
    LET B(opcode) == Base(opcode, txn, 0, 0) IN
    { [B("SET_CONSTANT") EXCEPT !.offsets = <<U32_MAX + 1>>, !.cells = <<ABSENT>>],
      [B("XOR") EXCEPT !.offsets = <<0, 0, 1>>, !.cells = <<ABSENT, Present(X), ABSENT>>],
      [B("MUL_NATIVE") EXCEPT !.cells = <<Present(Zero), ABSENT, Present(One)>>],
      [B("MUL_NATIVE") EXCEPT !.cells = <<Present(X), ABSENT, Present(One)>>],
      [B("DEREF_CELL") EXCEPT !.base = INDEX_LIMIT, !.cells = <<Present(X), ABSENT, ABSENT>>],
      [B("DEREF_CELL") EXCEPT !.cells = <<Present(One), Present(X), Present(One)>>],
      [B("JUMP") EXCEPT !.taken = TRUE],
      [B("JUMP") EXCEPT !.dest_pc = 1],
      [B("JUMP") EXCEPT !.proposed_inverse = Present(One)],
      [B("JUMP") EXCEPT !.cells = <<Present(X), Present(One), Present(One)>>, !.taken = TRUE],
      [B("JUMP") EXCEPT !.cells = <<Present(X), Present(One), Present(One)>>, !.taken = TRUE,
                        !.proposed_inverse = Present(One)],
      [B("JUMP") EXCEPT !.cells = <<Present(X), Present(One), Present(One)>>, !.taken = TRUE,
                        !.dest_fp = INDEX_LIMIT, !.proposed_inverse = Present(XInv)],
      [B("BLAKE3_REQUEST") EXCEPT !.cells = <<ABSENT, ABSENT, ABSENT, ABSENT, ABSENT>>,
                                  !.metadata_valid = FALSE],
      [B("BLAKE3_REQUEST") EXCEPT !.cells = <<ABSENT, ABSENT, ABSENT, ABSENT, ABSENT>>,
                                  !.out_offset = U32_MAX],
      [B("BLAKE3_REQUEST") EXCEPT !.cells = <<ABSENT, Present(One), ABSENT, ABSENT, ABSENT>>],
      [B("SET_CONSTANT") EXCEPT !.offsets = <<0>>, !.cells = <<ABSENT>>, !.pc = INDEX_LIMIT] }

MCFrontendRequests ==
    Shapes(1, 0, 0)
    \cup { request \in Shapes(1, 1, 0) : request.opcode \in {"SET_CONSTANT", "BLAKE3_REQUEST"} }
    \cup { request \in Shapes(1, 1, 1) : request.opcode \in {"JUMP", "DEREF_FP", "DEREF_PC"} }
    \cup { request \in Shapes(1, 2, 0) : request.opcode = "DEREF_PC" }
    \cup { request \in Shapes(1, 3, 0) : request.opcode \in {"SET_CONSTANT", "BLAKE3_REQUEST"} }
    \cup Refused(1)
    \cup { [Base("SET_CONSTANT", 2, 0, 0) EXCEPT !.offsets = <<0>>, !.cells = <<ABSENT>>,
              !.profile = p] : p \in Profile }

-----------------------------------------------------------------------------
(* The executor, over the same field and indices: requests of the three
   instructions that reach every guard and every fault. *)
ExecutorShape(opcode, offsets, cells, inverse) ==
    [opcode |-> opcode, offsets |-> offsets, cells |-> cells, constant |-> {0},
     proposed_inverse |-> inverse]

\* Stores; forward, back-solved, aliased and conflicting XOR and MUL.
ExecutorShapes ==
    { ExecutorShape("SET_CONSTANT", <<o>>, <<c>>, ABSENT) : o \in {0, U32_MAX}, c \in {ABSENT, Present(X)} }
    \cup { ExecutorShape("XOR", t[1], t[2], ABSENT) : t \in
             {<< <<0, 1, 2>>, <<ABSENT, Present(X), Present(X)>> >>,
              << <<0, 0, 1>>, <<Present(X), ABSENT, ABSENT>> >>,
              << <<0, 0, 1>>, <<Present(X), Present(X), Present(X)>> >>} }
    \cup { ExecutorShape("MUL_NATIVE", <<0, 1, 2>>, t[1], t[2]) : t \in
             {<< <<Present(X), Present(X), ABSENT>>, ABSENT >>,
              << <<Present(X), ABSENT, Present({0})>>, Present(XInv) >>,
              << <<Present(X), ABSENT, Present({0})>>, Present(X) >>,
              << <<ABSENT, Present({}), Present(X)>>, ABSENT >>} }

MCExecutorRequests ==
    { shape @@ [txn_id |-> at[1], pc |-> at[2], fp |-> at[3], profile |-> at[4]] :
        shape \in ExecutorShapes,
        at \in {<<1, 0, 0, "INTERPRETER_COMPAT">>, <<1, 1, 0, "INTERPRETER_COMPAT">>,
                <<1, 0, 1, "INTERPRETER_COMPAT">>, <<1, 3, 0, "INTERPRETER_COMPAT">>,
                <<1, INDEX_LIMIT, 0, "INTERPRETER_COMPAT">>,
                <<2, 0, 0, "INTERPRETER_COMPAT">>, <<1, 0, 0, "FORWARD_ONLY">>} }

-----------------------------------------------------------------------------

Executor == INSTANCE PacketExecutor WITH
      Requests <- MCExecutorRequests, HeaderBytes <- 2, FrameCrcBytes <- 1,
      MaxPayload <- 1, ResponseBytes <- 2, state <- x_state, profile <- x_profile,
      committed <- x_committed, state_valid <- x_state_valid, retire_seq <- x_retire_seq,
      last_status <- x_last_status, last_fault <- x_last_fault, staged <- x_staged,
      rx <- x_rx, expected <- x_expected, tx <- x_tx, left <- x_left, done <- x_done
executorVars == <<x_state, x_profile, x_committed, x_state_valid, x_retire_seq,
          x_last_status, x_last_fault, x_staged, x_rx, x_expected, x_tx, x_left, x_done>>
ASSUME ExecutorAssumption == Executor!FramingAssumption

MCVars == <<machine, vars, executorVars>>

-----------------------------------------------------------------------------
Machines == {"frontend", "executor"}

MCInit ==
    /\ machine \in Machines
    /\ Init
    /\ Executor!Init

MCNext ==
    \/ /\ machine = "frontend" /\ Next
       /\ UNCHANGED <<machine, executorVars>>
    \/ /\ machine = "executor" /\ Executor!Next
       /\ UNCHANGED <<machine, vars>>

MCSpec == /\ MCInit /\ [][MCNext]_MCVars
          /\ WF_vars(machine = "frontend" /\ Working /\ Edge)
-----------------------------------------------------------------------------
(* Properties of the executor, by the names of its module *)

\* Two independently written endpoints agree: every byte-level behaviour of the
\* executor is, frame by frame, one of Lsc1Endpoint: the same guards in the same
\* order, the same products, back-solves, aliases and conflicts, the same result
\* and its CRC, the same effect of RETIRE, ABORT and reset (sim/test_packet_
\* executor_model.py compares the two on samples).
ImplementsEndpoint ==
    /\ Executor!Reference!Init
    /\ [][machine = "executor" => Executor!Reference!Next]_(Executor!Reference!vars)

\* Its receive buffer stays within the bound _accept asserts, and DONE is high
\* exactly while a response that announces it is due.
ReceiverIsBounded == Executor!ReceiverIsBounded
=============================================================================
