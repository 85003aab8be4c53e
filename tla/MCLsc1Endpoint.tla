--------------------------- MODULE MCLsc1Endpoint ---------------------------
(***************************************************************************)
(* Lsc1Endpoint over GF(4) with two indices and addresses 0..4: one or     *)
(* more requests for every outcome of the guards and of the transitions.   *)
(***************************************************************************)
EXTENDS ServiceHistory, FiniteSets

X == {1}        \* the generator g

MCDigests == {<<One, One>>, <<X, One>>}

\* A lossy checksum: different results do collide.
MCCrc(payload) == (payload.next_pc + 2 * payload.next_fp + Len(payload.writes)) % 3
MCCrcWords == 0..2

Base(opcode, txn, pc, fp, p) ==
    [opcode |-> opcode, txn_id |-> txn, pc |-> pc, fp |-> fp, profile |-> p,
     offsets |-> <<0, 0, 1>>, cells |-> <<ABSENT, ABSENT, ABSENT>>,
     constant |-> One, base |-> 0, taken |-> FALSE, dest_pc |-> 0,
     dest_fp |-> 0, proposed_inverse |-> ABSENT, message_offsets |-> <<0>>,
     cv_offset |-> 0, out_offset |-> 2, metadata_valid |-> TRUE]

\* The shapes sent at every (pc, fp): stores, back-solves, a deferred
\* equality, a jump out and a service, with the faults each can raise.
Shapes(txn, pc, fp, p) ==
    LET B(opcode) == Base(opcode, txn, pc, fp, p) IN
    { [B("SET_CONSTANT") EXCEPT !.offsets = <<o>>, !.cells = <<c>>] :
          o \in {0, U32_MAX}, c \in {ABSENT, Present(X)} }
    \cup
    { [B("XOR") EXCEPT !.cells = <<a, a, Present(X)>>] : a \in {Present(One), Present(X)} }
    \cup
    { [B("MUL_NATIVE") EXCEPT !.offsets = <<0, 1, 2>>,
          !.cells = <<ABSENT, Present(X), Present(One)>>, !.proposed_inverse = i] :
          i \in {ABSENT, Present({0, 1})} }
    \cup
    { [B("DEREF_CELL") EXCEPT !.offsets = <<0, 1, 2>>,
          !.cells = <<Present(One), ABSENT, ABSENT>>] }
    \cup
    { [B("JUMP") EXCEPT !.offsets = <<0, 1, 2>>,
          !.cells = <<Present(One), Present(field_encode(d[1])),
                      Present(field_encode(d[2]))>>,
          !.taken = TRUE, !.dest_pc = d[1], !.dest_fp = d[2],
          !.proposed_inverse = Present(One)] :
          d \in {<<1, 0>>, <<0, INDEX_LIMIT>>} }
    \cup
    { [B("BLAKE3_REQUEST") EXCEPT !.cells = <<Present(One), Present(One), ABSENT, o, ABSENT>>,
          !.metadata_valid = m] :
          o \in {ABSENT, Present(X)}, m \in BOOLEAN }

MCInstructionRequests ==
    UNION { Shapes(txn, pc, fp, p) :
              txn \in TxnIds, pc \in 0..INDEX_LIMIT, fp \in 0..1, p \in Profile }
=============================================================================
