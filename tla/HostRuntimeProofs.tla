------------------------- MODULE HostRuntimeProofs --------------------------
(***************************************************************************)
(* Proofs about Lsc1Endpoint, for every field, index width, request set,   *)
(* checksum and bound, and on them about HostRuntime, for every program,   *)
(* memory, field, checksum and service, over a lane that loses or damages  *)
(* any frame and a board that may be reset at any moment.                  *)
(***************************************************************************)
EXTENDS HostRuntime, ServiceHistory, Lsc1TransitionProofs

-----------------------------------------------------------------------------
(* The endpoint alone                                                      *)

\* What the rest of the proofs needs of a transition rule: it faults, suspends
\* or decides, and what it decides stays in the index space but for pc + 1.
Outcome(outcome) ==
    /\ outcome.status \in FaultStatus \cup {"OK", "SERVICE_REQUIRED"}
    /\ outcome.status \notin FaultStatus =>
          /\ outcome.next_pc \in 0..INDEX_LIMIT
          /\ outcome.next_fp \in 0..(INDEX_LIMIT - 1)

\* Decided builds an outcome out of a state in range.
LEMMA DecidedOutcome ==
  ASSUME NEW next_pc \in 0..INDEX_LIMIT, NEW next_fp \in 0..(INDEX_LIMIT - 1),
         NEW writes, NEW equalities, NEW accesses
  PROVE  Outcome(Decided(next_pc, next_fp, writes, equalities, accesses))
  BY DEF Outcome, Decided, FaultStatus

\* Fault builds an outcome out of a fault status.
LEMMA FaultOutcome ==
  ASSUME NEW status \in FaultStatus
  PROVE  Outcome(Fault(status))
  BY DEF Outcome, Fault

InRange(request) ==
    /\ request.pc \in 0..(INDEX_LIMIT - 1)
    /\ request.fp \in 0..(INDEX_LIMIT - 1)

\* The pc after an instruction stays within one of the index space.
LEMMA NextPc ==
  ASSUME NEW request, InRange(request)
  PROVE  request.pc + 1 \in 0..INDEX_LIMIT
  BY U32Assumption DEF InRange

\* The outcomes every rule below is built from.
LEMMA RuleOutcomes ==
  ASSUME NEW request, InRange(request)
  PROVE  /\ \A w, d, a : Outcome(Decided(request.pc + 1, request.fp, w, d, a))
         /\ \A status \in FaultStatus : Outcome(Fault(status))
<1>1. request.pc + 1 \in 0..INDEX_LIMIT /\ request.fp \in 0..(INDEX_LIMIT - 1)
  BY NextPc DEF InRange
<1> QED
  BY <1>1, DecidedOutcome, FaultOutcome

\* The statuses the rules answer are fault statuses.
LEMMA RuleFaults ==
  {"U32_OVERFLOW", "ALIAS_INCONSISTENT", "UNSUPPORTED_IN_PROFILE",
   "MUL_BACKSOLVE_ZERO", "BAD_INVERSE", "WRITE_CONFLICT", "DEREF_MISMATCH",
   "INDEX_RANGE", "BAD_POINTER", "BAD_BRANCH_PROPOSAL", "BAD_SERVICE"}
     \subseteq FaultStatus
  BY DEF FaultStatus

\* XOR and MUL_NATIVE, back-solves included, stay in range (_execute_binary).
LEMMA BinaryOutcome ==
  ASSUME NEW request, InRange(request)
  PROVE  Outcome(execute_binary(request))
  BY RuleOutcomes, RuleFaults, Zenon DEF execute_binary

\* SET_CONSTANT stays in range (_execute_set).
LEMMA SetOutcome ==
  ASSUME NEW request, InRange(request)
  PROVE  Outcome(execute_set(request))
  BY RuleOutcomes, RuleFaults, Zenon DEF execute_set

\* The three DEREF opcodes stay in range (_execute_deref).
LEMMA DerefOutcome ==
  ASSUME NEW request, InRange(request)
  PROVE  Outcome(execute_deref(request))
<1>1. \A frame, target, local, addresses :
        Outcome(DerefCell(request, frame, target, local, addresses))
  BY RuleOutcomes, RuleFaults, Zenon DEF DerefCell
<1> QED
  BY <1>1, RuleOutcomes, RuleFaults, Zenon DEF execute_deref

\* A taken jump commits the verified targets, which _verify_index bounds.
LEMMA JumpOutcome ==
  ASSUME NEW request, InRange(request),
         request.dest_pc \in Nat, request.dest_fp \in Nat
  PROVE  Outcome(execute_jump(request))
<1>1. \A d, f : TargetFault(request, d, f) = "OK" \/ TargetFault(request, d, f) \in FaultStatus
  BY RuleFaults, Zenon DEF TargetFault
<1>2. ASSUME NEW d, NEW f, TargetFault(request, d, f) = "OK"
      PROVE  \A w, e, a : Outcome(Decided(request.dest_pc, request.dest_fp, w, e, a))
  <2>1. ~(request.dest_pc >= INDEX_LIMIT) /\ ~(request.dest_fp >= INDEX_LIMIT)
    BY <1>2, Zenon DEF TargetFault
  <2>2. /\ request.dest_pc \in 0..INDEX_LIMIT
        /\ request.dest_fp \in 0..(INDEX_LIMIT - 1)
    BY <2>1, U32Assumption
  <2> QED
    BY <2>2, DecidedOutcome
<1> QED
  BY <1>1, <1>2, RuleOutcomes, RuleFaults, Zenon DEF execute_jump

\* BLAKE3_REQUEST suspends with a successor in range (_execute_blake3).
LEMMA Blake3Outcome ==
  ASSUME NEW request, InRange(request)
  PROVE  Outcome(execute_blake3(request))
<1>1. ASSUME NEW accesses, NEW frame, NEW operands
      PROVE  Outcome([status |-> "SERVICE_REQUIRED", next_pc |-> request.pc + 1,
                      next_fp |-> request.fp, accesses |-> accesses,
                      frame |-> frame, operands |-> operands])
  BY NextPc DEF Outcome, InRange
<1> QED
  BY <1>1, RuleOutcomes, RuleFaults, Zenon DEF execute_blake3

\* Every transition rule stays in range: the committed state a decided
\* instruction leads to is in the index space, or its pc just past the end.
LEMMA ExecuteOutcome ==
  ASSUME NEW request, IsRequest(request), InRange(request)
  PROVE  Outcome(execute(request))
<1>1. request.opcode \in INSTRUCTION_OPCODES
  BY DEF IsRequest
<1>2. request.opcode = "JUMP" => request.dest_pc \in Nat /\ request.dest_fp \in Nat
  BY DEF IsRequest
<1>3. CASE request.opcode \in {"XOR", "MUL_NATIVE"}
  BY <1>3, BinaryOutcome DEF execute
<1>4. CASE request.opcode = "SET_CONSTANT"
  BY <1>4, SetOutcome DEF execute
<1>5. CASE request.opcode \in {"DEREF_CELL", "DEREF_PC", "DEREF_FP"}
  BY <1>5, DerefOutcome DEF execute
<1>6. CASE request.opcode = "JUMP"
  BY <1>2, <1>6, JumpOutcome DEF execute
<1>7. CASE request.opcode = "BLAKE3_REQUEST"
  BY <1>7, Blake3Outcome DEF execute
<1> QED
  BY <1>1, <1>3, <1>4, <1>5, <1>6, <1>7 DEF INSTRUCTION_OPCODES, ScalarOpcodes

-----------------------------------------------------------------------------
(* The endpoint's inductive invariant                                      *)

\* A staged transaction is a record with exactly the fields of Stage.
IsTxn(t) ==
    t = [txn_id |-> t.txn_id, profile |-> t.profile, pc |-> t.pc, fp |-> t.fp,
         next_pc |-> t.next_pc, next_fp |-> t.next_fp, writes |-> t.writes,
         deferred |-> t.deferred, accesses |-> t.accesses,
         service_id |-> t.service_id, frame |-> t.frame,
         result_crc |-> t.result_crc]

\* What StagedContinuesCommitted needs to survive a retirement and its
\* successor: the staged transition leads from and to states in range.
StagedInIndexSpace ==
    state # "idle" =>
        /\ IsTxn(staged)
        /\ staged.pc \in 0..(INDEX_LIMIT - 1)
        /\ staged.fp \in 0..(INDEX_LIMIT - 1)
        /\ staged.next_pc \in 0..INDEX_LIMIT
        /\ staged.next_fp \in 0..(INDEX_LIMIT - 1)

\* The exchange outstanding carries the newest id.
ServiceIdIsNewest ==
    state = "service_pending" =>
        staged.service_id = service_seq /\ service_seq > 0

IInv ==
    /\ TypeOK
    /\ StagedContinuesCommitted
    /\ StagedInIndexSpace
    /\ CommittedInIndexSpace
    /\ ServiceIdIsNewest
    /\ OfferedResultRetires

\* Reset establishes the invariant (_reset).
LEMMA InitInv == Init => IInv
<1> SUFFICES ASSUME Init PROVE IInv
  OBVIOUS
<1>0. state_valid \in BOOLEAN
  BY Zenon DEF Init
<1>1. TypeOK
  BY <1>0, BoundAssumption DEF Init, TypeOK, TxnState, Profile, ScalarState, Status
<1>2. CommittedInIndexSpace
  BY U32Assumption DEF Init, CommittedInIndexSpace
<1>3. /\ StagedContinuesCommitted
      /\ StagedInIndexSpace
      /\ ServiceIdIsNewest
      /\ OfferedResultRetires
  BY DEF Init, StagedContinuesCommitted, StagedInIndexSpace,
         ServiceIdIsNewest, OfferedResultRetires
<1> QED
  BY <1>1, <1>2, <1>3 DEF IInv

\* A rejected frame changes only the status registers and the response.
LEMMA RejectInv ==
  ASSUME IInv, NEW status \in FaultStatus, NEW id, RejectFrame(status, id)
  PROVE  IInv'
<1>1. /\ tx' = [status |-> status, txn_id |-> id, payload |-> <<>>]
      /\ tx'.status # "OK"
      /\ UNCHANGED <<state, profile, committed, state_valid, retire_seq, service_seq, staged>>
  BY DEF RejectFrame, Emit, Response, FaultStatus, commitVars
<1>2. TypeOK'
  BY <1>1 DEF IInv, TypeOK, RejectFrame, Emit, Response, Status
<1>3. OfferedResultRetires'
  BY <1>1 DEF OfferedResultRetires, IsResult
<1> QED
  BY <1>1, <1>2, <1>3
  DEF IInv, StagedContinuesCommitted, StagedInIndexSpace, CommittedInIndexSpace,
      ServiceIdIsNewest, IsTxn

\* Offering a transition in range that continues the committed state.
LEMMA FinishInv ==
  ASSUME IInv, NEW t, IsTxn(t), FinishTransaction(t),
         UNCHANGED <<profile, commitVars, service_seq>>,
         state_valid => t.pc = committed.pc /\ t.fp = committed.fp,
         t.profile = profile,
         t.pc \in 0..(INDEX_LIMIT - 1), t.fp \in 0..(INDEX_LIMIT - 1),
         t.next_pc \in 0..INDEX_LIMIT, t.next_fp \in 0..(INDEX_LIMIT - 1)
  PROVE  IInv'
<1> DEFINE payload == result_payload(t)
<1>1. staged' = [txn_id |-> t.txn_id, profile |-> t.profile, pc |-> t.pc,
                 fp |-> t.fp, next_pc |-> t.next_pc, next_fp |-> t.next_fp,
                 writes |-> t.writes, deferred |-> t.deferred,
                 accesses |-> t.accesses, service_id |-> t.service_id,
                 frame |-> t.frame, result_crc |-> Crc(payload)]
  BY DEF FinishTransaction, IsTxn
<1>2. /\ state' = "result_pending"
      /\ tx' = [status |-> "OK", txn_id |-> t.txn_id, payload |-> payload]
      /\ last_status' = "OK"
      /\ last_fault' = last_fault
      /\ UNCHANGED <<profile, committed, state_valid, retire_seq, service_seq>>
  BY DEF FinishTransaction, Emit, Response, FaultStatus, commitVars
<1>3. TypeOK'
  BY <1>2 DEF IInv, TypeOK, TxnState, Status
<1>4. StagedContinuesCommitted'
  BY <1>1, <1>2 DEF StagedContinuesCommitted
<1>5. StagedInIndexSpace' /\ ServiceIdIsNewest'
  BY <1>1, <1>2 DEF StagedInIndexSpace, IsTxn, ServiceIdIsNewest
<1>6. CommittedInIndexSpace'
  BY <1>2 DEF IInv, CommittedInIndexSpace
<1>7. OfferedResultRetires'
  BY <1>1, <1>2 DEF OfferedResultRetires, RetireMatches, result_payload
<1> QED
  BY <1>3, <1>4, <1>5, <1>6, <1>7 DEF IInv

\* Abandoning the staged transition with committed state as it is.
LEMMA DiscardInv ==
  ASSUME IInv, Discard, NEW status \in FaultStatus, NEW id,
         Emit(status, id, <<>>),
         UNCHANGED <<profile, commitVars, service_seq>>
  PROVE  IInv'
<1>1. /\ state' = "idle" /\ staged' = None
      /\ tx' = [status |-> status, txn_id |-> id, payload |-> <<>>]
      /\ tx'.status # "OK"
      /\ last_status' = status /\ last_fault' = status
      /\ UNCHANGED <<profile, committed, state_valid, retire_seq, service_seq>>
  BY DEF Discard, Emit, Response, FaultStatus, commitVars
<1>2. TypeOK'
  BY <1>1 DEF IInv, TypeOK, TxnState, Status
<1>3. OfferedResultRetires'
  BY <1>1 DEF OfferedResultRetires, IsResult
<1> QED
  BY <1>1, <1>2, <1>3
  DEF IInv, StagedContinuesCommitted, StagedInIndexSpace, CommittedInIndexSpace,
      ServiceIdIsNewest

\* What the guards of _handle_instruction establish.
LEMMA GuardsPassed ==
  ASSUME IInv, NEW request, IsRequest(request), GuardFault(request) = "OK"
  PROVE  /\ state = "idle"
         /\ request.profile = profile
         /\ state_valid => request.pc = committed.pc /\ request.fp = committed.fp
         /\ InRange(request)
         /\ request.opcode = "BLAKE3_REQUEST" => service_seq < ServiceSeqMax
<1>1. request.pc \in Nat /\ request.fp \in Nat
  BY DEF IsRequest
<1>2. service_seq \in Nat
  BY DEF IInv, TypeOK
<1>3. /\ state = "idle"
      /\ request.profile = profile
      /\ state_valid => <<request.pc, request.fp>> = <<committed.pc, committed.fp>>
      /\ ~(request.pc >= INDEX_LIMIT) /\ ~(request.fp >= INDEX_LIMIT)
      /\ ~(request.opcode = "BLAKE3_REQUEST" /\ service_seq >= ServiceSeqMax)
  BY Zenon DEF GuardFault
<1>4. state_valid => request.pc = committed.pc /\ request.fp = committed.fp
  BY <1>3
<1> QED
  BY <1>1, <1>2, <1>3, <1>4, U32Assumption, BoundAssumption DEF InRange

\* The guards of _handle_instruction answer fault statuses only.
LEMMA GuardFaults ==
  ASSUME NEW request, GuardFault(request) # "OK"
  PROVE  GuardFault(request) \in FaultStatus
  BY Zenon DEF GuardFault, FaultStatus

\* Only BLAKE3 suspends.
LEMMA SuspendsIsBlake3 ==
  ASSUME NEW request, IsRequest(request),
         execute(request).status = "SERVICE_REQUIRED"
  PROVE  request.opcode = "BLAKE3_REQUEST"
<1> DEFINE Plain(outcome) == outcome.status # "SERVICE_REQUIRED"
<1>1. \A p, f, w, d, a : Plain(Decided(p, f, w, d, a))
  BY DEF Decided
<1>2. \A status \in FaultStatus : Plain(Fault(status))
  BY DEF Fault, FaultStatus
<1>3. Plain(execute_binary(request))
  BY <1>1, <1>2, RuleFaults, Zenon DEF execute_binary
<1>4. Plain(execute_set(request))
  BY <1>1, <1>2, RuleFaults, Zenon DEF execute_set
<1>5. Plain(execute_deref(request))
  <2>1. \A frame, target, local, addresses :
          Plain(DerefCell(request, frame, target, local, addresses))
    BY <1>1, <1>2, RuleFaults, Zenon DEF DerefCell
  <2> QED
    BY <2>1, <1>1, <1>2, RuleFaults, Zenon DEF execute_deref
<1>6. Plain(execute_jump(request))
  <2>1. \A d, f : TargetFault(request, d, f) = "OK"
                 \/ TargetFault(request, d, f) \in FaultStatus
    BY RuleFaults, Zenon DEF TargetFault
  <2> QED
    BY <2>1, <1>1, <1>2, RuleFaults, Zenon DEF execute_jump
<1>7. request.opcode \in INSTRUCTION_OPCODES
  BY DEF IsRequest
<1> HIDE DEF Plain
<1>8. ~Plain(execute(request))
  BY DEF Plain
<1> QED
  BY <1>3, <1>4, <1>5, <1>6, <1>7, <1>8
  DEF execute, INSTRUCTION_OPCODES, ScalarOpcodes

\* A decided instruction stages a transition from the committed state.
LEMMA DecideInv ==
  ASSUME IInv, NEW request, IsRequest(request), DecideInstruction(request)
  PROVE  IInv'
<1> DEFINE outcome == execute(request)
           t == [txn_id |-> request.txn_id, profile |-> request.profile,
                 pc |-> request.pc, fp |-> request.fp,
                 next_pc |-> outcome.next_pc, next_fp |-> outcome.next_fp,
                 writes |-> outcome.writes, deferred |-> outcome.deferred,
                 accesses |-> outcome.accesses, service_id |-> 0,
                 frame |-> <<>>, result_crc |-> None]
<1>1. /\ GuardFault(request) = "OK"
      /\ outcome.status = "OK"
      /\ FinishTransaction(t)
      /\ UNCHANGED <<profile, commitVars, service_seq>>
  BY Zenon DEF DecideInstruction
<1>2. /\ InRange(request)
      /\ request.profile = profile
      /\ state_valid => request.pc = committed.pc /\ request.fp = committed.fp
  BY <1>1, GuardsPassed
<1>3. outcome.next_pc \in 0..INDEX_LIMIT /\ outcome.next_fp \in 0..(INDEX_LIMIT - 1)
  BY <1>1, <1>2, ExecuteOutcome DEF Outcome, FaultStatus
<1>4. IsTxn(t)
  BY DEF IsTxn
<1> QED
  BY <1>1, <1>2, <1>3, <1>4, FinishInv DEF InRange

\* A suspended instruction draws the newest service id.
LEMMA SuspendInv ==
  ASSUME IInv, NEW request, IsRequest(request), SuspendInstruction(request)
  PROVE  IInv'
<1> DEFINE outcome == execute(request)
<1>1. /\ GuardFault(request) = "OK"
      /\ outcome.status = "SERVICE_REQUIRED"
      /\ staged' = [txn_id |-> request.txn_id, profile |-> request.profile,
                    pc |-> request.pc, fp |-> request.fp,
                    next_pc |-> outcome.next_pc, next_fp |-> outcome.next_fp,
                    writes |-> <<>>, deferred |-> <<>>,
                    accesses |-> outcome.accesses,
                    service_id |-> service_seq + 1,
                    frame |-> outcome.frame, result_crc |-> None]
      /\ Emit("SERVICE_REQUIRED", request.txn_id,
              [service_id |-> service_seq + 1, operands |-> outcome.operands])
      /\ state' = "service_pending"
      /\ service_seq' = service_seq + 1
      /\ UNCHANGED <<profile, commitVars>>
  BY Zenon DEF SuspendInstruction
<1>2. /\ InRange(request)
      /\ request.profile = profile
      /\ state_valid => request.pc = committed.pc /\ request.fp = committed.fp
      /\ service_seq < ServiceSeqMax
  BY <1>1, GuardsPassed, SuspendsIsBlake3
<1>3. outcome.next_pc \in 0..INDEX_LIMIT /\ outcome.next_fp \in 0..(INDEX_LIMIT - 1)
  BY <1>1, <1>2, ExecuteOutcome DEF Outcome, FaultStatus
<1>4. /\ tx'.status = "SERVICE_REQUIRED"
      /\ last_status' = "SERVICE_REQUIRED"
      /\ last_fault' = last_fault
      /\ UNCHANGED <<profile, committed, state_valid, retire_seq>>
  BY <1>1 DEF Emit, Response, FaultStatus, commitVars
<1>5. TypeOK'
  BY <1>1, <1>2, <1>4, BoundAssumption DEF IInv, TypeOK, TxnState, Status
<1>6. StagedContinuesCommitted'
  BY <1>1, <1>2, <1>4 DEF StagedContinuesCommitted
<1>7. StagedInIndexSpace'
  BY <1>1, <1>2, <1>3 DEF StagedInIndexSpace, IsTxn, InRange
<1>8. CommittedInIndexSpace' /\ ServiceIdIsNewest' /\ OfferedResultRetires'
  BY <1>1, <1>4
  DEF IInv, TypeOK, CommittedInIndexSpace, ServiceIdIsNewest,
      OfferedResultRetires, IsResult
<1> QED
  BY <1>5, <1>6, <1>7, <1>8 DEF IInv

\* The suspended transaction with the digest's writes.
Filled(t, writes) == [t EXCEPT !.writes = writes, !.service_id = 0]

\* Folding in a digest keeps the shape and the scalar states of a transaction.
LEMMA ResumedTxn ==
  ASSUME NEW t, IsTxn(t), NEW writes,
         NEW u, u = Filled(t, writes)
  PROVE  /\ IsTxn(u)
         /\ u.pc = t.pc /\ u.fp = t.fp /\ u.profile = t.profile
         /\ u.next_pc = t.next_pc /\ u.next_fp = t.next_fp
         /\ u.txn_id = t.txn_id /\ u.writes = writes
         /\ u.deferred = t.deferred /\ u.accesses = t.accesses
<1> DEFINE filled == [t EXCEPT !.writes = writes]
<1>1. filled = [txn_id |-> t.txn_id, profile |-> t.profile, pc |-> t.pc,
                fp |-> t.fp, next_pc |-> t.next_pc, next_fp |-> t.next_fp,
                writes |-> writes, deferred |-> t.deferred,
                accesses |-> t.accesses, service_id |-> t.service_id,
                frame |-> t.frame, result_crc |-> t.result_crc]
  BY DEF IsTxn
<1>2. u = [filled EXCEPT !.service_id = 0]
  BY Zenon DEF Filled
<1> HIDE DEF filled
<1>3. [filled EXCEPT !.service_id = 0] =
        [txn_id |-> t.txn_id, profile |-> t.profile, pc |-> t.pc,
         fp |-> t.fp, next_pc |-> t.next_pc, next_fp |-> t.next_fp,
         writes |-> writes, deferred |-> t.deferred, accesses |-> t.accesses,
         service_id |-> 0, frame |-> t.frame, result_crc |-> t.result_crc]
  BY <1>1
<1> QED
  BY <1>2, <1>3 DEF IsTxn

\* A digest agrees with the outputs the frame holds, or conflicts with them.
LEMMA ResumedStatus ==
  ASSUME NEW frame, NEW accesses, NEW digest
  PROVE  resume_blake3(frame, accesses, digest).status \in {"OK", "WRITE_CONFLICT"}
<1>1. Fault("WRITE_CONFLICT").status = "WRITE_CONFLICT"
  BY DEF Fault
<1>2. \A w : [status |-> "OK", writes |-> w].status = "OK"
  OBVIOUS
<1> QED
  BY <1>1, <1>2, Zenon DEF resume_blake3

\* A digest completes the suspended transition or discards it.
LEMMA ServiceResponseInv ==
  ASSUME IInv, NEW id, NEW service_id, NEW digest,
         handle_service_response(id, service_id, digest)
  PROVE  IInv'
<1> DEFINE resumed == resume_blake3(staged.frame, staged.accesses, digest)
           t == [staged EXCEPT !.writes = resumed.writes, !.service_id = 0]
<1>1. /\ ServiceFault(id, service_id, TRUE) = "OK"
      /\ \/ resumed.status = "OK" /\ FinishTransaction(t)
         \/ /\ resumed.status # "OK"
            /\ Discard
            /\ Emit(resumed.status, id, <<>>)
      /\ UNCHANGED <<profile, commitVars, service_seq>>
  BY Zenon DEF handle_service_response
<1>2. state = "service_pending"
  BY <1>1, Zenon DEF ServiceFault
<1>3. CASE FinishTransaction(t)
  <2>1. IsTxn(staged)
    BY <1>2 DEF IInv, StagedInIndexSpace
  <2>2. t = Filled(staged, resumed.writes)
    BY Zenon DEF Filled
  <2> HIDE DEF t, resumed
  <2>3. /\ IsTxn(t)
        /\ t.pc = staged.pc /\ t.fp = staged.fp /\ t.profile = staged.profile
        /\ t.next_pc = staged.next_pc /\ t.next_fp = staged.next_fp
    BY <2>1, <2>2, ResumedTxn
  <2> QED
    BY <1>1, <1>2, <1>3, <2>3, FinishInv
    DEF IInv, StagedContinuesCommitted, StagedInIndexSpace
<1>4. CASE Discard /\ resumed.status # "OK" /\ Emit(resumed.status, id, <<>>)
  <2>1. resumed.status \in {"OK", "WRITE_CONFLICT"}
    BY ResumedStatus, Zenon
  <2>2. resumed.status \in FaultStatus
    BY <1>4, <2>1, RuleFaults
  <2> QED
    BY <1>1, <1>4, <2>2, DiscardInv
<1> QED
  BY <1>1, <1>3, <1>4

\* The only step that moves committed state moves it to the staged successor.
LEMMA RetireInv ==
  ASSUME IInv, NEW id, NEW result_crc, handle_retire(id, result_crc)
  PROVE  IInv'
<1>1. /\ state = "result_pending"
      /\ committed' = [pc |-> staged.next_pc, fp |-> staged.next_fp]
      /\ retire_seq' = retire_seq + 1 /\ retire_seq < RetireSeqMax
      /\ state' = "idle" /\ staged' = None
      /\ tx'.status = "RETIRED"
      /\ last_status' = "RETIRED" /\ last_fault' = last_fault
      /\ UNCHANGED <<profile, service_seq>>
  BY DEF handle_retire, Discard, Emit, Response, FaultStatus
<1>2. state_valid' \in BOOLEAN
  BY Zenon DEF handle_retire
<1>3. /\ staged.next_pc \in 0..INDEX_LIMIT
      /\ staged.next_fp \in 0..(INDEX_LIMIT - 1)
  BY <1>1 DEF IInv, StagedInIndexSpace
<1>4. TypeOK'
  BY <1>1, <1>2, <1>3, BoundAssumption, U32Assumption
  DEF IInv, TypeOK, TxnState, Status, ScalarState
<1>5. CommittedInIndexSpace'
  BY <1>1, <1>3 DEF CommittedInIndexSpace
<1> QED
  BY <1>1, <1>4, <1>5
  DEF IInv, StagedContinuesCommitted, StagedInIndexSpace,
      ServiceIdIsNewest, OfferedResultRetires, IsResult

\* NEGOTIATE changes the profile only with nothing staged.
LEMMA NegotiateInv ==
  ASSUME IInv, NEW proposed \in Profile, handle_negotiate(proposed)
  PROVE  IInv'
<1>1. state = "idle"
  BY Zenon DEF handle_negotiate, NegotiateFault
<1>2. /\ profile' = proposed
      /\ tx' = [status |-> "OK", txn_id |-> 0, payload |-> [profile |-> proposed]]
      /\ last_status' = "OK" /\ last_fault' = last_fault
      /\ UNCHANGED <<state, staged, committed, state_valid, retire_seq, service_seq>>
  BY DEF handle_negotiate, Emit, Response, FaultStatus, txnVars, commitVars
<1>3. ~IsResult(tx')
  BY <1>2 DEF IsResult
<1>4. TypeOK'
  BY <1>2 DEF IInv, TypeOK, Status
<1> QED
  BY <1>1, <1>2, <1>3, <1>4
  DEF IInv, StagedContinuesCommitted, StagedInIndexSpace,
      CommittedInIndexSpace, ServiceIdIsNewest, OfferedResultRetires

\* STATUS_QUERY and draining a response leave the transaction and the
\* committed state alone.
LEMMA QuietInv ==
  ASSUME IInv, handle_status_query \/ TakeResponse
  PROVE  IInv'
<1>1. UNCHANGED <<state, staged, profile, committed, state_valid, retire_seq, service_seq>>
  BY DEF handle_status_query, TakeResponse, txnVars, commitVars
<1>2. CASE handle_status_query
  <2>1. tx'.status = "INFO" /\ last_status' = "INFO" /\ last_fault' = last_fault
    BY <1>2 DEF handle_status_query, Emit, Response, FaultStatus
  <2>2. TypeOK'
    BY <1>1, <2>1 DEF IInv, TypeOK, Status
  <2> QED
    BY <1>1, <2>1, <2>2
    DEF IInv, StagedContinuesCommitted, StagedInIndexSpace, IsTxn,
        CommittedInIndexSpace, ServiceIdIsNewest,
        OfferedResultRetires, IsResult
<1>3. CASE TakeResponse
  <2>1. tx' = None /\ UNCHANGED <<last_status, last_fault>>
    BY <1>3 DEF TakeResponse
  <2> QED
    BY <1>1, <2>1
    DEF IInv, TypeOK, StagedContinuesCommitted, StagedInIndexSpace, IsTxn,
        CommittedInIndexSpace, ServiceIdIsNewest, OfferedResultRetires
<1> QED
  BY <1>2, <1>3

\* ABORT drops what is staged and keeps committed state (_abort).
LEMMA AbortInv ==
  ASSUME IInv, Abort
  PROVE  IInv'
  BY DEF Abort, commitVars, IInv, TypeOK, TxnState, FaultStatus, Status,
         StagedContinuesCommitted, StagedInIndexSpace, CommittedInIndexSpace,
         ServiceIdIsNewest, OfferedResultRetires

\* Reset at any moment re-establishes the invariant.
LEMMA ResetInv ==
  ASSUME Reset
  PROVE  IInv'
<1>1. state_valid' \in BOOLEAN
  BY Zenon DEF Reset
<1>2. TypeOK'
  BY <1>1, BoundAssumption DEF Reset, TypeOK, TxnState, Profile, ScalarState, Status
<1>3. CommittedInIndexSpace'
  BY U32Assumption DEF Reset, CommittedInIndexSpace
<1>4. /\ StagedContinuesCommitted' /\ StagedInIndexSpace'
      /\ ServiceIdIsNewest' /\ OfferedResultRetires'
  BY DEF Reset, StagedContinuesCommitted, StagedInIndexSpace,
         ServiceIdIsNewest, OfferedResultRetires
<1> QED
  BY <1>2, <1>3, <1>4 DEF IInv

\* Every frame the guards or the codec refuse is a RejectFrame of a fault.
LEMMA RejectionsInv ==
  ASSUME IInv,
         \/ \E status \in FrameFaults, prefix \in TxnIds \cup {0} :
               BadFrame(status, prefix)
         \/ \E version_ok \in BOOLEAN : RejectNegotiate(version_ok)
         \/ \E request \in InstructionRequests : RejectInstruction(request)
         \/ \E id \in TxnIds, service_id \in ServiceIds, kind_ok \in BOOLEAN :
               RejectServiceResponse(id, service_id, kind_ok)
         \/ \E id \in TxnIds : RejectRetire(id)
  PROVE  IInv' /\ \E status \in FaultStatus : \E id : RejectFrame(status, id)
<1>1. FrameFaults \subseteq FaultStatus /\ "BAD_STATE" \in FaultStatus
  BY DEF FrameFaults, FaultStatus
<1>2. \A v : NegotiateFault(v) # "OK" => NegotiateFault(v) \in FaultStatus
  BY Zenon DEF NegotiateFault, FaultStatus
<1>3. \A t, i, k : ServiceFault(t, i, k) # "OK" => ServiceFault(t, i, k) \in FaultStatus
  BY Zenon DEF ServiceFault, FaultStatus
<1>4. ASSUME NEW request \in InstructionRequests, RejectInstruction(request)
      PROVE  \E status \in FaultStatus : \E id : RejectFrame(status, id)
  BY <1>4, GuardFaults, Zenon DEF RejectInstruction
<1>5. \E status \in FaultStatus : \E id : RejectFrame(status, id)
  BY <1>1, <1>2, <1>3, <1>4, Zenon
  DEF BadFrame, RejectNegotiate, RejectServiceResponse, RejectRetire
<1> QED
  BY <1>5, RejectInv

\* Every step of the endpoint keeps the invariant.
LEMMA NextInv == IInv /\ [Next]_vars => IInv'
<1> SUFFICES ASSUME IInv, [Next]_vars PROVE IInv'
  OBVIOUS
<1>1. CASE \/ \E status \in FrameFaults, prefix \in TxnIds \cup {0} :
                BadFrame(status, prefix)
           \/ \E version_ok \in BOOLEAN : RejectNegotiate(version_ok)
           \/ \E request \in InstructionRequests : RejectInstruction(request)
           \/ \E id \in TxnIds, service_id \in ServiceIds, kind_ok \in BOOLEAN :
                RejectServiceResponse(id, service_id, kind_ok)
           \/ \E id \in TxnIds : RejectRetire(id)
  BY <1>1, RejectionsInv
<1>2. CASE \E proposed \in Profile : handle_negotiate(proposed)
  BY <1>2, NegotiateInv
<1>3. CASE handle_status_query \/ TakeResponse
  BY <1>3, QuietInv
<1>4. CASE \E request \in InstructionRequests : DecideInstruction(request)
  BY <1>4, DecideInv, RequestAssumption
<1>5. CASE \E request \in InstructionRequests : SuspendInstruction(request)
  BY <1>5, SuspendInv, RequestAssumption
<1>6. CASE \E id \in TxnIds, service_id \in ServiceIds, digest \in Digests :
              handle_service_response(id, service_id, digest)
  BY <1>6, ServiceResponseInv
<1>7. CASE \E id \in TxnIds, result_crc \in CrcWords :
              MismatchRetire(id, result_crc)
  <2>1. "RETIRE_MISMATCH" \in FaultStatus
    BY DEF FaultStatus
  <2> QED
    BY <1>7, <2>1, DiscardInv DEF MismatchRetire
<1>8. CASE \E id \in TxnIds, result_crc \in CrcWords :
              handle_retire(id, result_crc)
  BY <1>8, RetireInv
<1>9. CASE Abort
  BY <1>9, AbortInv
<1>10. CASE Reset
  BY <1>10, ResetInv
<1>11. CASE UNCHANGED vars
  BY <1>11
  DEF vars, IInv, TypeOK, StagedContinuesCommitted, StagedInIndexSpace, IsTxn,
      CommittedInIndexSpace, ServiceIdIsNewest, OfferedResultRetires,
      IsResult, RetireMatches
<1> QED
  BY <1>1, <1>2, <1>3, <1>4, <1>5, <1>6, <1>7, <1>8, <1>9, <1>10, <1>11, Zenon
  DEF Next

\* The inductive invariant holds in every reachable state, for any set of
\* requests, any checksum and any bound on the two counters.
THEOREM Invariance == Spec => []IInv
  BY InitInv, NextInv, PTL DEF Spec

\* Every variable of Lsc1Endpoint keeps its type whatever frames arrive.
THEOREM TypeCorrect == Spec => []TypeOK
<1>1. IInv => TypeOK
  BY DEF IInv
<1> QED
  BY <1>1, Invariance, PTL

\* A staged transaction always continues the committed state, under the
\* profile in force (_handle_instruction, _handle_negotiate, _handle_retire).
THEOREM StagedNeverForks == Spec => []StagedContinuesCommitted
<1>1. IInv => StagedContinuesCommitted
  BY DEF IInv
<1> QED
  BY <1>1, Invariance, PTL

\* The result on the wire is the one RETIRE commits, and its CRC retires it
\* (_finish_transaction against _handle_retire).
THEOREM OfferedResultIsRetirable == Spec => []OfferedResultRetires
<1>1. IInv => OfferedResultRetires
  BY DEF IInv
<1> QED
  BY <1>1, Invariance, PTL

\* Committed state never leaves the index space by more than one pc: every
\* rule of Lsc1Transition bounds what it decides.
THEOREM CommittedStaysInIndexSpace == Spec => []CommittedInIndexSpace
<1>1. IInv => CommittedInIndexSpace
  BY DEF IInv
<1> QED
  BY <1>1, Invariance, PTL

\* What a step does to the service exchange outstanding: it stays, it ends, or one
\* with the next id begins.
LEMMA ServiceSteps ==
  ASSUME IInv, Next
  PROVE  \/ Reset
         \/ service_seq' = service_seq /\ UNCHANGED txnVars
         \/ service_seq' = service_seq /\ state' # "service_pending"
         \/ /\ state = "idle" /\ state' = "service_pending"
            /\ service_seq' = service_seq + 1
<1>1. CASE \/ \E status \in FrameFaults, prefix \in TxnIds \cup {0} :
                BadFrame(status, prefix)
           \/ \E version_ok \in BOOLEAN : RejectNegotiate(version_ok)
           \/ \E request \in InstructionRequests : RejectInstruction(request)
           \/ \E id \in TxnIds, service_id \in ServiceIds, kind_ok \in BOOLEAN :
                RejectServiceResponse(id, service_id, kind_ok)
           \/ \E id \in TxnIds : RejectRetire(id)
  BY <1>1, RejectionsInv DEF RejectFrame, txnVars
<1>2. CASE \/ \E proposed \in Profile : handle_negotiate(proposed)
           \/ handle_status_query
           \/ TakeResponse
  BY <1>2 DEF handle_negotiate, handle_status_query, TakeResponse, txnVars
<1>3. CASE \E request \in InstructionRequests : DecideInstruction(request)
  <2>1. service_seq' = service_seq /\ state' = "result_pending"
    BY <1>3, Zenon DEF DecideInstruction, FinishTransaction
  <2> QED
    BY <2>1
<1>4. CASE \E request \in InstructionRequests : SuspendInstruction(request)
  <2>1. PICK request \in InstructionRequests : SuspendInstruction(request)
    BY <1>4
  <2>2. state = "idle"
    BY <2>1, GuardsPassed, RequestAssumption DEF SuspendInstruction
  <2> QED
    BY <2>1, <2>2, Zenon DEF SuspendInstruction
<1>5. CASE \E id \in TxnIds, service_id \in ServiceIds, digest \in Digests :
              handle_service_response(id, service_id, digest)
  <2>1. service_seq' = service_seq /\ (state' = "result_pending" \/ state' = "idle")
    BY <1>5, Zenon DEF handle_service_response, FinishTransaction, Discard
  <2> QED
    BY <2>1
<1>6. CASE \E id \in TxnIds, result_crc \in CrcWords :
              MismatchRetire(id, result_crc) \/ handle_retire(id, result_crc)
  BY <1>6 DEF MismatchRetire, handle_retire, Discard
<1>7. CASE Abort
  BY <1>7 DEF Abort
<1> QED
  BY <1>1, <1>2, <1>3, <1>4, <1>5, <1>6, <1>7, Zenon DEF Next

\* The exchanges that are over are those of the ids issued, but for the one
\* outstanding: ids grow by one until reset, across answers, discards and aborts.
IssuedIds ==
    closed = IF state = "service_pending" THEN 1 .. (service_seq - 1) ELSE 1 .. service_seq

LEMMA HistoryNextInv == IInv /\ IssuedIds /\ [HistoryNext]_historyVars => (IInv /\ IssuedIds)'
<1> SUFFICES ASSUME IInv, IssuedIds, [HistoryNext]_historyVars PROVE (IInv /\ IssuedIds)'
  OBVIOUS
<1>1. IInv'
  BY NextInv DEF HistoryNext, historyVars
<1>2. CASE UNCHANGED historyVars
  BY <1>1, <1>2, Zenon DEF historyVars, vars, IssuedIds
<1>3. CASE HistoryNext
  <2>1. service_seq \in Nat /\ (state = "service_pending" => staged.service_id = service_seq /\ service_seq > 0)
    BY DEF IInv, TypeOK, ServiceIdIsNewest
  <2>2. CASE Reset
    <3>1. closed' = {} /\ service_seq' = 0 /\ state' = "idle"
      BY <1>3, <2>2, Zenon DEF HistoryNext, Reset
    <3> QED
      BY <1>1, <3>1 DEF IssuedIds
  <2>3. CASE ~Reset /\ service_seq' = service_seq /\ UNCHANGED txnVars
    <3>1. closed' = closed /\ state' = state
      BY <1>3, <2>3 DEF HistoryNext, ExchangeEnds, txnVars
    <3> QED
      BY <1>1, <2>3, <3>1, Zenon DEF IssuedIds
  <2>4. CASE ~Reset /\ service_seq' = service_seq /\ state' # "service_pending"
    <3>1. CASE state = "service_pending"
      <4>1. txnVars' # txnVars
        BY <2>4, <3>1 DEF txnVars
      <4>2. closed' = closed \cup {service_seq}
        BY <1>3, <2>1, <2>4, <3>1, <4>1, Zenon DEF HistoryNext, ExchangeEnds
      <4>3. 1 .. service_seq = (1 .. (service_seq - 1)) \cup {service_seq}
        BY <2>1, <3>1
      <4> QED
        BY <1>1, <2>4, <3>1, <4>2, <4>3, Zenon DEF IssuedIds
    <3>2. CASE state # "service_pending"
      <4>1. closed' = closed
        BY <1>3, <2>4, <3>2, Zenon DEF HistoryNext, ExchangeEnds
      <4> QED
        BY <1>1, <2>4, <3>2, <4>1, Zenon DEF IssuedIds
    <3> QED
      BY <3>1, <3>2
  <2>5. CASE /\ ~Reset /\ state = "idle" /\ state' = "service_pending"
             /\ service_seq' = service_seq + 1
    <3>1. closed' = closed
      BY <1>3, <2>5 DEF HistoryNext, ExchangeEnds
    <3>2. (service_seq + 1) - 1 = service_seq
      BY <2>1
    <3> QED
      BY <1>1, <2>5, <3>1, <3>2 DEF IssuedIds
  <2>6. Next
    BY <1>3, Zenon DEF HistoryNext
  <2> QED
    BY <2>2, <2>3, <2>4, <2>5, <2>6, ServiceSteps, Zenon
<1> QED
  BY <1>2, <1>3

\* However many requests have been suspended, answered, discarded or aborted since
\* the last reset, an answer to an exchange that is over is refused (service_seq of
\* _handle_instruction against _handle_service_response).
THEOREM StaleAnswersStayRefused == HistorySpec => []StaleAnswersAreRefused
<1>1. HistoryInit => IInv /\ IssuedIds
  BY InitInv DEF HistoryInit, Init, IssuedIds
<1>2. IInv /\ IssuedIds => StaleAnswersAreRefused
  <2> SUFFICES ASSUME IInv, IssuedIds, NEW id \in closed, NEW txn \in TxnIds,
                      state = "service_pending"
               PROVE  id # staged.service_id
    BY Zenon DEF StaleAnswersAreRefused, ServiceFault
  <2>1. staged.service_id = service_seq /\ service_seq \in Nat
    BY DEF IInv, TypeOK, ServiceIdIsNewest
  <2>2. id \in 1 .. (service_seq - 1)
    BY DEF IssuedIds
  <2> QED
    BY <2>1, <2>2
<1> QED
  BY <1>1, <1>2, HistoryNextInv, PTL DEF HistorySpec

-----------------------------------------------------------------------------
(* What a fault and the end of the index space do to a transaction         *)

\* _emit puts the status it is given on the lane.
LEMMA EmitStatus ==
  ASSUME NEW status, NEW id, NEW payload, Emit(status, id, payload)
  PROVE  tx'.status = status
  BY DEF Emit, Response

\* A step that answers nothing, or no fault, owes FaultStep nothing.
LEMMA NoFaultNoStep ==
  ASSUME tx' = None \/ tx'.status \notin FaultStatus \/ tx' = tx
  PROVE  FaultStep
  BY DEF FaultStep

\* A rejected frame keeps the transaction; that is what FaultStep asks of any
\* status that does not discard in this state.
LEMMA RejectKeeps ==
  ASSUME NEW status, NEW id, RejectFrame(status, id),
         status \notin DiscardingFaults
  PROVE  FaultStep
<1>1. tx'.status = status
  BY DEF RejectFrame, Emit, Response
<1> QED
  BY <1>1, Zenon DEF RejectFrame, FaultStep, txnVars

\* A discard under a status that discards in this state.
LEMMA DiscardIsFaultStep ==
  ASSUME NEW status \in DiscardingFaults, NEW id, Discard,
         Emit(status, id, <<>>), UNCHANGED <<profile, commitVars, service_seq>>
  PROVE  FaultStep
<1>1. tx'.status = status
  BY DEF Emit, Response
<1> QED
  BY <1>1, Zenon DEF Discard, FaultStep

\* No handler rejects a frame with a status that discards: WRITE_CONFLICT of a
\* transition rule comes in the idle state, where nothing is held.
LEMMA RejectionsKeep ==
  ASSUME \/ \E status \in FrameFaults, prefix \in TxnIds \cup {0} :
               BadFrame(status, prefix)
         \/ \E version_ok \in BOOLEAN : RejectNegotiate(version_ok)
         \/ \E request \in InstructionRequests : RejectInstruction(request)
         \/ \E id \in TxnIds, service_id \in ServiceIds, kind_ok \in BOOLEAN :
               RejectServiceResponse(id, service_id, kind_ok)
         \/ \E id \in TxnIds : RejectRetire(id)
  PROVE  FaultStep
<1>1. \A status \in DiscardingFaults : status \in {"RETIRE_MISMATCH", "WRITE_CONFLICT"} /\ state # "idle"
  BY DEF DiscardingFaults
<1>2. \A status \in FrameFaults : status \notin DiscardingFaults
  BY <1>1 DEF FrameFaults
<1>3. "BAD_STATE" \notin DiscardingFaults
  BY <1>1
<1>4. \A v : NegotiateFault(v) \notin DiscardingFaults
  BY <1>1 DEF NegotiateFault
<1>5. \A t, i, k : ServiceFault(t, i, k) \notin DiscardingFaults
  BY <1>1 DEF ServiceFault
<1>6. ASSUME NEW request, RejectInstruction(request)
      PROVE  FaultStep
  <2>1. GuardFault(request) \notin DiscardingFaults
    BY <1>1 DEF GuardFault
  <2>2. GuardFault(request) = "OK" => state = "idle"
    BY Zenon DEF GuardFault
  <2>3. CASE GuardFault(request) # "OK"
    BY <1>6, <2>1, <2>3, RejectKeeps DEF RejectInstruction
  <2>4. CASE GuardFault(request) = "OK"
    <3>1. execute(request).status \notin DiscardingFaults
      BY <1>1, <2>2, <2>4, Zenon
    <3> QED
      BY <1>6, <2>4, <3>1, RejectKeeps, Zenon DEF RejectInstruction
  <2> QED
    BY <2>3, <2>4
<1>7. CASE \E status \in FrameFaults, prefix \in TxnIds \cup {0} : BadFrame(status, prefix)
  BY <1>2, <1>7, RejectKeeps, Zenon DEF BadFrame
<1>8. CASE \E version_ok \in BOOLEAN : RejectNegotiate(version_ok)
  BY <1>4, <1>8, RejectKeeps, Zenon DEF RejectNegotiate
<1>9. CASE \E id \in TxnIds, service_id \in ServiceIds, kind_ok \in BOOLEAN :
              RejectServiceResponse(id, service_id, kind_ok)
  BY <1>5, <1>9, RejectKeeps, Zenon DEF RejectServiceResponse
<1>10. CASE \E id \in TxnIds : RejectRetire(id)
  BY <1>3, <1>10, RejectKeeps, Zenon DEF RejectRetire
<1> QED
  BY <1>6, <1>7, <1>8, <1>9, <1>10

\* A conflicting digest discards the suspended transaction, under the status the
\* host expects for it (_handle_service_response).
LEMMA ServiceFaultStep ==
  ASSUME NEW id, NEW service_id, NEW digest,
         handle_service_response(id, service_id, digest)
  PROVE  FaultStep
<1> DEFINE resumed == resume_blake3(staged.frame, staged.accesses, digest)
           t == [staged EXCEPT !.writes = resumed.writes, !.service_id = 0]
<1>1. /\ ServiceFault(id, service_id, TRUE) = "OK"
      /\ \/ FinishTransaction(t)
         \/ /\ resumed.status # "OK"
            /\ Discard
            /\ Emit(resumed.status, id, <<>>)
      /\ UNCHANGED <<profile, commitVars, service_seq>>
  BY Zenon DEF handle_service_response
<1>2. state = "service_pending"
  BY <1>1, Zenon DEF ServiceFault
<1>3. CASE FinishTransaction(t)
  <2>1. tx'.status = "OK"
    BY <1>3 DEF FinishTransaction, Emit, Response
  <2> QED
    BY <2>1, NoFaultNoStep DEF FaultStatus
<1>4. CASE resumed.status # "OK" /\ Discard /\ Emit(resumed.status, id, <<>>)
  <2>1. resumed.status = "OK" \/ resumed.status = "WRITE_CONFLICT"
    <3>1. Fault("WRITE_CONFLICT").status = "WRITE_CONFLICT"
      BY DEF Fault
    <3>2. \A w : [status |-> "OK", writes |-> w].status = "OK"
      OBVIOUS
    <3> QED
      BY <3>1, <3>2, Zenon DEF resume_blake3
  <2>2. "WRITE_CONFLICT" \in DiscardingFaults
    BY <1>2 DEF DiscardingFaults
  <2> QED
    BY <1>1, <1>4, <2>1, <2>2, DiscardIsFaultStep
<1> QED
  BY <1>1, <1>3, <1>4

\* Past the end of the index space nothing is held and nothing can be staged: the
\* request would have to name a pc that is both committed and in range.
LEMMA NothingAtTheEnd ==
  ASSUME IInv, state_valid, committed.pc = INDEX_LIMIT
  PROVE  /\ state = "idle" /\ staged = None
         /\ \A request \in InstructionRequests : GuardFault(request) # "OK"
<1>1. INDEX_LIMIT \notin 0..(INDEX_LIMIT - 1)
  BY U32Assumption
<1>2. state = "idle"
  <2>1. SUFFICES ASSUME state # "idle" PROVE FALSE
    OBVIOUS
  <2>2. staged.pc = committed.pc
    BY <2>1, Zenon DEF IInv, StagedContinuesCommitted
  <2>3. staged.pc \in 0..(INDEX_LIMIT - 1)
    BY <2>1, Zenon DEF IInv, StagedInIndexSpace
  <2> QED
    BY <1>1, <2>2, <2>3
<1>3. staged = None
  BY <1>2, Zenon DEF IInv, TypeOK
<1>4. ASSUME NEW request \in InstructionRequests, GuardFault(request) = "OK"
      PROVE  FALSE
  <2>1. request.pc = committed.pc /\ InRange(request)
    BY <1>1, <1>4, GuardsPassed, RequestAssumption
  <2> QED
    BY <1>1, <2>1 DEF InRange
<1> QED
  BY <1>2, <1>3, <1>4

\* No step stages anything or moves the committed state past the end, but a reset.
LEMMA EndHolds ==
  ASSUME IInv, [Next]_vars
  PROVE  EndStep
<1> SUFFICES ASSUME state_valid, committed.pc = INDEX_LIMIT
             PROVE  staged' = None /\ (committed' = committed \/ ~state_valid')
  BY Zenon DEF EndStep
<1>0. /\ state = "idle" /\ staged = None
      /\ \A request \in InstructionRequests : GuardFault(request) # "OK"
  BY NothingAtTheEnd
<1>1. CASE \/ \E status \in FrameFaults, prefix \in TxnIds \cup {0} :
                BadFrame(status, prefix)
           \/ \E version_ok \in BOOLEAN : RejectNegotiate(version_ok)
           \/ \E request \in InstructionRequests : RejectInstruction(request)
           \/ \E id \in TxnIds, service_id \in ServiceIds, kind_ok \in BOOLEAN :
                RejectServiceResponse(id, service_id, kind_ok)
           \/ \E id \in TxnIds : RejectRetire(id)
  BY <1>0, <1>1, RejectionsInv DEF RejectFrame, commitVars
<1>2. CASE \/ \E proposed \in Profile : handle_negotiate(proposed)
           \/ handle_status_query
           \/ TakeResponse
           \/ UNCHANGED vars
  BY <1>0, <1>2
  DEF handle_negotiate, handle_status_query, TakeResponse, vars, txnVars, commitVars
<1>3. ~ \E request \in InstructionRequests :
          DecideInstruction(request) \/ SuspendInstruction(request)
  BY <1>0, Zenon DEF DecideInstruction, SuspendInstruction
<1>4. ~ \E id \in TxnIds, service_id \in ServiceIds, digest \in Digests :
          handle_service_response(id, service_id, digest)
  BY <1>0 DEF handle_service_response, ServiceFault
<1>5. ~ \E id \in TxnIds, result_crc \in CrcWords :
          MismatchRetire(id, result_crc) \/ handle_retire(id, result_crc)
  BY <1>0 DEF MismatchRetire, handle_retire
<1>6. CASE Abort
  BY <1>6 DEF Abort, commitVars
<1>7. CASE Reset
  BY <1>7, Zenon DEF Reset
<1> QED
  BY <1>1, <1>2, <1>3, <1>4, <1>5, <1>6, <1>7, Zenon DEF Next

\* What a fault does to the transaction is decided by its status and the state.
LEMMA FaultHolds ==
  ASSUME IInv, [Next]_vars
  PROVE  FaultStep
<1>1. CASE \/ \E status \in FrameFaults, prefix \in TxnIds \cup {0} :
                BadFrame(status, prefix)
           \/ \E version_ok \in BOOLEAN : RejectNegotiate(version_ok)
           \/ \E request \in InstructionRequests : RejectInstruction(request)
           \/ \E id \in TxnIds, service_id \in ServiceIds, kind_ok \in BOOLEAN :
                RejectServiceResponse(id, service_id, kind_ok)
           \/ \E id \in TxnIds : RejectRetire(id)
  BY <1>1, RejectionsKeep
<1>2. {"OK", "INFO", "SERVICE_REQUIRED", "RETIRED"} \cap FaultStatus = {}
  BY DEF FaultStatus
<1>3. CASE \/ \E proposed \in Profile : handle_negotiate(proposed)
           \/ handle_status_query
  <2>1. tx'.status \in {"OK", "INFO"}
    BY <1>3, EmitStatus, Zenon DEF handle_negotiate, handle_status_query
  <2> QED
    BY <1>2, <2>1, NoFaultNoStep
<1>4. CASE TakeResponse \/ Abort \/ Reset \/ UNCHANGED vars
  BY <1>4, NoFaultNoStep DEF TakeResponse, Abort, Reset, vars
<1>5. CASE \E request \in InstructionRequests :
             DecideInstruction(request) \/ SuspendInstruction(request)
  <2>1. tx'.status \in {"OK", "SERVICE_REQUIRED"}
    BY <1>5 DEF DecideInstruction, FinishTransaction, SuspendInstruction, Emit, Response
  <2> QED
    BY <1>2, <2>1, NoFaultNoStep
<1>6. CASE \E id \in TxnIds, service_id \in ServiceIds, digest \in Digests :
              handle_service_response(id, service_id, digest)
  BY <1>6, ServiceFaultStep
<1>7. CASE \E id \in TxnIds, result_crc \in CrcWords :
              MismatchRetire(id, result_crc)
  <2>1. "RETIRE_MISMATCH" \in DiscardingFaults
    BY <1>7 DEF MismatchRetire, DiscardingFaults
  <2> QED
    BY <1>7, <2>1, DiscardIsFaultStep DEF MismatchRetire
<1>8. CASE \E id \in TxnIds, result_crc \in CrcWords :
              handle_retire(id, result_crc)
  <2>1. tx'.status = "RETIRED"
    BY <1>8 DEF handle_retire, Emit, Response
  <2> QED
    BY <1>2, <2>1, NoFaultNoStep
<1> QED
  BY <1>1, <1>3, <1>4, <1>5, <1>6, <1>7, <1>8, Zenon DEF Next

\* What the host's fault classes rely on, and that no transaction is staged past
\* the end of the index space, for every request set, digest and checksum
\* (_fault, _discard and the guards of _handle_instruction).
THEOREM DisciplineHolds == Spec => TransactionDiscipline
<1>1. IInv /\ [Next]_vars => [FaultStep /\ EndStep]_vars
  BY FaultHolds, EndHolds
<1> QED
  BY <1>1, Invariance, PTL DEF Spec, TransactionDiscipline

-----------------------------------------------------------------------------
(* The endpoint implements Retirement                                      *)

\* An offer is a record, never the absence of one.
LEMMA OfferIsNotNone ==
  ASSUME IInv, state = "result_pending"
  PROVE  Offer # None
<1>1. Offer \in [from : ScalarState, to : ScalarState]
  BY U32Assumption DEF IInv, StagedInIndexSpace, Offer, ScalarState
<1> QED
  BY <1>1, NoneAssumption

\* A step into the pending state from another one proposes an offer.
LEMMA ProposeStep ==
  ASSUME IInv, IInv', state # "result_pending", state' = "result_pending",
         UNCHANGED commitVars
  PROVE  Ledger!Propose
<1>1. Offer = None
  BY DEF Offer
<1>2. Offer' # None
  <2>1. Offer' \in [from : ScalarState, to : ScalarState]
    BY U32Assumption DEF IInv, StagedInIndexSpace, Offer, ScalarState
  <2> QED
    BY <2>1, NoneAssumption
<1>3. UNCHANGED <<committed, state_valid, retire_seq>>
  BY DEF commitVars
<1>4. state_valid' => Offer'.from = committed'
  BY DEF IInv, TypeOK, StagedContinuesCommitted, Offer, ScalarState
<1> QED
  BY <1>1, <1>2, <1>3, <1>4 DEF Ledger!Propose

\* A step that leaves the transaction and the committed state alone is a
\* stuttering step of the ledger.
LEMMA LedgerStutter ==
  ASSUME UNCHANGED <<state, staged, commitVars>>
  PROVE  UNCHANGED Ledger!ledger
  BY DEF Ledger!ledger, Offer, commitVars

\* Leaving the pending state without a commit withdraws the offer.
LEMMA WithdrawStep ==
  ASSUME state' = "idle", UNCHANGED commitVars
  PROVE  Ledger!Withdraw
  BY DEF Ledger!Withdraw, Offer, commitVars

\* A matching RETIRE is the commit of the ledger.
LEMMA CommitStep ==
  ASSUME IInv, NEW id, NEW result_crc, handle_retire(id, result_crc)
  PROVE  Ledger!Commit
<1>1. /\ state = "result_pending" /\ state' = "idle"
      /\ committed' = [pc |-> staged.next_pc, fp |-> staged.next_fp]
      /\ retire_seq' = retire_seq + 1
  BY DEF handle_retire, Discard
<1>2. state_valid' = TRUE
  BY Zenon DEF handle_retire
<1>3. Offer # None /\ Offer' = None /\ committed' = Offer.to
  BY <1>1, OfferIsNotNone DEF Offer
<1> QED
  BY <1>1, <1>2, <1>3, Zenon DEF Ledger!Commit

\* Every step of the endpoint is a step or a stutter of the ledger.
LEMMA LedgerStep == IInv /\ IInv' /\ [Next]_vars => [Ledger!LedgerNext]_(Ledger!ledger)
<1> SUFFICES ASSUME IInv, IInv', [Next]_vars
             PROVE  [Ledger!LedgerNext]_(Ledger!ledger)
  OBVIOUS
<1>1. CASE \/ \E status \in FrameFaults, prefix \in TxnIds \cup {0} :
                BadFrame(status, prefix)
           \/ \E version_ok \in BOOLEAN : RejectNegotiate(version_ok)
           \/ \E request \in InstructionRequests : RejectInstruction(request)
           \/ \E id \in TxnIds, service_id \in ServiceIds, kind_ok \in BOOLEAN :
                RejectServiceResponse(id, service_id, kind_ok)
           \/ \E id \in TxnIds : RejectRetire(id)
  BY <1>1, RejectionsInv, LedgerStutter DEF RejectFrame
<1>2. CASE \/ \E proposed \in Profile : handle_negotiate(proposed)
           \/ handle_status_query
           \/ TakeResponse
           \/ UNCHANGED vars
  BY <1>2, LedgerStutter
  DEF handle_negotiate, handle_status_query, TakeResponse, vars, txnVars, commitVars
<1>3. CASE \E request \in InstructionRequests : DecideInstruction(request)
  <2>1. PICK request \in InstructionRequests : DecideInstruction(request)
    BY <1>3
  <2>2. state = "idle"
    BY <2>1, GuardsPassed, RequestAssumption DEF DecideInstruction
  <2>3. state' = "result_pending" /\ UNCHANGED commitVars
    BY <2>1, Zenon DEF DecideInstruction, FinishTransaction
  <2> QED
    BY <2>2, <2>3, ProposeStep DEF Ledger!LedgerNext
<1>4. CASE \E request \in InstructionRequests : SuspendInstruction(request)
  <2>1. PICK request \in InstructionRequests : SuspendInstruction(request)
    BY <1>4
  <2>2. state = "idle" /\ state' = "service_pending" /\ UNCHANGED commitVars
    BY <2>1, GuardsPassed, RequestAssumption DEF SuspendInstruction
  <2> QED
    BY <2>2 DEF Ledger!ledger, Offer, commitVars
<1>5. CASE \E id \in TxnIds, service_id \in ServiceIds, digest \in Digests :
              handle_service_response(id, service_id, digest)
  <2>1. PICK id \in TxnIds, service_id \in ServiceIds, digest \in Digests :
              handle_service_response(id, service_id, digest)
    BY <1>5
  <2>2. state = "service_pending" /\ UNCHANGED commitVars
    BY <2>1, Zenon DEF handle_service_response, ServiceFault
  <2>3. state' = "result_pending" \/ state' = "idle"
    BY <2>1, Zenon DEF handle_service_response, FinishTransaction, Discard
  <2> QED
    BY <2>2, <2>3, ProposeStep, WithdrawStep DEF Ledger!LedgerNext
<1>6. CASE \E id \in TxnIds, result_crc \in CrcWords :
              MismatchRetire(id, result_crc)
  BY <1>6, WithdrawStep DEF MismatchRetire, Discard, Ledger!LedgerNext
<1>7. CASE \E id \in TxnIds, result_crc \in CrcWords :
              handle_retire(id, result_crc)
  BY <1>7, CommitStep DEF Ledger!LedgerNext
<1>8. CASE Abort
  BY <1>8, WithdrawStep DEF Abort, Ledger!LedgerNext
<1>9. CASE Reset
  <2>1. /\ committed' = [pc |-> 0, fp |-> 0] /\ retire_seq' = 0 /\ state' = "idle"
    BY <1>9 DEF Reset
  <2>2. state_valid' = FALSE
    BY <1>9, Zenon DEF Reset
  <2>3. Offer' = None
    BY <2>1 DEF Offer
  <2>4. Ledger!PowerCycle
    BY <2>1, <2>2, <2>3, Zenon DEF Ledger!PowerCycle, Ledger!Start
  <2> QED
    BY <2>4 DEF Ledger!LedgerNext
<1> QED
  BY <1>1, <1>2, <1>3, <1>4, <1>5, <1>6, <1>7, <1>8, <1>9, Zenon DEF Next

\* Whatever frames, digests, aborts and resets arrive, the committed state
\* moves only by retiring the one decided transition, which continues it.
THEOREM EndpointImplementsRetirement == Spec => ImplementsRetirement
<1>1. Init => Ledger!PowerOn
  <2> SUFFICES ASSUME Init PROVE Ledger!PowerOn
    OBVIOUS
  <2>1. Offer = None
    BY DEF Init, Offer
  <2> QED
    BY <2>1, Zenon DEF Init, Ledger!PowerOn, Ledger!Start
<1> QED
  BY <1>1, LedgerStep, Invariance, PTL
  DEF Spec, ImplementsRetirement, Ledger!LedgerSpec

-----------------------------------------------------------------------------
(* The inductive invariant                                                 *)

\* The slot the host stands at, and what preparing it would give.
CurrentSlot == program.operations[pc + 1]

At == [txn_id |-> txn_id, pc |-> pc, fp |-> fp, profile |-> HostProfile]

Prepares == pc < HaltPc /\ prepare(CurrentSlot, At, cells).refused = "no"

Exchanging == phase \in {"requested", "answered", "retiring"}

HostTypes ==
    /\ program \in Programs
    /\ cells \in Memory
    /\ deferred \in Seq(Equality)
    /\ pc \in Nat
    /\ fp \in Nat
    /\ txn_id \in 0..MaxTxn
    /\ phase \in Phase
    /\ ended \in {"ok", "fault", "raised", "halted"}

\* A lane is half duplex: a frame is on its way, or a reply, or neither.
LaneIsHalfDuplex ==
    /\ wire => tx = None /\ phase \notin {"ready", "closed"}
    /\ phase \in {"ready", "closed"} => tx = None

\* The request in flight is the one the current state prepares.
JobIsPrepared ==
    Exchanging =>
        /\ Prepares
        /\ job.request = prepare(CurrentSlot, At, cells).request
        /\ job.addresses = prepare(CurrentSlot, At, cells).addresses

\* What the endpoint or the adapter still holds was prepared from the state
\* the host is in: whatever it was, the host did not move on without it.
HeldIsCurrent ==
    /\ state # "idle" => Prepares /\ staged.pc = pc /\ staged.fp = fp
    /\ state = "service_pending" =>
          /\ CurrentSlot.kind = "Blake3"
          /\ staged.txn_id \in Nat
          /\ staged.deferred = <<>>
          /\ staged.accesses \in Seq(Address)
          /\ Len(staged.accesses) >= 2
    /\ outstanding # None => Prepares /\ CurrentSlot.kind = "Blake3"

\* A binding belongs to this step, or to one whose RETIRE went unanswered.
BindingIsExplained ==
    outstanding # None =>
        /\ phase # "negotiating"
        /\ phase \in {"answered", "retiring"} => outstanding.txn_id = txn_id
        /\ phase \in {"ready", "closed", "requested"} =>
              /\ ended \in {"raised", "fault"}
              /\ result # None
              /\ result.txn_id = outstanding.txn_id

\* Nothing has happened yet.
NegotiatingIsFresh ==
    phase = "negotiating" =>
        state = "idle" /\ ~state_valid /\ ended = "ok"

\* What the reply on the lane says of the endpoint.
RepliesAreTrue ==
    (tx # None /\ Exchanging) =>
        /\ tx.status \in FaultStatus \ FRAME_ONLY_FAULTS => state = "idle"
        /\ (tx.status = "OK" /\ phase # "retiring") =>
              /\ state = "result_pending"
              /\ tx.payload = result_payload(staged)
              /\ tx.payload \in Result
              /\ staged.result_crc = Crc(tx.payload)
        /\ (tx.status = "RETIRED" /\ phase = "retiring") =>
              /\ state = "idle"
              /\ tx.payload.committed = committed

\* The digest on its way has the shape the service guarantees.
AnswerIsDigest ==
    phase = "answered" => Compress(outstanding.operands) \in Word \X Word

\* Waiting for RETIRED, the result is the one the endpoint holds, if it still
\* holds one.
RetiringIsStaged ==
    phase = "retiring" =>
        /\ result \in Result
        /\ result.txn_id = txn_id
        /\ state # "service_pending"
        /\ state = "result_pending" =>
              result = result_payload(staged) /\ staged.result_crc = Crc(result)

HInv ==
    /\ IInv
    /\ HostTypes
    /\ LaneIsHalfDuplex
    /\ JobIsPrepared
    /\ HeldIsCurrent
    /\ BindingIsExplained
    /\ NegotiatingIsFresh
    /\ RepliesAreTrue
    /\ AnswerIsDigest
    /\ RetiringIsStaged
    /\ HostTracksCommitted
    /\ RetiredIsApplicable
    /\ ReturnLeavesNothingStaged

\* With the model's endpoint, which ABORT reaches, a service is pending only
\* while its SERVICE_REQUIRED is on the lane or answered.
ServiceIsOffered ==
    /\ NoStrandedService
    /\ (phase = "requested" /\ state = "service_pending") =>
          ~wire /\ tx.status = "SERVICE_REQUIRED"

-----------------------------------------------------------------------------
(* The request in flight                                                   *)

\* The slot at a pc before the sentinel is one the loader accepted.
LEMMA SlotIsLoaded ==
  ASSUME HostTypes, pc < HaltPc
  PROVE  IsSlot(CurrentSlot)
<1>1. IsProgram(program)
  BY ProgramAssumption DEF HostTypes
<1> DEFINE operations == program.operations
           n == Len(operations)
<1>2. /\ n \in Nat /\ DOMAIN operations = 1..n
      /\ \A i \in DOMAIN operations : IsSlot(operations[i])
  BY <1>1, Zenon DEF IsProgram
<1>3. pc \in Nat /\ pc < n - 1
  BY DEF HostTypes, HaltPc
<1>4. pc + 1 \in 1..n
  BY <1>2, <1>3
<1> QED
  BY <1>2, <1>4 DEF CurrentSlot

\* What a request in flight is.
JobFacts ==
    /\ IsRequest(job.request)
    /\ IsOperands(job.request)
    /\ job.request.txn_id = txn_id
    /\ job.request.pc = pc
    /\ job.request.fp = fp
    /\ IsBlake3 <=> CurrentSlot.kind = "Blake3"
    /\ job.addresses \in Seq(Address)

\* Every request in flight is one the endpoint's decoder would accept.
LEMMA JobIsWellFormed ==
  ASSUME HostTypes, JobIsPrepared, Exchanging
  PROVE  JobFacts
<1> DEFINE prepared == prepare(CurrentSlot, At, cells)
<1>1. /\ pc < HaltPc /\ prepared.refused = "no"
      /\ job.request = prepared.request /\ job.addresses = prepared.addresses
  BY Zenon DEF JobIsPrepared, Prepares
<1>2. At.fp = fp /\ At.pc = pc /\ At.txn_id = txn_id /\ At.profile = HostProfile
  BY DEF At
<1>3. IsPrepared(prepared, CurrentSlot, At)
  BY <1>1, <1>2, SlotIsLoaded, PreparedIsWellFormed DEF HostTypes
<1> HIDE DEF prepared
<1>4. /\ IsOperands(job.request)
      /\ job.request.txn_id = txn_id /\ job.request.pc = pc /\ job.request.fp = fp
      /\ job.request.profile = HostProfile
      /\ job.request.dest_pc \in Nat /\ job.request.dest_fp \in Nat
      /\ job.request.opcode = "BLAKE3_REQUEST" <=> CurrentSlot.kind = "Blake3"
      /\ job.addresses \in Seq(Address)
  BY <1>1, <1>2, <1>3, Zenon DEF IsPrepared
<1>5. IsRequest(job.request)
  BY <1>4, HostAssumption, Zenon DEF IsRequest, IsOperands, HostTypes
<1> QED
  BY <1>4, <1>5, Zenon DEF JobFacts, IsBlake3

-----------------------------------------------------------------------------
(* Steps that leave part of the state alone                                *)

\* What the host would prepare depends on its own state.
LEMMA PreparesSame ==
  ASSUME UNCHANGED <<program, cells, pc, fp, txn_id>>
  PROVE  /\ Prepares' <=> Prepares
         /\ CurrentSlot' = CurrentSlot
         /\ prepare(CurrentSlot, At, cells)' = prepare(CurrentSlot, At, cells)
<1>1. CurrentSlot' = CurrentSlot /\ At' = At /\ HaltPc' = HaltPc
  BY DEF CurrentSlot, At, HaltPc
<1> QED
  BY <1>1, Zenon DEF Prepares

\* The reply is read, or lost: the endpoint itself is as it was.
LEMMA LaneIdleInv ==
  ASSUME IInv, LaneIdle
  PROVE  /\ IInv'
         /\ UNCHANGED <<state, staged, profile, committed, state_valid>>
         /\ tx' = None
<1>1. /\ UNCHANGED <<state, staged, profile, committed, state_valid, retire_seq,
                     service_seq, last_status, last_fault>>
      /\ tx' = None
  BY DEF LaneIdle, txnVars, commitVars
<1>2. IInv'
  BY <1>1
  DEF IInv, TypeOK, StagedContinuesCommitted, StagedInIndexSpace, IsTxn,
      CommittedInIndexSpace, ServiceIdIsNewest, OfferedResultRetires
<1> QED
  BY <1>1, <1>2

\* The abort of an except clause reaches the endpoint, or only the lane.
LEMMA AbortEndpointInv ==
  ASSUME IInv, AbortEndpoint
  PROVE  /\ IInv'
         /\ tx' = None
         /\ UNCHANGED <<committed, state_valid>>
         /\ \/ state' = "idle"
            \/ PhysicalLane /\ UNCHANGED <<state, staged>>
<1>1. CASE PhysicalLane
  <2>1. LaneIdle
    BY <1>1, Zenon DEF AbortEndpoint, LaneIdle
  <2> QED
    BY <1>1, <2>1, LaneIdleInv
<1>2. CASE ~PhysicalLane
  <2>1. Abort
    BY <1>2, Zenon DEF AbortEndpoint
  <2> QED
    BY <2>1, AbortInv DEF Abort, commitVars
<1> QED
  BY <1>1, <1>2

-----------------------------------------------------------------------------
(* The ways out of step()                                                  *)

\* Leaving step() without having applied anything: the endpoint keeps what it
\* holds or drops it, and a fault is returned only when it holds nothing.
LEMMA ReturnInv ==
  ASSUME HInv, Exchanging, NEW how \in {"raised", "fault"}, Return(how),
         IInv', tx' = None, UNCHANGED <<committed, state_valid>>,
         state' = "idle" \/ UNCHANGED <<state, staged>>,
         how = "fault" => state' = "idle",
         \/ outstanding' = None
         \/ outstanding' = outstanding /\ phase \in {"requested", "retiring"}
  PROVE  HInv'
<1>1. /\ phase' = "ready" /\ wire' = FALSE /\ ended' = how
      /\ UNCHANGED <<program, cells, deferred, pc, fp, txn_id, job, result>>
  BY DEF Return, memVars
<1>2. HostTypes'
  BY <1>1 DEF HInv, HostTypes, Phase
<1>3. LaneIsHalfDuplex'
  BY <1>1, Zenon DEF LaneIsHalfDuplex
<1>4. JobIsPrepared' /\ NegotiatingIsFresh' /\ RepliesAreTrue' /\ AnswerIsDigest'
      /\ RetiringIsStaged' /\ RetiredIsApplicable'
  BY <1>1
  DEF JobIsPrepared, Exchanging, NegotiatingIsFresh, RepliesAreTrue, AnswerIsDigest,
      RetiringIsStaged, RetiredIsApplicable
<1>5. HeldIsCurrent'
  <2>1. (Prepares' <=> Prepares) /\ CurrentSlot' = CurrentSlot
    BY <1>1, PreparesSame
  <2>2. outstanding' # None => Prepares' /\ CurrentSlot'.kind = "Blake3"
    BY <2>1 DEF HInv, HeldIsCurrent
  <2>3. CASE state' = "idle"
    BY <2>2, <2>3 DEF HeldIsCurrent
  <2>4. CASE UNCHANGED <<state, staged>>
    BY <1>1, <2>1, <2>2, <2>4 DEF HInv, HeldIsCurrent
  <2> QED
    BY <2>3, <2>4
<1>6. BindingIsExplained'
  <2>1. CASE outstanding' = None
    BY <2>1 DEF BindingIsExplained
  <2>2. CASE outstanding' = outstanding /\ phase = "requested" /\ outstanding # None
    <3>1. result # None /\ result.txn_id = outstanding.txn_id
      BY <2>2 DEF HInv, BindingIsExplained
    <3> QED
      BY <1>1, <2>2, <3>1 DEF BindingIsExplained
  <2>3. CASE outstanding' = outstanding /\ phase = "retiring" /\ outstanding # None
    <3>1. result \in Result /\ result.txn_id = txn_id /\ outstanding.txn_id = txn_id
      BY <2>3 DEF HInv, RetiringIsStaged, BindingIsExplained
    <3>2. result # None
      BY <3>1, ProgramAssumption, Zenon
    <3> QED
      BY <1>1, <2>3, <3>1, <3>2 DEF BindingIsExplained
  <2> QED
    BY <2>1, <2>2, <2>3
<1>7. HostTracksCommitted'
  <2>1. HostState' = HostState
    BY <1>1 DEF HostState
  <2> QED
    BY <1>1, <2>1 DEF HInv, HostTracksCommitted
<1>8. ReturnLeavesNothingStaged'
  BY <1>1 DEF ReturnLeavesNothingStaged
<1> QED
  BY <1>2, <1>3, <1>4, <1>5, <1>6, <1>7, <1>8, Zenon DEF HInv

\* adapter.abort() leaves no binding.
LEMMA AdapterAbortClears ==
  ASSUME AdapterAbort
  PROVE  outstanding' = None
  BY DEF AdapterAbort

\* An exception that leaves the adapter alone leaves no binding of this step
\* that RETIRE was not sent for.
LEMMA RaiseInv ==
  ASSUME HInv, Exchanging, NEW aborts, Raise(aborts),
         aborts \/ phase \in {"requested", "retiring"} \/ outstanding = None
  PROVE  HInv'
<1>0. IInv
  BY DEF HInv
<1>1. CASE aborts
  <2>1. AbortEndpoint /\ AdapterAbort /\ Return("raised")
    BY <1>1, Zenon DEF Raise
  <2>2. /\ IInv' /\ tx' = None /\ UNCHANGED <<committed, state_valid>>
        /\ state' = "idle" \/ UNCHANGED <<state, staged>>
    BY <1>0, <2>1, AbortEndpointInv
  <2> QED
    BY <2>1, <2>2, AdapterAbortClears, ReturnInv
<1>2. CASE ~aborts
  <2>1. LaneIdle /\ UNCHANGED adapterVars /\ Return("raised")
    BY <1>2, Zenon DEF Raise
  <2>2. /\ IInv' /\ tx' = None /\ UNCHANGED <<committed, state_valid>>
        /\ UNCHANGED <<state, staged>>
    BY <1>0, <2>1, LaneIdleInv
  <2>3. outstanding' = outstanding
    BY <2>1 DEF adapterVars
  <2> QED
    BY <1>2, <2>1, <2>2, <2>3, ReturnInv
<1> QED
  BY <1>1, <1>2

\* An exchange that raises.
LEMMA ExchangeRaisesInv ==
  ASSUME HInv, ExchangeRaises
  PROVE  HInv'
<1>1. Exchanging
  BY DEF ExchangeRaises, Exchanging
<1>2. CASE phase = "requested"
  <2>1. Raise(IsBlake3)
    BY <1>2 DEF ExchangeRaises
  <2> QED
    BY <1>1, <1>2, <2>1, RaiseInv
<1>3. CASE phase = "answered"
  <2>1. Raise(TRUE)
    BY <1>3 DEF ExchangeRaises
  <2> QED
    BY <1>1, <2>1, RaiseInv
<1>4. CASE phase = "retiring"
  <2>1. Raise(Serviced)
    BY <1>4 DEF ExchangeRaises
  <2> QED
    BY <1>1, <1>4, <2>1, RaiseInv
<1> QED
  BY <1>2, <1>3, <1>4 DEF ExchangeRaises

\* A service that fails, or whose request is refused by the adapter.
LEMMA ServiceFailsInv ==
  ASSUME HInv, ServiceFails
  PROVE  HInv'
<1>1. Exchanging /\ IInv
  BY DEF ServiceFails, ServiceOffered, Exchanging, HInv
<1>2. AbortEndpoint /\ Return("raised")
  BY DEF ServiceFails
<1>3. outstanding' = None
  BY AdapterAbortClears, Zenon DEF ServiceFails
<1>4. /\ IInv' /\ tx' = None /\ UNCHANGED <<committed, state_valid>>
      /\ state' = "idle" \/ UNCHANGED <<state, staged>>
  BY <1>1, <1>2, AbortEndpointInv
<1> QED
  BY <1>1, <1>2, <1>3, <1>4, ReturnInv

\* A fault that ends a step leaves nothing on the endpoint.
LEMMA StepFaultIsIdle ==
  ASSUME HInv, Exchanging, tx # None, NEW is_staged, IsStepFault(tx, is_staged)
  PROVE  state = "idle"
<1>1. tx.status \in FaultStatus
  BY DEF IsStepFault
<1>2. tx.status \notin FRAME_ONLY_FAULTS
  BY Zenon DEF IsStepFault, RETIRE_DISCARDING_FAULTS, FRAME_ONLY_FAULTS
<1> QED
  BY <1>1, <1>2 DEF HInv, RepliesAreTrue

\* The instruction was refused.
LEMMA RequestFaultsInv ==
  ASSUME HInv, RequestFaults
  PROVE  HInv'
<1> DEFINE how == IF IsStepFault(tx, FALSE) THEN "fault" ELSE "raised"
<1>1. Exchanging /\ IInv /\ tx # None /\ phase = "requested"
  BY DEF RequestFaults, Exchanging, HInv
<1>2. LaneIdle /\ Return(how) /\ outstanding' = outstanding
  BY DEF RequestFaults, adapterVars
<1>3. how \in {"raised", "fault"} /\ (how = "fault" => state = "idle")
  BY <1>1, StepFaultIsIdle
<1> HIDE DEF how
<1>4. /\ IInv' /\ tx' = None /\ UNCHANGED <<committed, state_valid>>
      /\ UNCHANGED <<state, staged>>
  BY <1>1, <1>2, LaneIdleInv
<1> QED
  BY <1>1, <1>2, <1>3, <1>4, ReturnInv

\* The service response was refused.
LEMMA ServiceResponseFaultsInv ==
  ASSUME HInv, ServiceResponseFaults
  PROVE  HInv'
<1> DEFINE how == IF IsStepFault(tx, FALSE) THEN "fault" ELSE "raised"
<1>1. Exchanging /\ IInv /\ tx # None
  BY DEF ServiceResponseFaults, Exchanging, HInv
<1>2. (AbortEndpoint \/ LaneIdle) /\ AdapterAbort /\ Return(how)
  BY Zenon DEF ServiceResponseFaults
<1>3. how \in {"raised", "fault"} /\ (how = "fault" => state = "idle")
  BY <1>1, StepFaultIsIdle
<1> HIDE DEF how
<1>4. /\ IInv' /\ tx' = None /\ UNCHANGED <<committed, state_valid>>
      /\ state' = "idle" \/ UNCHANGED <<state, staged>>
  BY <1>1, <1>2, AbortEndpointInv, LaneIdleInv
<1>5. outstanding' = None
  BY <1>2, AdapterAbortClears
<1> QED
  BY <1>1, <1>2, <1>3, <1>4, <1>5, ReturnInv

\* RETIRE was refused.
LEMMA RetireFaultsInv ==
  ASSUME HInv, RetireFaults
  PROVE  HInv'
<1> DEFINE how == IF IsStepFault(tx, TRUE) THEN "fault" ELSE "raised"
<1>1. Exchanging /\ IInv /\ tx # None /\ phase = "retiring"
  BY DEF RetireFaults, Exchanging, HInv
<1>2. LaneIdle /\ Return(how) /\ (AdapterAbort \/ UNCHANGED adapterVars)
  BY Zenon DEF RetireFaults
<1>3. how \in {"raised", "fault"} /\ (how = "fault" => state = "idle")
  BY <1>1, StepFaultIsIdle
<1> HIDE DEF how
<1>4. /\ IInv' /\ tx' = None /\ UNCHANGED <<committed, state_valid>>
      /\ UNCHANGED <<state, staged>>
  BY <1>1, <1>2, LaneIdleInv
<1>5. outstanding' = None \/ outstanding' = outstanding
  BY <1>2, AdapterAbortClears DEF adapterVars
<1> QED
  BY <1>1, <1>2, <1>3, <1>4, <1>5, ReturnInv

\* A result the host does not accept.
LEMMA RefuseResultInv ==
  ASSUME HInv, RefuseResult
  PROVE  HInv'
<1>1. /\ phase \in {"requested", "answered"} /\ Exchanging /\ Raise(Serviced)
  BY DEF RefuseResult, ResultArrives, Exchanging
<1>2. phase = "answered" => Serviced \/ outstanding = None
  BY DEF HInv, BindingIsExplained, Serviced
<1> QED
  BY <1>1, <1>2, RaiseInv

-----------------------------------------------------------------------------
(* Construction, preparation and the end of the run                        *)

\* NEGOTIATE answered or lost: there is a runtime over an idle endpoint, or
\* none.
LEMMA NegotiatedInv ==
  ASSUME HInv, FinishNegotiate \/ NegotiateRaises
  PROVE  HInv'
<1>1. /\ phase = "negotiating" /\ LaneIdle /\ phase' \in {"ready", "closed"}
      /\ UNCHANGED <<program, cells, deferred, pc, fp, txn_id, job, result,
                     outstanding, ended>>
  BY DEF FinishNegotiate, NegotiateRaises, memVars, adapterVars
<1>2. /\ IInv' /\ tx' = None
      /\ UNCHANGED <<state, staged, profile, committed, state_valid>>
  BY <1>1, LaneIdleInv DEF HInv
<1>3. wire' = FALSE
  BY DEF FinishNegotiate, NegotiateRaises, HInv, LaneIsHalfDuplex, HostTypes
<1>4. state = "idle" /\ ~state_valid /\ ended = "ok" /\ outstanding = None
  BY <1>1 DEF HInv, NegotiatingIsFresh, BindingIsExplained
<1>5. HostTypes' /\ LaneIsHalfDuplex'
  BY <1>1, <1>2, <1>3 DEF HInv, HostTypes, Phase, LaneIsHalfDuplex
<1>6. /\ JobIsPrepared' /\ HeldIsCurrent' /\ BindingIsExplained'
      /\ NegotiatingIsFresh' /\ RepliesAreTrue' /\ AnswerIsDigest'
      /\ RetiringIsStaged' /\ RetiredIsApplicable' /\ ReturnLeavesNothingStaged'
  BY <1>1, <1>2, <1>4
  DEF JobIsPrepared, Exchanging, HeldIsCurrent, BindingIsExplained,
      NegotiatingIsFresh, RepliesAreTrue, AnswerIsDigest, RetiringIsStaged,
      RetiredIsApplicable, ReturnLeavesNothingStaged
<1>7. HostTracksCommitted'
  BY <1>2, <1>4 DEF HostTracksCommitted
<1> QED
  BY <1>2, <1>5, <1>6, <1>7 DEF HInv

\* Nothing the invariant of the endpoint speaks of changes.
LEMMA EndpointSame ==
  ASSUME IInv, UNCHANGED vars
  PROVE  /\ IInv'
         /\ UNCHANGED <<state, staged, committed, state_valid, tx>>
<1>1. UNCHANGED <<state, profile, committed, state_valid, retire_seq, service_seq,
                  last_status, last_fault, staged, tx>>
  BY DEF vars
<1> QED
  BY <1>1, NextInv DEF vars

\* _prepare packs the current slot, or refuses it with nothing held.
LEMMA PrepareInv ==
  ASSUME HInv, Prepare
  PROVE  HInv'
<1> DEFINE prepared == prepare(CurrentSlot, At', cells)
<1>1. /\ phase = "ready" /\ pc < HaltPc /\ txn_id < MaxTxn /\ txn_id' = txn_id + 1
      /\ UNCHANGED <<vars, program, cells, deferred, pc, fp, result, outstanding>>
  BY DEF Prepare, memVars, adapterVars
<1>2. At' = [txn_id |-> txn_id', pc |-> pc, fp |-> fp, profile |-> HostProfile]
  BY <1>1 DEF At
<1>3. \/ /\ prepared.refused = "no"
         /\ job' = [request |-> prepared.request, addresses |-> prepared.addresses]
         /\ phase' = "requested" /\ wire' = TRUE /\ ended' = ended
      \/ /\ prepared.refused # "no"
         /\ ended' = "fault" /\ UNCHANGED <<job, phase, wire>>
  <2> DEFINE at == [txn_id |-> txn_id', pc |-> pc, fp |-> fp, profile |-> HostProfile]
             packed == prepare(program.operations[pc + 1], at, cells)
  <2>1. packed = prepared
    BY <1>2, Zenon DEF CurrentSlot
  <2>2. \/ /\ packed.refused = "no"
           /\ job' = [request |-> packed.request, addresses |-> packed.addresses]
           /\ phase' = "requested" /\ wire' = TRUE /\ UNCHANGED ended
        \/ /\ packed.refused # "no"
           /\ ended' = "fault" /\ UNCHANGED <<job, phase, wire>>
    BY Zenon DEF Prepare
  <2> HIDE DEF packed, prepared
  <2> QED
    BY <2>1, <2>2
<1>4. /\ CurrentSlot' = CurrentSlot /\ HaltPc' = HaltPc
      /\ prepare(CurrentSlot, At, cells)' = prepared
      /\ prepare(CurrentSlot, At, cells).refused = prepared.refused
      /\ HostState' = HostState
  <2>1. CurrentSlot' = CurrentSlot /\ HaltPc' = HaltPc /\ cells' = cells
        /\ HostState' = HostState
    BY <1>1 DEF CurrentSlot, HaltPc, HostState
  <2>2. At.fp = At'.fp
    BY <1>1 DEF At
  <2> QED
    BY <2>1, <2>2, RefusalIsStable, Zenon
<1> HIDE DEF prepared
<1>5. IInv' /\ UNCHANGED <<state, staged, committed, state_valid, tx>>
  BY <1>1, EndpointSame DEF HInv
<1>6. state # "idle" \/ outstanding # None => prepared.refused = "no"
  BY <1>4, Zenon DEF HInv, HeldIsCurrent, Prepares
<1>7. tx = None
  BY <1>1 DEF HInv, LaneIsHalfDuplex
<1>8. Prepares' <=> prepared.refused = "no"
  BY <1>1, <1>4 DEF Prepares
<1>9. HostTypes' /\ LaneIsHalfDuplex'
  BY <1>1, <1>3, <1>5, <1>7, HostAssumption DEF HInv, HostTypes, Phase, LaneIsHalfDuplex
<1>10. JobIsPrepared'
  <2>1. CASE phase' = "requested"
    BY <1>1, <1>3, <1>4, <1>8, <2>1 DEF JobIsPrepared
  <2>2. CASE phase' = "ready"
    BY <2>2 DEF JobIsPrepared, Exchanging
  <2> QED
    BY <1>1, <1>3, <2>1, <2>2
<1>11. HeldIsCurrent'
  BY <1>1, <1>4, <1>5, <1>6, <1>8 DEF HInv, HeldIsCurrent
<1>12. BindingIsExplained'
  BY <1>1, <1>3 DEF HInv, BindingIsExplained
<1>13. /\ NegotiatingIsFresh' /\ RepliesAreTrue' /\ AnswerIsDigest'
       /\ RetiringIsStaged' /\ RetiredIsApplicable'
  BY <1>1, <1>3, <1>5, <1>7
  DEF NegotiatingIsFresh, RepliesAreTrue, AnswerIsDigest, RetiringIsStaged,
      RetiredIsApplicable
<1>14. HostTracksCommitted' /\ ReturnLeavesNothingStaged'
  BY <1>1, <1>3, <1>4, <1>5, <1>6
  DEF HInv, HostTracksCommitted, ReturnLeavesNothingStaged
<1> QED
  BY <1>5, <1>9, <1>10, <1>11, <1>12, <1>13, <1>14 DEF HInv

\* The run ends where nothing is held.
LEMMA HaltInv ==
  ASSUME HInv, Halt
  PROVE  HInv'
<1>1. /\ phase = "ready" /\ pc >= HaltPc /\ phase' = "closed"
      /\ ended' \in {"raised", "halted", "fault"}
      /\ UNCHANGED <<vars, program, cells, deferred, pc, fp, txn_id, wire, job, result,
                     outstanding>>
  BY DEF Halt, memVars, adapterVars
<1>2. IInv' /\ UNCHANGED <<state, staged, committed, state_valid, tx>>
  BY <1>1, EndpointSame DEF HInv
<1>3. ~(pc < HaltPc)
  <2>1. pc \in Nat /\ HaltPc \in Int
    BY ProgramAssumption DEF HInv, HostTypes, HaltPc, IsProgram
  <2> QED
    BY <1>1, <2>1
<1>4. state = "idle" /\ outstanding = None
  BY <1>3 DEF HInv, HeldIsCurrent, Prepares
<1>5. HostTypes' /\ LaneIsHalfDuplex'
  BY <1>1, <1>2 DEF HInv, HostTypes, Phase, LaneIsHalfDuplex
<1>6. /\ JobIsPrepared' /\ HeldIsCurrent' /\ BindingIsExplained'
      /\ NegotiatingIsFresh' /\ RepliesAreTrue' /\ AnswerIsDigest'
      /\ RetiringIsStaged' /\ RetiredIsApplicable' /\ ReturnLeavesNothingStaged'
  BY <1>1, <1>2, <1>4
  DEF JobIsPrepared, Exchanging, HeldIsCurrent, BindingIsExplained,
      NegotiatingIsFresh, RepliesAreTrue, AnswerIsDigest, RetiringIsStaged,
      RetiredIsApplicable, ReturnLeavesNothingStaged
<1>7. HostTracksCommitted'
  BY <1>1, <1>2 DEF HInv, HostTracksCommitted, HostState
<1> QED
  BY <1>2, <1>5, <1>6, <1>7 DEF HInv

-----------------------------------------------------------------------------
(* SERVICE_REQUIRED, the result and RETIRED                                *)

\* The service has answered: the binding is this step's.
LEMMA AnswerServiceInv ==
  ASSUME HInv, AnswerService
  PROVE  HInv'
<1>1. /\ phase = "requested" /\ IsBlake3 /\ phase' = "answered" /\ wire' = TRUE
      /\ Required.txn_id = txn_id /\ outstanding' = Required
      /\ Compress(Required.operands) \in Word \X Word /\ LaneIdle
      /\ UNCHANGED <<program, cells, deferred, pc, fp, txn_id, job, result, ended>>
  BY DEF AnswerService, ServiceOffered, memVars
<1>2. /\ IInv' /\ tx' = None
      /\ UNCHANGED <<state, staged, profile, committed, state_valid>>
  BY <1>1, LaneIdleInv DEF HInv
<1>3. Exchanging /\ HostTypes /\ JobIsPrepared
  BY <1>1 DEF Exchanging, HInv
<1>4. Prepares /\ CurrentSlot.kind = "Blake3"
  BY <1>1, <1>3, JobIsWellFormed DEF JobFacts, JobIsPrepared
<1>5. /\ Prepares' <=> Prepares
      /\ CurrentSlot' = CurrentSlot
      /\ prepare(CurrentSlot, At, cells)' = prepare(CurrentSlot, At, cells)
  BY <1>1, PreparesSame
<1>6. HostTypes' /\ LaneIsHalfDuplex'
  BY <1>1, <1>2 DEF HInv, HostTypes, Phase, LaneIsHalfDuplex
<1>7. JobIsPrepared'
  BY <1>1, <1>3, <1>5, Zenon DEF JobIsPrepared
<1>8. HeldIsCurrent'
  BY <1>1, <1>2, <1>4, <1>5 DEF HInv, HeldIsCurrent
<1>9. BindingIsExplained' /\ NegotiatingIsFresh' /\ RepliesAreTrue'
      /\ RetiringIsStaged' /\ RetiredIsApplicable' /\ ReturnLeavesNothingStaged'
  BY <1>1, <1>2
  DEF BindingIsExplained, NegotiatingIsFresh, RepliesAreTrue, RetiringIsStaged,
      RetiredIsApplicable, ReturnLeavesNothingStaged
<1>10. AnswerIsDigest'
  BY <1>1, Zenon DEF AnswerIsDigest
<1>11. HostTracksCommitted'
  BY <1>1, <1>2 DEF HInv, HostTracksCommitted, HostState
<1> QED
  BY <1>2, <1>6, <1>7, <1>8, <1>9, <1>10, <1>11 DEF HInv

\* A result the host accepts: it is the one staged, for the host's own state.
LEMMA SendRetireInv ==
  ASSUME HInv, SendRetire
  PROVE  HInv'
<1>1. /\ phase \in {"requested", "answered"} /\ tx # None /\ tx.status = "OK"
      /\ phase = "requested" => ~IsBlake3
      /\ tx.payload.txn_id = txn_id /\ Prevalidates(tx.payload)
      /\ result' = tx.payload /\ phase' = "retiring" /\ wire' = TRUE /\ LaneIdle
      /\ UNCHANGED <<program, cells, deferred, pc, fp, txn_id, job, outstanding, ended>>
  BY DEF SendRetire, ResultArrives, memVars, adapterVars
<1>2. /\ IInv' /\ tx' = None
      /\ UNCHANGED <<state, staged, profile, committed, state_valid>>
  BY <1>1, LaneIdleInv DEF HInv
<1>3. Exchanging /\ HostTypes /\ JobIsPrepared /\ IInv
  BY <1>1 DEF Exchanging, HInv
<1>4. /\ state = "result_pending" /\ tx.payload = result_payload(staged)
      /\ tx.payload \in Result /\ staged.result_crc = Crc(tx.payload)
  BY <1>1, <1>3 DEF HInv, RepliesAreTrue
<1>5. /\ Prepares' <=> Prepares
      /\ CurrentSlot' = CurrentSlot
      /\ prepare(CurrentSlot, At, cells)' = prepare(CurrentSlot, At, cells)
  BY <1>1, PreparesSame
<1>6. HostTypes' /\ LaneIsHalfDuplex'
  BY <1>1, <1>2 DEF HInv, HostTypes, Phase, LaneIsHalfDuplex
<1>7. JobIsPrepared'
  BY <1>1, <1>3, <1>5, Zenon DEF JobIsPrepared
<1>8. HeldIsCurrent'
  BY <1>1, <1>2, <1>5 DEF HInv, HeldIsCurrent
<1>9. BindingIsExplained'
  <2>1. outstanding # None => outstanding.txn_id = txn_id
    <3>1. CASE phase = "answered"
      BY <3>1 DEF HInv, BindingIsExplained
    <3>2. CASE phase = "requested"
      <4>1. CurrentSlot.kind # "Blake3"
        BY <1>1, <1>3, <3>2, JobIsWellFormed DEF JobFacts
      <4> QED
        BY <4>1 DEF HInv, HeldIsCurrent
    <3> QED
      BY <1>1, <3>1, <3>2
  <2> QED
    BY <1>1, <2>1 DEF BindingIsExplained
<1>10. /\ NegotiatingIsFresh' /\ RepliesAreTrue' /\ AnswerIsDigest'
       /\ ReturnLeavesNothingStaged'
  BY <1>1, <1>2
  DEF NegotiatingIsFresh, RepliesAreTrue, AnswerIsDigest, ReturnLeavesNothingStaged
<1>11. RetiringIsStaged'
  BY <1>1, <1>2, <1>4, Zenon DEF RetiringIsStaged, result_payload
<1>12. RetiredIsApplicable'
  <2>1. Settled(result)' = Settled(tx.payload)
    BY <1>1, Zenon DEF Settled
  <2>2. Settled(tx.payload).ok
    BY <1>1, Zenon DEF Prevalidates
  <2> QED
    BY <2>1, <2>2, Zenon DEF RetiredIsApplicable
<1>13. HostTracksCommitted'
  <2>1. state_valid => committed = HostState
    <3>1. state_valid => staged.pc = committed.pc /\ staged.fp = committed.fp
      BY <1>3, <1>4 DEF IInv, StagedContinuesCommitted
    <3>2. staged.pc = pc /\ staged.fp = fp
      BY <1>4 DEF HInv, HeldIsCurrent
    <3>3. committed \in ScalarState
      BY <1>3 DEF IInv, TypeOK
    <3> QED
      BY <3>1, <3>2, <3>3 DEF ScalarState, HostState
  <2> QED
    BY <1>1, <1>2, <2>1 DEF HostTracksCommitted, HostState
<1> QED
  BY <1>2, <1>6, <1>7, <1>8, <1>9, <1>10, <1>11, <1>12, <1>13 DEF HInv

\* What applying a result leaves is a memory that keeps what it held, and no
\* equality is lost when it can be applied.
LEMMA SettledType ==
  ASSUME HostTypes, NEW res \in Result
  PROVE  /\ Settled(res).cells \in Memory /\ Settled(res).still_open \in Seq(Equality)
         /\ Keeps(cells, Settled(res).cells)
         /\ Accounts(deferred \o res.deferred, Settled(res))
<1> DEFINE applied == apply_writes(cells, res.writes)
           pending == deferred \o res.deferred
           settled == resolve_deferred(applied.cells, pending)
           both == settled.ok /\ applied.ok
<1>1. res.writes \in Seq(Write) /\ res.deferred \in Seq(Equality)
  BY DEF Result, Write, Equality
<1>2. applied.cells \in Memory /\ Keeps(cells, applied.cells)
  BY <1>1, ApplyWritesType DEF HostTypes, Applied
<1>3. pending \in Seq(Equality)
  BY <1>1, ConcatType DEF HostTypes
<1>4. /\ settled \in Resolved /\ Keeps(applied.cells, settled.cells)
      /\ Accounts(pending, settled)
  BY <1>2, <1>3, ResolveDeferredType DEF Resolving
<1>5. both => settled.ok
  BY Zenon
<1>6. Settled(res) = [settled EXCEPT !.ok = both]
  BY Zenon DEF Settled
<1> HIDE DEF applied, settled, both, pending
<1>7. /\ Settled(res).cells = settled.cells /\ Settled(res).ok = both
      /\ Settled(res).still_open = settled.still_open
      /\ settled.cells \in Memory /\ settled.still_open \in Seq(Equality)
  BY <1>4, <1>6 DEF Resolved
<1>8. Keeps(cells, settled.cells)
  BY <1>2, <1>4, KeepsOn
<1>9. Accounts(pending, Settled(res))
  BY <1>4, <1>5, <1>7, Zenon DEF Accounts
<1> QED
  BY <1>7, <1>8, <1>9 DEF pending

\* RETIRED: the batch is applied and the host is where the endpoint is, or
\* the step raises with nothing applied.
LEMMA ApplyInv ==
  ASSUME HInv, Apply
  PROVE  HInv'
<1> DEFINE Acknowledged ==
             /\ tx.txn_id = txn_id
             /\ tx.payload.committed = [pc |-> result.next_pc, fp |-> result.next_fp]
             /\ Settled(result).ok
<1>1. /\ phase = "retiring" /\ tx # None /\ tx.status = "RETIRED" /\ LaneIdle
      /\ phase' = "ready" /\ wire' = FALSE
      /\ UNCHANGED <<program, txn_id, job, result>>
  BY DEF Apply
<1>2. Exchanging /\ HostTypes /\ IInv
  BY <1>1 DEF Exchanging, HInv
<1>3. state = "idle" /\ tx.payload.committed = committed
  BY <1>1, <1>2 DEF HInv, RepliesAreTrue
<1>4. /\ IInv' /\ tx' = None
      /\ UNCHANGED <<state, staged, profile, committed, state_valid>>
  BY <1>1, <1>2, LaneIdleInv
<1>5. CASE ~Acknowledged
  <2>1. ended' = "raised" /\ UNCHANGED <<memVars, pc, fp, adapterVars>>
    BY <1>5, Zenon DEF Apply
  <2>2. Return("raised")
    BY <1>1, <2>1 DEF Return
  <2>3. outstanding' = outstanding
    BY <2>1 DEF adapterVars
  <2> QED
    BY <1>1, <1>2, <1>4, <2>2, <2>3, ReturnInv
<1>6. CASE Acknowledged
  <2>1. /\ cells' = Settled(result).cells /\ deferred' = Settled(result).still_open
        /\ Advance /\ ended' = "ok"
        /\ IF Serviced THEN outstanding' = None ELSE UNCHANGED adapterVars
    BY <1>6, Zenon DEF Apply
  <2>2. pc' = result.next_pc /\ fp' = result.next_fp
    BY <2>1 DEF Advance
  <2>3. result \in Result
    BY <1>1 DEF HInv, RetiringIsStaged
  <2>4. cells' \in Memory /\ deferred' \in Seq(Equality)
    BY <1>2, <2>1, <2>3, SettledType
  <2>5. pc' \in Nat /\ fp' \in Nat
    BY <2>2, <2>3 DEF Result
  <2>6. outstanding' = None
    <3>1. Serviced \/ outstanding = None
      BY <1>1 DEF HInv, BindingIsExplained, Serviced
    <3> QED
      BY <2>1, <3>1 DEF adapterVars
  <2>7. HostTypes' /\ LaneIsHalfDuplex'
    BY <1>1, <1>2, <1>4, <2>1, <2>4, <2>5 DEF HostTypes, Phase, LaneIsHalfDuplex
  <2>8. /\ JobIsPrepared' /\ HeldIsCurrent' /\ BindingIsExplained'
        /\ NegotiatingIsFresh' /\ RepliesAreTrue' /\ AnswerIsDigest'
        /\ RetiringIsStaged' /\ RetiredIsApplicable' /\ ReturnLeavesNothingStaged'
    BY <1>1, <1>3, <1>4, <2>6
    DEF JobIsPrepared, Exchanging, HeldIsCurrent, BindingIsExplained,
        NegotiatingIsFresh, RepliesAreTrue, AnswerIsDigest, RetiringIsStaged,
        RetiredIsApplicable, ReturnLeavesNothingStaged
  <2>9. HostTracksCommitted'
    BY <1>3, <1>4, <1>6, <2>2 DEF HostTracksCommitted, HostState
  <2> QED
    BY <1>4, <2>7, <2>8, <2>9 DEF HInv
<1> QED
  BY <1>5, <1>6

-----------------------------------------------------------------------------
(* Frames that reach the endpoint                                          *)

\* The frame of the exchange is taken off the lane; the host waits.
FrameArrives ==
    /\ wire
    /\ wire' = FALSE
    /\ UNCHANGED <<program, cells, deferred, pc, fp, txn_id, phase, job, result,
                   outstanding, ended>>

\* What the endpoint makes of a frame has to be shown only of the parts that
\* speak of the endpoint.
LEMMA FrameArrivesInv ==
  ASSUME HInv, FrameArrives, IInv', HeldIsCurrent', NegotiatingIsFresh',
         RepliesAreTrue', RetiringIsStaged', HostTracksCommitted'
  PROVE  HInv'
<1>1. /\ wire /\ wire' = FALSE
      /\ UNCHANGED <<program, cells, deferred, pc, fp, txn_id, phase, job, result,
                     outstanding, ended>>
  BY DEF FrameArrives
<1>2. phase \notin {"ready", "closed"}
  BY <1>1 DEF HInv, LaneIsHalfDuplex
<1>3. HostTypes' /\ LaneIsHalfDuplex' /\ BindingIsExplained'
      /\ ReturnLeavesNothingStaged'
  BY <1>1, <1>2
  DEF HInv, HostTypes, LaneIsHalfDuplex, BindingIsExplained, ReturnLeavesNothingStaged
<1>4. JobIsPrepared'
  <2>1. /\ Prepares' <=> Prepares
        /\ CurrentSlot' = CurrentSlot
        /\ prepare(CurrentSlot, At, cells)' = prepare(CurrentSlot, At, cells)
    BY <1>1, PreparesSame
  <2> QED
    BY <1>1, <2>1, Zenon DEF HInv, JobIsPrepared, Exchanging
<1>5. AnswerIsDigest'
  BY <1>1, Zenon DEF HInv, AnswerIsDigest
<1>6. RetiredIsApplicable'
  <2>1. Settled(result)' = Settled(result)
    BY <1>1, Zenon DEF Settled
  <2> QED
    BY <1>1, <2>1, Zenon DEF HInv, RetiredIsApplicable
<1> QED
  BY <1>3, <1>4, <1>5, <1>6 DEF HInv

\* What the host would prepare and where it stands, across a frame.
LEMMA FrameArrivesSame ==
  ASSUME FrameArrives
  PROVE  /\ Prepares' <=> Prepares
         /\ CurrentSlot' = CurrentSlot
         /\ HostState' = HostState
         /\ UNCHANGED <<phase, pc, fp, txn_id, result, outstanding, ended>>
<1>1. UNCHANGED <<program, cells, phase, pc, fp, txn_id, result, outstanding, ended>>
  BY DEF FrameArrives
<1> QED
  BY <1>1, PreparesSame DEF HostState

\* A frame the endpoint refuses leaves everything as it was; the host takes
\* the fault for the end of the step only if nothing is held.
LEMMA RefusedFrameInv ==
  ASSUME HInv, FrameArrives, NEW status \in FaultStatus, NEW id,
         RejectFrame(status, id), status \in FRAME_ONLY_FAULTS \/ state = "idle"
  PROVE  HInv'
<1>1. IInv'
  BY RejectInv DEF HInv
<1>2. /\ tx'.status = status /\ status # "OK" /\ status # "RETIRED"
      /\ UNCHANGED <<state, staged, committed, state_valid>>
  BY DEF RejectFrame, Emit, Response, FaultStatus, commitVars
<1>3. /\ Prepares' <=> Prepares
      /\ CurrentSlot' = CurrentSlot /\ HostState' = HostState
      /\ UNCHANGED <<phase, pc, fp, txn_id, result, outstanding, ended>>
  BY FrameArrivesSame
<1>4. HeldIsCurrent' /\ NegotiatingIsFresh' /\ HostTracksCommitted'
  BY <1>2, <1>3 DEF HInv, HeldIsCurrent, NegotiatingIsFresh, HostTracksCommitted
<1>5. RepliesAreTrue'
  BY <1>2, <1>3 DEF RepliesAreTrue
<1>6. RetiringIsStaged'
  BY <1>2, <1>3, Zenon DEF HInv, RetiringIsStaged, result_payload
<1> QED
  BY <1>1, <1>4, <1>5, <1>6, FrameArrivesInv

\* A transition the endpoint abandons while the host waits for its answer.
LEMMA DiscardedInv ==
  ASSUME HInv, FrameArrives, NEW status \in FaultStatus, NEW id, Discard,
         Emit(status, id, <<>>), UNCHANGED <<profile, commitVars, service_seq>>,
         phase # "negotiating"
  PROVE  HInv'
<1>1. IInv'
  BY DiscardInv DEF HInv
<1>2. /\ tx'.status = status /\ status # "OK" /\ status # "RETIRED"
      /\ state' = "idle" /\ UNCHANGED <<committed, state_valid>>
  BY DEF Discard, Emit, Response, FaultStatus, commitVars
<1>3. /\ Prepares' <=> Prepares
      /\ CurrentSlot' = CurrentSlot /\ HostState' = HostState
      /\ UNCHANGED <<phase, pc, fp, txn_id, result, outstanding, ended>>
  BY FrameArrivesSame
<1>4. HeldIsCurrent' /\ NegotiatingIsFresh' /\ HostTracksCommitted'
  BY <1>2, <1>3 DEF HInv, HeldIsCurrent, NegotiatingIsFresh, HostTracksCommitted
<1>5. RepliesAreTrue' /\ RetiringIsStaged'
  BY <1>2, <1>3 DEF HInv, RepliesAreTrue, RetiringIsStaged
<1> QED
  BY <1>1, <1>4, <1>5, FrameArrivesInv

\* _finish_transaction offers the payload of what it stages, with its CRC.
LEMMA Finished ==
  ASSUME NEW t, IsTxn(t), FinishTransaction(t)
  PROVE  /\ state' = "result_pending"
         /\ tx'.status = "OK"
         /\ tx'.payload = result_payload(t)
         /\ result_payload(staged') = result_payload(t)
         /\ staged'.result_crc = Crc(result_payload(t))
         /\ staged'.pc = t.pc /\ staged'.fp = t.fp
<1> DEFINE payload == result_payload(t)
<1>1. staged' = [txn_id |-> t.txn_id, profile |-> t.profile, pc |-> t.pc,
                 fp |-> t.fp, next_pc |-> t.next_pc, next_fp |-> t.next_fp,
                 writes |-> t.writes, deferred |-> t.deferred,
                 accesses |-> t.accesses, service_id |-> t.service_id,
                 frame |-> t.frame, result_crc |-> Crc(payload)]
  BY DEF FinishTransaction, IsTxn
<1>2. result_payload(staged') = payload
  BY <1>1 DEF result_payload
<1>3. /\ state' = "result_pending"
      /\ tx' = [status |-> "OK", txn_id |-> t.txn_id, payload |-> payload]
  BY DEF FinishTransaction, Emit, Response
<1> HIDE DEF payload
<1>4. tx'.status = "OK" /\ tx'.payload = payload
  BY <1>3
<1>5. staged'.pc = t.pc /\ staged'.fp = t.fp /\ staged'.result_crc = Crc(payload)
  BY <1>1
<1> QED
  BY <1>2, <1>3, <1>4, <1>5 DEF payload

\* A result offered to a host that waits for one.
LEMMA OfferedInv ==
  ASSUME HInv, FrameArrives, IInv', phase \in {"requested", "answered"},
         UNCHANGED <<committed, state_valid>>,
         NEW t, IsTxn(t), FinishTransaction(t), result_payload(t) \in Result,
         t.pc = pc, t.fp = fp
  PROVE  HInv'
<1>1. /\ state' = "result_pending" /\ tx'.status = "OK"
      /\ tx'.payload = result_payload(t)
      /\ result_payload(staged') = result_payload(t)
      /\ staged'.result_crc = Crc(result_payload(t))
      /\ staged'.pc = pc /\ staged'.fp = fp
  BY Finished
<1>2. /\ Prepares' <=> Prepares
      /\ CurrentSlot' = CurrentSlot /\ HostState' = HostState
      /\ UNCHANGED <<phase, pc, fp, txn_id, result, outstanding, ended>>
  BY FrameArrivesSame
<1>3. Prepares
  BY DEF HInv, JobIsPrepared, Exchanging
<1>4. HeldIsCurrent' /\ NegotiatingIsFresh' /\ HostTracksCommitted'
      /\ RetiringIsStaged'
  BY <1>1, <1>2, <1>3
  DEF HInv, HeldIsCurrent, NegotiatingIsFresh, HostTracksCommitted, RetiringIsStaged
<1>5. RepliesAreTrue'
  <2>1. tx'.status \notin FaultStatus
    BY <1>1 DEF FaultStatus
  <2>2. result_payload(staged)' = result_payload(staged')
    BY Zenon DEF result_payload
  <2> QED
    BY <1>1, <1>2, <2>1, <2>2, Zenon DEF RepliesAreTrue
<1> QED
  BY <1>4, <1>5, FrameArrivesInv

\* NEGOTIATE is accepted.
LEMMA DeliverNegotiateInv ==
  ASSUME HInv, FrameArrives, DeliverNegotiate
  PROVE  HInv'
<1>1. phase = "negotiating" /\ handle_negotiate(HostProfile)
  BY DEF DeliverNegotiate
<1>2. IInv'
  BY <1>1, NegotiateInv, HostAssumption DEF HInv
<1>3. UNCHANGED <<state, staged, committed, state_valid>>
  BY <1>1 DEF handle_negotiate, txnVars, commitVars
<1>4. /\ Prepares' <=> Prepares
      /\ CurrentSlot' = CurrentSlot /\ HostState' = HostState
      /\ UNCHANGED <<phase, pc, fp, txn_id, result, outstanding, ended>>
  BY FrameArrivesSame
<1>5. /\ HeldIsCurrent' /\ NegotiatingIsFresh' /\ HostTracksCommitted'
      /\ RepliesAreTrue' /\ RetiringIsStaged'
  BY <1>1, <1>3, <1>4
  DEF HInv, HeldIsCurrent, NegotiatingIsFresh, HostTracksCommitted, RepliesAreTrue,
      RetiringIsStaged, Exchanging
<1> QED
  BY <1>2, <1>5, FrameArrivesInv

\* The instruction is refused by a guard or by its transition rule.
LEMMA DeliverRejectionInv ==
  ASSUME HInv, FrameArrives, phase = "requested", RejectInstruction(job.request)
  PROVE  HInv'
<1> DEFINE request == job.request
<1>1. IInv /\ JobFacts
  BY JobIsWellFormed DEF HInv, Exchanging
<1>2. CASE GuardFault(request) # "OK"
  <2>1. GuardFault(request) \in FaultStatus
    BY <1>2, GuardFaults
  <2>2. GuardFault(request) = "BAD_STATE" \/ state = "idle"
    BY Zenon DEF GuardFault
  <2>3. RejectFrame(GuardFault(request), request.txn_id)
    BY <1>2, Zenon DEF RejectInstruction
  <2> QED
    BY <2>1, <2>2, <2>3, RefusedFrameInv DEF FRAME_ONLY_FAULTS
<1>3. CASE GuardFault(request) = "OK"
  <2>1. state = "idle"
    BY <1>1, <1>3, GuardsPassed DEF JobFacts
  <2>2. /\ execute(request).status \in FaultStatus
        /\ RejectFrame(execute(request).status, request.txn_id)
    BY <1>3, Zenon DEF RejectInstruction
  <2> QED
    BY <2>1, <2>2, RefusedFrameInv
<1> QED
  BY <1>2, <1>3

\* What the request in flight decides, if it decides anything.
LEMMA JobOutcome ==
  ASSUME HInv, phase = "requested", GuardFault(job.request) = "OK"
  PROVE  LET request == job.request
             outcome == execute(request)
         IN  /\ request.txn_id \in Nat /\ request.pc = pc /\ request.fp = fp
             /\ outcome.status \notin FaultStatus =>
                   outcome.next_pc \in Nat /\ outcome.next_fp \in Nat
             /\ Effects(outcome)
<1> DEFINE request == job.request
<1>1. IInv /\ JobFacts /\ txn_id \in Nat
  BY JobIsWellFormed DEF HInv, Exchanging, HostTypes
<1>2. IsRequest(request) /\ InRange(request)
  BY <1>1, GuardsPassed DEF JobFacts
<1>3. Outcome(execute(request)) /\ Effects(execute(request))
  BY <1>1, <1>2, ExecuteOutcome, ExecuteEffects DEF JobFacts
<1>4. \A i \in 0..INDEX_LIMIT : i \in Nat
  BY U32Assumption
<1>5. \A i \in 0..(INDEX_LIMIT - 1) : i \in Nat
  BY U32Assumption
<1> QED
  BY <1>1, <1>3, <1>4, <1>5, Zenon DEF Outcome, JobFacts

\* The payload of a transaction with these fields decodes to a result.
LEMMA PayloadIsResult ==
  ASSUME NEW t, t.txn_id \in Nat, t.next_pc \in Nat, t.next_fp \in Nat,
         t.writes \in Seq(Write), t.deferred \in Seq(Equality),
         t.accesses \in Seq(Address)
  PROVE  result_payload(t) \in Result
  BY DEF result_payload, Result, Write, Equality

\* The instruction is decided.
LEMMA DeliverDecisionInv ==
  ASSUME HInv, FrameArrives, phase = "requested", DecideInstruction(job.request)
  PROVE  HInv'
<1> DEFINE request == job.request
           outcome == execute(request)
           t == [txn_id |-> request.txn_id, profile |-> request.profile,
                 pc |-> request.pc, fp |-> request.fp,
                 next_pc |-> outcome.next_pc, next_fp |-> outcome.next_fp,
                 writes |-> outcome.writes, deferred |-> outcome.deferred,
                 accesses |-> outcome.accesses, service_id |-> 0,
                 frame |-> <<>>, result_crc |-> None]
<1>1. /\ GuardFault(request) = "OK" /\ outcome.status = "OK" /\ FinishTransaction(t)
      /\ UNCHANGED <<profile, commitVars, service_seq>>
  BY Zenon DEF DecideInstruction
<1>2. IInv'
  BY DecideInv, JobIsWellFormed DEF HInv, JobFacts, Exchanging
<1>3. /\ request.txn_id \in Nat /\ request.pc = pc /\ request.fp = fp
      /\ outcome.status \notin FaultStatus =>
            outcome.next_pc \in Nat /\ outcome.next_fp \in Nat
      /\ Effects(outcome)
  BY <1>1, JobOutcome, Zenon
<1> HIDE DEF request, outcome
<1>4. /\ outcome.next_pc \in Nat /\ outcome.next_fp \in Nat
      /\ outcome.writes \in Seq(Write) /\ outcome.deferred \in Seq(Equality)
      /\ outcome.accesses \in Seq(Address)
  BY <1>1, <1>3 DEF Effects, FaultStatus
<1>5. /\ t.txn_id = request.txn_id /\ t.pc = request.pc /\ t.fp = request.fp
      /\ t.next_pc = outcome.next_pc /\ t.next_fp = outcome.next_fp
      /\ t.writes = outcome.writes /\ t.deferred = outcome.deferred
      /\ t.accesses = outcome.accesses
      /\ IsTxn(t)
  BY DEF IsTxn
<1>6. UNCHANGED <<committed, state_valid>>
  BY <1>1 DEF commitVars
<1> HIDE DEF t
<1>7. result_payload(t) \in Result
  BY <1>3, <1>4, <1>5, PayloadIsResult
<1> QED
  BY <1>1, <1>2, <1>3, <1>5, <1>6, <1>7, OfferedInv

\* BLAKE3_REQUEST suspends.
LEMMA DeliverSuspensionInv ==
  ASSUME HInv, FrameArrives, phase = "requested", SuspendInstruction(job.request)
  PROVE  HInv'
<1> DEFINE request == job.request
           outcome == execute(request)
<1>1. /\ GuardFault(request) = "OK" /\ outcome.status = "SERVICE_REQUIRED"
      /\ staged' = [txn_id |-> request.txn_id, profile |-> request.profile,
                    pc |-> request.pc, fp |-> request.fp,
                    next_pc |-> outcome.next_pc, next_fp |-> outcome.next_fp,
                    writes |-> <<>>, deferred |-> <<>>,
                    accesses |-> outcome.accesses,
                    service_id |-> service_seq + 1,
                    frame |-> outcome.frame, result_crc |-> None]
      /\ Emit("SERVICE_REQUIRED", request.txn_id,
              [service_id |-> service_seq + 1, operands |-> outcome.operands])
      /\ state' = "service_pending"
      /\ UNCHANGED <<profile, commitVars>>
  BY Zenon DEF SuspendInstruction
<1>2. JobFacts /\ Prepares
  BY JobIsWellFormed DEF HInv, Exchanging, JobIsPrepared
<1>3. IInv'
  BY <1>2, SuspendInv DEF HInv, JobFacts
<1>4. /\ request.txn_id \in Nat /\ request.pc = pc /\ request.fp = fp
      /\ Effects(outcome)
  BY <1>1, JobOutcome, Zenon
<1>5. CurrentSlot.kind = "Blake3"
  BY <1>1, <1>2, SuspendsIsBlake3 DEF JobFacts, IsBlake3
<1>6. tx'.status = "SERVICE_REQUIRED" /\ UNCHANGED <<committed, state_valid>>
  BY <1>1 DEF Emit, Response, commitVars
<1> HIDE DEF request, outcome
<1>7. outcome.accesses \in Seq(Address) /\ Len(outcome.accesses) >= 2
  BY <1>1, <1>4 DEF Effects
<1>8. /\ staged'.txn_id \in Nat /\ staged'.pc = pc /\ staged'.fp = fp
      /\ staged'.deferred = <<>> /\ staged'.accesses = outcome.accesses
  BY <1>1, <1>4
<1>9. /\ Prepares' <=> Prepares
      /\ CurrentSlot' = CurrentSlot /\ HostState' = HostState
      /\ UNCHANGED <<phase, pc, fp, txn_id, result, outstanding, ended>>
  BY FrameArrivesSame
<1>10. HeldIsCurrent'
  <2>1. outstanding' # None => Prepares' /\ CurrentSlot'.kind = "Blake3"
    BY <1>9 DEF HInv, HeldIsCurrent
  <2> QED
    BY <1>1, <1>2, <1>5, <1>7, <1>8, <1>9, <2>1, Zenon DEF HeldIsCurrent
<1>11. NegotiatingIsFresh' /\ HostTracksCommitted' /\ RetiringIsStaged'
  BY <1>6, <1>9 DEF HInv, NegotiatingIsFresh, HostTracksCommitted, RetiringIsStaged
<1>12. RepliesAreTrue'
  BY <1>6 DEF RepliesAreTrue, FaultStatus
<1> QED
  BY <1>3, <1>10, <1>11, <1>12, FrameArrivesInv

\* The digest completes the suspended transition, conflicts with it, or is
\* refused.
LEMMA DeliverServiceResponseInv ==
  ASSUME HInv, FrameArrives, DeliverServiceResponse
  PROVE  HInv'
<1> DEFINE id == outstanding.txn_id
           key == outstanding.service_id
           digest == Compress(outstanding.operands)
<1>1. /\ phase = "answered"
      /\ \/ RejectServiceResponse(id, key, TRUE)
         \/ handle_service_response(id, key, digest)
  BY Zenon DEF DeliverServiceResponse
<1>2. IInv /\ digest \in Word \X Word
  BY <1>1 DEF HInv, AnswerIsDigest
<1> HIDE DEF id, key, digest
<1>3. CASE RejectServiceResponse(id, key, TRUE)
  <2>1. ServiceFault(id, key, TRUE) # "OK" /\ RejectFrame(ServiceFault(id, key, TRUE), id)
    BY <1>3, Zenon DEF RejectServiceResponse
  <2>2. ServiceFault(id, key, TRUE) \in {"BAD_STATE", "BAD_SERVICE"}
    BY <2>1, Zenon DEF ServiceFault
  <2>3. ServiceFault(id, key, TRUE) \in FaultStatus \cap FRAME_ONLY_FAULTS
    BY <2>2 DEF FaultStatus, FRAME_ONLY_FAULTS
  <2> QED
    BY <2>1, <2>3, RefusedFrameInv
<1>4. CASE handle_service_response(id, key, digest)
  <2> DEFINE resumed == resume_blake3(staged.frame, staged.accesses, digest)
             t == Filled(staged, resumed.writes)
  <2>1. /\ ServiceFault(id, key, TRUE) = "OK"
        /\ \/ resumed.status = "OK" /\ FinishTransaction(t)
           \/ resumed.status # "OK" /\ Discard /\ Emit(resumed.status, id, <<>>)
        /\ UNCHANGED <<profile, commitVars, service_seq>>
    BY <1>4, Zenon DEF handle_service_response, Filled
  <2>2. state = "service_pending"
    BY <2>1, Zenon DEF ServiceFault
  <2>3. resumed.status \in {"OK", "WRITE_CONFLICT"}
    BY ResumedStatus, Zenon
  <2>4. CASE resumed.status = "OK"
    <3>1. IInv'
      BY <1>2, <1>4, ServiceResponseInv
    <3>2. /\ staged.pc = pc /\ staged.fp = fp /\ staged.txn_id \in Nat
          /\ staged.deferred = <<>> /\ staged.accesses \in Seq(Address)
          /\ Len(staged.accesses) >= 2
      BY <2>2 DEF HInv, HeldIsCurrent
    <3>3. IsTxn(staged) /\ staged.next_pc \in Nat /\ staged.next_fp \in Nat
      BY <1>2, <2>2, U32Assumption DEF IInv, StagedInIndexSpace
    <3>4. digest[1] \in Word /\ digest[2] \in Word
      BY <1>2
    <3>5. resumed.writes \in Seq(Write)
      BY <2>4, <3>2, <3>4, ResumeType, Zenon
    <3>6. t = Filled(staged, resumed.writes) /\ FinishTransaction(t)
      BY <2>1, <2>4
    <3>7. UNCHANGED <<committed, state_valid>>
      BY <2>1 DEF commitVars
    <3>8. <<>> \in Seq(Equality)
      OBVIOUS
    <3> HIDE DEF t, resumed
    <3>9. /\ IsTxn(t) /\ t.pc = staged.pc /\ t.fp = staged.fp
          /\ t.next_pc = staged.next_pc /\ t.next_fp = staged.next_fp
          /\ t.txn_id = staged.txn_id /\ t.writes = resumed.writes
          /\ t.deferred = staged.deferred /\ t.accesses = staged.accesses
      BY <3>3, <3>6, ResumedTxn
    <3>10. result_payload(t) \in Result
      BY <3>2, <3>3, <3>5, <3>8, <3>9, PayloadIsResult
    <3> QED
      BY <1>1, <3>1, <3>2, <3>6, <3>7, <3>9, <3>10, OfferedInv
  <2>5. CASE resumed.status = "WRITE_CONFLICT"
    <3>1. resumed.status \in FaultStatus /\ resumed.status # "OK"
      BY <2>5, RuleFaults
    <3> QED
      BY <1>1, <2>1, <3>1, DiscardedInv
  <2> QED
    BY <2>3, <2>4, <2>5
<1> QED
  BY <1>1, <1>3, <1>4

\* RETIRE commits the result the host holds, or finds nothing to commit.
LEMMA DeliverRetireInv ==
  ASSUME HInv, FrameArrives, DeliverRetire
  PROVE  HInv'
<1>1. phase = "retiring" /\ IInv
  BY DEF DeliverRetire, HInv
<1>2. CASE RejectRetire(result.txn_id)
  <2>1. RejectFrame("BAD_STATE", result.txn_id)
    BY <1>2 DEF RejectRetire
  <2>2. "BAD_STATE" \in FaultStatus \cap FRAME_ONLY_FAULTS
    BY DEF FaultStatus, FRAME_ONLY_FAULTS
  <2> QED
    BY <2>1, <2>2, RefusedFrameInv
<1>3. CASE handle_retire(result.txn_id, RetireCrc)
  <2>1. /\ state = "result_pending" /\ state' = "idle"
        /\ committed' = [pc |-> staged.next_pc, fp |-> staged.next_fp]
        /\ tx'.status = "RETIRED" /\ tx'.payload.committed = committed'
    BY <1>3 DEF handle_retire, Discard, Emit, Response
  <2>2. IInv'
    BY <1>1, <1>3, RetireInv
  <2>3. result = result_payload(staged) /\ result \in Result
    BY <1>1, <2>1 DEF HInv, RetiringIsStaged
  <2>4. result # None
    BY <2>3, ProgramAssumption, Zenon
  <2>5. committed' = [pc |-> result.next_pc, fp |-> result.next_fp]
    BY <2>1, <2>3 DEF result_payload
  <2>6. /\ Prepares' <=> Prepares
        /\ CurrentSlot' = CurrentSlot /\ HostState' = HostState
        /\ UNCHANGED <<phase, pc, fp, txn_id, result, outstanding, ended>>
    BY FrameArrivesSame
  <2>7. HeldIsCurrent' /\ NegotiatingIsFresh'
    BY <1>1, <2>1, <2>6 DEF HInv, HeldIsCurrent, NegotiatingIsFresh
  <2>8. HostTracksCommitted'
    BY <1>1, <2>4, <2>5, <2>6 DEF HostTracksCommitted
  <2>9. RetiringIsStaged'
    BY <1>1, <2>1, <2>6 DEF HInv, RetiringIsStaged
  <2>10. RepliesAreTrue'
    BY <1>1, <2>1, <2>6 DEF RepliesAreTrue, FaultStatus
  <2> QED
    BY <2>2, <2>7, <2>8, <2>9, <2>10, FrameArrivesInv
<1> QED
  BY <1>2, <1>3 DEF DeliverRetire

\* Every frame that arrives, whole, damaged or with another CRC than the host's.
LEMMA LaneInv ==
  ASSUME HInv, Deliver \/ Corrupt
  PROVE  HInv'
<1>1. FrameArrives
  BY DEF Deliver, Corrupt, FrameArrives, memVars, adapterVars
<1>2. CASE DeliverNegotiate
  BY <1>1, <1>2, DeliverNegotiateInv
<1>3. CASE DeliverRequest
  BY <1>1, <1>3, DeliverRejectionInv, DeliverDecisionInv, DeliverSuspensionInv
  DEF DeliverRequest
<1>4. CASE DeliverServiceResponse
  BY <1>1, <1>4, DeliverServiceResponseInv
<1>5. CASE DeliverRetire
  BY <1>1, <1>5, DeliverRetireInv
<1>6. CASE DeliverWrongRetire
  <2>1. phase = "retiring" /\ \E crc : MismatchRetire(result.txn_id, crc)
    BY <1>6 DEF DeliverWrongRetire
  <2>2. /\ Discard /\ Emit("RETIRE_MISMATCH", result.txn_id, <<>>)
        /\ UNCHANGED <<profile, commitVars, service_seq>>
    BY <2>1, Zenon DEF MismatchRetire
  <2>3. "RETIRE_MISMATCH" \in FaultStatus
    BY DEF FaultStatus
  <2> QED
    BY <1>1, <2>1, <2>2, <2>3, DiscardedInv
<1>7. CASE Corrupt
  <2>1. \E status \in {"BAD_SOF", "BAD_LENGTH", "BAD_CRC"} :
           \E id : RejectFrame(status, id)
    BY <1>7, Zenon DEF Corrupt, BadFrame
  <2>2. {"BAD_SOF", "BAD_LENGTH", "BAD_CRC"} \subseteq FaultStatus \cap FRAME_ONLY_FAULTS
    BY DEF FaultStatus, FRAME_ONLY_FAULTS
  <2> QED
    BY <1>1, <2>1, <2>2, RefusedFrameInv
<1> QED
  BY <1>2, <1>3, <1>4, <1>5, <1>6, <1>7 DEF Deliver

\* A board reset under the host takes what was held and the reply with it.
LEMMA BoardResetInv ==
  ASSUME HInv, BoardReset
  PROVE  HInv'
<1>1. /\ Reset /\ UNCHANGED <<program, cells, deferred, pc, fp, txn_id, phase, wire,
                               job, result, outstanding, ended>>
  BY DEF BoardReset, hostVars, memVars, adapterVars
<1>2. IInv' /\ state' = "idle" /\ ~state_valid' /\ tx' = None
  BY <1>1, ResetInv DEF Reset
<1>3. /\ Prepares' <=> Prepares
      /\ CurrentSlot' = CurrentSlot
      /\ prepare(CurrentSlot, At, cells)' = prepare(CurrentSlot, At, cells)
  BY <1>1, PreparesSame
<1>4. HostTypes' /\ LaneIsHalfDuplex' /\ BindingIsExplained'
  BY <1>1, <1>2 DEF HInv, HostTypes, LaneIsHalfDuplex, BindingIsExplained
<1>5. JobIsPrepared'
  BY <1>1, <1>3, Zenon DEF HInv, JobIsPrepared, Exchanging
<1>6. /\ HeldIsCurrent' /\ NegotiatingIsFresh' /\ RepliesAreTrue' /\ RetiringIsStaged'
      /\ HostTracksCommitted' /\ ReturnLeavesNothingStaged'
  BY <1>1, <1>2, <1>3
  DEF HInv, HeldIsCurrent, NegotiatingIsFresh, RepliesAreTrue, RetiringIsStaged,
      HostTracksCommitted, ReturnLeavesNothingStaged
<1>7. AnswerIsDigest'
  BY <1>1, Zenon DEF HInv, AnswerIsDigest
<1>8. RetiredIsApplicable'
  <2>1. Settled(result)' = Settled(result)
    BY <1>1, Zenon DEF Settled
  <2> QED
    BY <1>1, <2>1, Zenon DEF HInv, RetiredIsApplicable
<1> QED
  BY <1>2, <1>4, <1>5, <1>6, <1>7, <1>8 DEF HInv

\* A step of neither the host, the lane nor the board.
LEMMA HostStutterInv ==
  ASSUME HInv, UNCHANGED hrVars
  PROVE  HInv'
<1>1. UNCHANGED <<vars, program, cells, deferred, pc, fp, txn_id, phase, wire, job,
                  result, outstanding, ended>>
  BY DEF hrVars, hostVars, memVars, adapterVars
<1>2. IInv' /\ UNCHANGED <<state, staged, committed, state_valid, tx>>
  BY <1>1, EndpointSame DEF HInv
<1>3. /\ Prepares' <=> Prepares
      /\ CurrentSlot' = CurrentSlot
      /\ prepare(CurrentSlot, At, cells)' = prepare(CurrentSlot, At, cells)
  BY <1>1, PreparesSame
<1>4. HostTypes' /\ LaneIsHalfDuplex' /\ BindingIsExplained' /\ NegotiatingIsFresh'
      /\ ReturnLeavesNothingStaged'
  BY <1>1, <1>2
  DEF HInv, HostTypes, LaneIsHalfDuplex, BindingIsExplained, NegotiatingIsFresh,
      ReturnLeavesNothingStaged
<1>5. JobIsPrepared'
  BY <1>1, <1>3, Zenon DEF HInv, JobIsPrepared, Exchanging
<1>6. HeldIsCurrent'
  BY <1>1, <1>2, <1>3 DEF HInv, HeldIsCurrent
<1>7. RepliesAreTrue' /\ RetiringIsStaged' /\ AnswerIsDigest'
  BY <1>1, <1>2, Zenon
  DEF HInv, RepliesAreTrue, RetiringIsStaged, AnswerIsDigest, Exchanging, result_payload
<1>8. RetiredIsApplicable'
  <2>1. Settled(result)' = Settled(result)
    BY <1>1, Zenon DEF Settled
  <2> QED
    BY <1>1, <2>1, Zenon DEF HInv, RetiredIsApplicable
<1>9. HostTracksCommitted'
  BY <1>1, <1>2 DEF HInv, HostTracksCommitted, HostState
<1> QED
  BY <1>2, <1>4, <1>5, <1>6, <1>7, <1>8, <1>9 DEF HInv

-----------------------------------------------------------------------------
(* The theorems                                                            *)

\* A runtime under construction over a board that has just been reset.
LEMMA HostInitInv == HostInit => HInv
<1> SUFFICES ASSUME HostInit PROVE HInv
  OBVIOUS
<1>1. IInv /\ state = "idle" /\ ~state_valid /\ tx = None
  BY InitInv DEF HostInit, Init
<1>2. HostTypes
  <2>1. IsProgram(program) /\ program \in Programs /\ cells \in [Address -> Cell]
    BY ProgramAssumption DEF HostInit
  <2>2. pc \in Nat /\ fp \in Nat
    BY <2>1 DEF HostInit, IsProgram
  <2> QED
    BY <2>1, <2>2, HostAssumption DEF HostInit, HostTypes, Memory, Phase
<1>3. /\ LaneIsHalfDuplex /\ JobIsPrepared /\ HeldIsCurrent /\ BindingIsExplained
      /\ NegotiatingIsFresh /\ RepliesAreTrue /\ AnswerIsDigest /\ RetiringIsStaged
      /\ HostTracksCommitted /\ RetiredIsApplicable /\ ReturnLeavesNothingStaged
  BY <1>1
  DEF HostInit, LaneIsHalfDuplex, JobIsPrepared, Exchanging, HeldIsCurrent,
      BindingIsExplained, NegotiatingIsFresh, RepliesAreTrue, AnswerIsDigest,
      RetiringIsStaged, HostTracksCommitted, RetiredIsApplicable,
      ReturnLeavesNothingStaged
<1> QED
  BY <1>1, <1>2, <1>3 DEF HInv

\* Every step of the host, the lane and the board.
LEMMA HostNextInv == HInv /\ [HostNext]_hrVars => HInv'
<1> SUFFICES ASSUME HInv, [HostNext]_hrVars PROVE HInv'
  OBVIOUS
<1>1. CASE HostStep
  BY <1>1, NegotiatedInv, PrepareInv, HaltInv, ExchangeRaisesInv, AnswerServiceInv,
     ServiceFailsInv, RequestFaultsInv, ServiceResponseFaultsInv, RetireFaultsInv,
     SendRetireInv, RefuseResultInv, ApplyInv, Zenon DEF HostStep
<1>2. CASE Deliver \/ Corrupt
  BY <1>2, LaneInv
<1>3. CASE BoardReset
  BY <1>3, BoardResetInv
<1>4. CASE UNCHANGED hrVars
  BY <1>4, HostStutterInv
<1> QED
  BY <1>1, <1>2, <1>3, <1>4, Zenon DEF HostNext

\* The invariant holds of every run of the host over a lossy lane.
THEOREM HostInvariance == HostSpec => []HInv
  BY HostInitInv, HostNextInv, PTL DEF HostSpec

\* The host is in step with the endpoint: memory keeps its type, the committed
\* state is the host's or the one it asked to retire, what RETIRE was sent for
\* can be applied, and the RETIRE in flight names what is staged (step()).
THEOREM HostStaysInStep == HostSpec => []HostIsInStep
<1>1. ASSUME HInv PROVE HostIsInStep
  <2>1. HostTypeOK
    <3>1. ASSUME NEW i \in DOMAIN deferred
          PROVE  deferred[i].target \in Address /\ deferred[i].local \in Address
      <4>1. deferred \in Seq(Equality)
        BY <1>1 DEF HInv, HostTypes
      <4>2. deferred[i] \in Equality
        BY <4>1
      <4> QED
        BY <4>2 DEF Equality
    <3>2. wire => phase \in {"negotiating", "requested", "answered", "retiring"}
      BY <1>1 DEF HInv, HostTypes, LaneIsHalfDuplex, Phase
    <3> QED
      BY <1>1, <3>1, <3>2 DEF HInv, HostTypes, HostTypeOK, Memory
  <2>2. RetireNamesStaged
    <3>1. ASSUME phase = "retiring", state = "result_pending"
          PROVE  RetireMatches(result.txn_id, RetireCrc)
      <4>1. result = result_payload(staged) /\ staged.result_crc = Crc(result)
        BY <1>1, <3>1 DEF HInv, RetiringIsStaged
      <4>2. result.txn_id = staged.txn_id
        BY <4>1 DEF result_payload
      <4> QED
        BY <4>1, <4>2, Zenon DEF RetireMatches, RetireCrc
    <3> QED
      BY <3>1 DEF RetireNamesStaged
  <2> QED
    BY <1>1, <2>1, <2>2 DEF HInv, HostIsInStep
<1> QED
  BY <1>1, HostInvariance, PTL

\* A step that returns leaves no transaction on the endpoint, and a service
\* binding outlives its step only when its RETIRE went unanswered (the except
\* clauses and check_fault_response).
THEOREM ExitsStayClean == HostSpec => []ExitsAreClean
<1>1. ASSUME HInv PROVE ExitsAreClean
  BY <1>1 DEF HInv, ExitsAreClean, BindingIsExplained, BindingIsCleared
<1> QED
  BY <1>1, HostInvariance, PTL

-----------------------------------------------------------------------------
(* No stranded service: the runtime over the endpoint that ABORT reaches    *)

\* A step that leaves no service pending.
LEMMA NothingSuspended ==
  ASSUME state' # "service_pending"
  PROVE  ServiceIsOffered'
  BY DEF ServiceIsOffered, NoStrandedService

\* ABORT of the except clauses.
LEMMA AbortSuspendsNothing ==
  ASSUME ~PhysicalLane, AbortEndpoint
  PROVE  state' # "service_pending"
  BY Zenon DEF AbortEndpoint, Abort

\* The ways out of step(): a service is pending only for a BLAKE3 slot, and
\* every one of them aborts then, or has seen the transaction discarded.
LEMMA ExitsSuspendNothing ==
  ASSUME ~PhysicalLane, HInv, ServiceIsOffered,
         \/ ExchangeRaises \/ ServiceFails \/ RequestFaults
         \/ ServiceResponseFaults \/ RetireFaults \/ RefuseResult \/ Apply
  PROVE  state' # "service_pending"
<1>1. LaneIdle => state' = state
  BY DEF LaneIdle, txnVars
<1>2. /\ phase = "retiring" => state # "service_pending"
      /\ (tx # None /\ tx.status = "OK" /\ phase \in {"requested", "answered"}) =>
            state # "service_pending"
  BY DEF HInv, RetiringIsStaged, RepliesAreTrue, Exchanging
<1>3. ASSUME NEW aborts, Raise(aborts), aborts \/ state # "service_pending"
      PROVE  state' # "service_pending"
  BY <1>1, <1>3, AbortSuspendsNothing, Zenon DEF Raise
<1>4. CASE ExchangeRaises
  <2>1. CASE phase = "requested"
    <3>1. IsBlake3 \/ state # "service_pending"
      BY <2>1, JobIsWellFormed DEF HInv, HeldIsCurrent, JobFacts, Exchanging
    <3>2. Raise(IsBlake3)
      BY <1>4, <2>1 DEF ExchangeRaises
    <3> QED
      BY <1>3, <3>1, <3>2
  <2>2. CASE phase = "answered"
    <3>1. Raise(TRUE)
      BY <1>4, <2>2 DEF ExchangeRaises
    <3> QED
      BY <1>3, <3>1
  <2>3. CASE phase = "retiring"
    <3>1. Raise(Serviced)
      BY <1>4, <2>3 DEF ExchangeRaises
    <3> QED
      BY <1>2, <1>3, <2>3, <3>1
  <2> QED
    BY <1>4, <2>1, <2>2, <2>3 DEF ExchangeRaises
<1>5. CASE ServiceFails
  BY <1>5, AbortSuspendsNothing DEF ServiceFails
<1>6. CASE RequestFaults
  <2>1. state # "service_pending"
    BY <1>6 DEF RequestFaults, ServiceIsOffered, FaultStatus
  <2> QED
    BY <1>1, <1>6, <2>1 DEF RequestFaults
<1>7. CASE ServiceResponseFaults
  <2>1. CASE AbortEndpoint
    BY <2>1, AbortSuspendsNothing
  <2>2. CASE LaneIdle /\ tx.status = "WRITE_CONFLICT"
    <3>1. state = "idle"
      BY <1>7, <2>2
      DEF ServiceResponseFaults, HInv, RepliesAreTrue, Exchanging, FaultStatus,
          FRAME_ONLY_FAULTS
    <3> QED
      BY <1>1, <2>2, <3>1
  <2> QED
    BY <1>7, <2>1, <2>2, Zenon DEF ServiceResponseFaults
<1>8. CASE RetireFaults
  BY <1>1, <1>2, <1>8 DEF RetireFaults
<1>9. CASE RefuseResult
  <2>1. /\ Raise(Serviced) /\ tx # None /\ tx.status = "OK"
        /\ phase \in {"requested", "answered"}
    BY <1>9 DEF RefuseResult, ResultArrives
  <2> QED
    BY <1>2, <1>3, <2>1
<1>10. CASE Apply
  BY <1>1, <1>2, <1>10 DEF Apply
<1> QED
  BY <1>4, <1>5, <1>6, <1>7, <1>8, <1>9, <1>10

\* Every step keeps a pending service offered.
LEMMA ServiceStaysOffered ==
  ASSUME ~PhysicalLane, HInv, ServiceIsOffered, [HostNext]_hrVars
  PROVE  ServiceIsOffered'
<1>1. LaneIdle => state' = state
  BY DEF LaneIdle, txnVars
<1>2. CASE FinishNegotiate \/ NegotiateRaises
  <2>1. state' = "idle"
    BY <1>1, <1>2 DEF FinishNegotiate, NegotiateRaises, HInv, NegotiatingIsFresh
  <2> QED
    BY <2>1, NothingSuspended
<1>3. CASE Prepare \/ Halt
  <2>1. phase = "ready" /\ state' = state
    BY <1>3 DEF Prepare, Halt, vars
  <2>2. state' # "service_pending"
    BY <2>1 DEF ServiceIsOffered, NoStrandedService
  <2> QED
    BY <2>2, NothingSuspended
<1>4. CASE \/ ExchangeRaises \/ ServiceFails \/ RequestFaults
           \/ ServiceResponseFaults \/ RetireFaults \/ RefuseResult \/ Apply
  BY <1>4, ExitsSuspendNothing, NothingSuspended
<1>5. CASE AnswerService \/ SendRetire
  <2>1. phase' \in {"answered", "retiring"}
    BY <1>5 DEF AnswerService, SendRetire
  <2> QED
    BY <2>1 DEF ServiceIsOffered, NoStrandedService
<1>6. CASE Deliver \/ Corrupt
  <2>1. FrameArrives
    BY <1>6 DEF Deliver, Corrupt, FrameArrives, memVars, adapterVars
  <2>2. phase' = phase /\ phase \notin {"ready", "closed"}
    BY <2>1 DEF FrameArrives, HInv, LaneIsHalfDuplex
  <2>3. CASE phase # "requested"
    BY <2>2, <2>3 DEF ServiceIsOffered, NoStrandedService
  <2>4. CASE phase = "requested"
    <3>1. state # "service_pending"
      BY <2>1, <2>4 DEF FrameArrives, ServiceIsOffered
    <3>2. \A status, id : RejectFrame(status, id) => state' = state
      BY DEF RejectFrame
    <3>3. CASE RejectInstruction(job.request) \/ Corrupt
      <4>1. state' = state
        BY <3>2, <3>3, Zenon DEF RejectInstruction, Corrupt, BadFrame
      <4> QED
        BY <3>1, <4>1, NothingSuspended
    <3>4. CASE DecideInstruction(job.request)
      <4>1. state' = "result_pending"
        BY <3>4, Zenon DEF DecideInstruction, FinishTransaction
      <4> QED
        BY <4>1, NothingSuspended
    <3>5. CASE SuspendInstruction(job.request)
      <4>1. \E id, payload : Emit("SERVICE_REQUIRED", id, payload)
        BY <3>5, Zenon DEF SuspendInstruction
      <4>2. tx'.status = "SERVICE_REQUIRED"
        BY <4>1, EmitStatus
      <4>3. ~wire'
        BY <2>1 DEF FrameArrives
      <4> QED
        BY <2>2, <2>4, <4>2, <4>3 DEF ServiceIsOffered, NoStrandedService
    <3> QED
      BY <1>6, <2>4, <3>3, <3>4, <3>5
      DEF Deliver, DeliverNegotiate, DeliverRequest, DeliverServiceResponse,
          DeliverRetire, DeliverWrongRetire
  <2> QED
    BY <2>3, <2>4
<1>7. CASE BoardReset
  BY <1>7, NothingSuspended DEF BoardReset, Reset
<1>8. CASE UNCHANGED hrVars
  BY <1>8 DEF hrVars, vars, hostVars, ServiceIsOffered, NoStrandedService
<1> QED
  BY <1>2, <1>3, <1>4, <1>5, <1>6, <1>7, <1>8, Zenon DEF HostNext, HostStep

\* However a BLAKE3 step ends, no suspended service is left on an endpoint the
\* host's ABORT reaches (step(), the except clauses after SERVICE_REQUIRED).
THEOREM NoServiceIsStranded ==
  ASSUME ~PhysicalLane
  PROVE  HostSpec => []NoStrandedService
<1>1. HostInit => ServiceIsOffered
  BY DEF HostInit, Init, ServiceIsOffered, NoStrandedService
<1>2. HInv /\ ServiceIsOffered /\ [HostNext]_hrVars => ServiceIsOffered'
  BY ServiceStaysOffered
<1>3. ServiceIsOffered => NoStrandedService
  BY DEF ServiceIsOffered
<1> QED
  BY <1>1, <1>2, <1>3, HostInvariance, PTL DEF HostSpec

-----------------------------------------------------------------------------
(* The host's memory                                                       *)

\* A cell that holds a value keeps it, and an equality that was open holds now
\* or is still open.
MemoryStep ==
    /\ Keeps(cells, cells')
    /\ \A i \in DOMAIN deferred :
          Holds(cells', deferred[i]) \/ IsOpen(deferred', deferred[i])

\* Only RETIRED moves memory, and what it applies was settled.
LEMMA MemoryMoves ==
  ASSUME HInv, [HostNext]_hrVars
  PROVE  MemoryStep
<1>1. CASE UNCHANGED <<cells, deferred>>
  BY <1>1 DEF MemoryStep, Keeps, IsOpen
<1>2. CASE Apply
  <2>1. CASE /\ Settled(result).ok
             /\ cells' = Settled(result).cells /\ deferred' = Settled(result).still_open
    <3>1. result \in Result /\ HostTypes
      BY <1>2 DEF HInv, RetiringIsStaged, Apply
    <3>2. /\ Keeps(cells, Settled(result).cells)
          /\ Accounts(deferred \o result.deferred, Settled(result))
      BY <3>1, SettledType
    <3>3. Keeps(cells, cells')
      BY <2>1, <3>2
    <3>4. ASSUME NEW i \in DOMAIN deferred
          PROVE  Holds(cells', deferred[i]) \/ IsOpen(deferred', deferred[i])
      <4> DEFINE pending == deferred \o result.deferred
      <4>1. deferred \in Seq(Equality) /\ result.deferred \in Seq(Equality)
        BY <3>1 DEF HostTypes, Result, Equality
      <4>2. i \in DOMAIN pending /\ pending[i] = deferred[i]
        BY <4>1
      <4> HIDE DEF pending
      <4>3. Accounts(pending, Settled(result))
        BY <3>2 DEF pending
      <4>4. \/ Holds(Settled(result).cells, deferred[i])
            \/ IsOpen(Settled(result).still_open, deferred[i])
        BY <2>1, <4>2, <4>3, Zenon DEF Accounts
      <4> QED
        BY <2>1, <4>4, Zenon
    <3> QED
      BY <3>3, <3>4 DEF MemoryStep
  <2>2. CASE UNCHANGED memVars
    BY <1>1, <2>2 DEF memVars
  <2> QED
    BY <1>2, <2>1, <2>2, Zenon DEF Apply
<1>3. CASE Deliver \/ Corrupt \/ BoardReset \/ UNCHANGED hrVars
  BY <1>1, <1>3 DEF Deliver, Corrupt, BoardReset, hrVars, hostVars, memVars
<1>4. CASE \/ FinishNegotiate \/ NegotiateRaises \/ Prepare \/ Halt
           \/ AnswerService \/ SendRetire
  BY <1>1, <1>4
  DEF FinishNegotiate, NegotiateRaises, Prepare, Halt, AnswerService, SendRetire, memVars
<1>5. CASE \/ ExchangeRaises \/ ServiceFails \/ RequestFaults
           \/ ServiceResponseFaults \/ RetireFaults \/ RefuseResult
  <2>1. \E how : Return(how)
    BY <1>5, Zenon
    DEF ExchangeRaises, ServiceFails, RequestFaults, ServiceResponseFaults,
        RetireFaults, RefuseResult, Raise
  <2> QED
    BY <1>1, <2>1 DEF Return, memVars
<1> QED
  BY <1>2, <1>3, <1>4, <1>5, Zenon DEF HostNext, HostStep

\* Host memory is write-once and loses no open equality: whatever the lane
\* loses, however often the caller retries, a value once stored stays, and a
\* deferred equality stays open until both its cells hold one value
\* (apply_write and resolve_deferred of host/memory.py).
THEOREM MemoryIsWriteOnce == HostSpec => [][MemoryStep]_hrVars
<1>1. HInv /\ [HostNext]_hrVars => [MemoryStep]_hrVars
  BY MemoryMoves
<1> QED
  BY <1>1, HostInvariance, PTL DEF HostSpec

-----------------------------------------------------------------------------
(* Every instruction exactly once                                          *)

\* Where a request is made: the transaction it names and the state it is for.
Where(id, at_pc, at_fp) ==
    [txn_id |-> id, pc |-> at_pc, fp |-> at_fp, profile |-> HostProfile]

\* What the endpoint's rules make of a slot prepared over a memory.
Executed(op, at, memory) == execute(prepare(op, at, memory).request)

\* A payload is what the slot decides: at once, or with the service's digest.
Decides(op, at, memory, payload) ==
    LET outcome == Executed(op, at, memory)
        resumed == resume_blake3(outcome.frame, outcome.accesses,
                                 Compress(outcome.operands))
    IN  /\ payload.txn_id = at.txn_id
        /\ payload.next_pc = outcome.next_pc
        /\ payload.next_fp = outcome.next_fp
        /\ payload.accesses = outcome.accesses
        /\ \/ /\ outcome.status = "OK"
              /\ payload.writes = outcome.writes
              /\ payload.deferred = outcome.deferred
           \/ /\ outcome.status = "SERVICE_REQUIRED"
              /\ resumed.status = "OK"
              /\ payload.writes = resumed.writes
              /\ payload.deferred = <<>>

\* A suspended transition waits for the digest of the slot's own operands.
Suspends(op, at, memory, txn) ==
    LET outcome == Executed(op, at, memory)
    IN  /\ outcome.status = "SERVICE_REQUIRED"
        /\ txn.next_pc = outcome.next_pc
        /\ txn.next_fp = outcome.next_fp
        /\ txn.accesses = outcome.accesses
        /\ txn.frame = outcome.frame

\* Everything held or in flight was computed from the state the host is in.
DecisionIsCurrent ==
    /\ state = "service_pending" =>
          Suspends(CurrentSlot, Where(staged.txn_id, pc, fp), cells, staged)
    /\ (phase = "requested" /\ tx # None /\ tx.status = "SERVICE_REQUIRED") =>
          tx.payload.operands =
              Executed(CurrentSlot, Where(tx.txn_id, pc, fp), cells).operands
    /\ phase = "answered" =>
          outstanding.operands =
              Executed(CurrentSlot, Where(outstanding.txn_id, pc, fp), cells).operands
    /\ state = "result_pending" =>
          Decides(CurrentSlot, Where(staged.txn_id, pc, fp), cells, result_payload(staged))
    /\ phase = "retiring" =>
          Decides(CurrentSlot, Where(result.txn_id, pc, fp), cells, result)

\* Steps that decide nothing.
LEMMA DecisionKept ==
  ASSUME DecisionIsCurrent, UNCHANGED <<program, cells, pc, fp>>,
         state' = "idle" \/ UNCHANGED <<state, staged>>,
         \/ tx' = None \/ tx'.status # "SERVICE_REQUIRED"
         \/ phase' = phase /\ tx' = tx,
         \/ phase' \notin {"answered", "retiring"}
         \/ UNCHANGED <<phase, outstanding, result>>
  PROVE  DecisionIsCurrent'
<1>1. CurrentSlot' = CurrentSlot
  BY DEF CurrentSlot
<1>2. (state = "service_pending" =>
          Suspends(CurrentSlot, Where(staged.txn_id, pc, fp), cells, staged))'
  BY <1>1, Zenon DEF DecisionIsCurrent
<1>3. ((phase = "requested" /\ tx # None /\ tx.status = "SERVICE_REQUIRED") =>
          tx.payload.operands =
              Executed(CurrentSlot, Where(tx.txn_id, pc, fp), cells).operands)'
  BY <1>1, Zenon DEF DecisionIsCurrent
<1>4. (phase = "answered" =>
          outstanding.operands =
              Executed(CurrentSlot, Where(outstanding.txn_id, pc, fp), cells).operands)'
  BY <1>1, Zenon DEF DecisionIsCurrent
<1>5. (state = "result_pending" =>
          Decides(CurrentSlot, Where(staged.txn_id, pc, fp), cells,
                  result_payload(staged)))'
  BY <1>1, Zenon DEF DecisionIsCurrent, result_payload
<1>6. (phase = "retiring" =>
          Decides(CurrentSlot, Where(result.txn_id, pc, fp), cells, result))'
  BY <1>1, Zenon DEF DecisionIsCurrent
<1> QED
  BY <1>2, <1>3, <1>4, <1>5, <1>6, Zenon DEF DecisionIsCurrent

\* A frame that is refused, or that ends a transaction.
LEMMA UndecidedFrame ==
  ASSUME DecisionIsCurrent, FrameArrives, NEW status, NEW id, NEW payload,
         Emit(status, id, payload), status # "SERVICE_REQUIRED",
         state' = "idle" \/ UNCHANGED <<state, staged>>
  PROVE  DecisionIsCurrent'
<1>1. tx'.status # "SERVICE_REQUIRED"
  BY EmitStatus
<1>2. UNCHANGED <<program, cells, pc, fp, phase, outstanding, result>>
  BY DEF FrameArrives
<1> QED
  BY <1>1, <1>2, DecisionKept

\* The instruction is decided or suspended: for the slot the host stands at.
LEMMA RequestDecides ==
  ASSUME HInv, DecisionIsCurrent, FrameArrives, DeliverRequest
  PROVE  DecisionIsCurrent'
<1> DEFINE request == job.request
           outcome == execute(request)
<1>1. phase = "requested" /\ JobFacts
  BY JobIsWellFormed DEF DeliverRequest, HInv, Exchanging
<1>2. /\ UNCHANGED <<program, cells, pc, fp, phase, outstanding, result>>
      /\ CurrentSlot' = CurrentSlot
  BY DEF FrameArrives, CurrentSlot
<1>3. /\ request.txn_id = txn_id /\ request.pc = pc /\ request.fp = fp
      /\ outcome = Executed(CurrentSlot, Where(txn_id, pc, fp), cells)
  BY <1>1, Zenon
  DEF JobFacts, Executed, HInv, JobIsPrepared, Exchanging, At, Where
<1>4. CASE RejectInstruction(request)
  <2>1. PICK status, id : /\ RejectFrame(status, id)
                          /\ status = GuardFault(request) \/ status \in FaultStatus
    BY <1>4, Zenon DEF RejectInstruction
  <2>2. /\ Emit(status, id, <<>>) /\ UNCHANGED <<state, staged>>
    BY <2>1 DEF RejectFrame
  <2>3. GuardFault(request) # "SERVICE_REQUIRED" /\ "SERVICE_REQUIRED" \notin FaultStatus
    BY GuardFaults DEF FaultStatus
  <2> QED
    BY <2>1, <2>2, <2>3, UndecidedFrame
<1>5. CASE DecideInstruction(request)
  <2> DEFINE t == [txn_id |-> request.txn_id, profile |-> request.profile,
                   pc |-> request.pc, fp |-> request.fp,
                   next_pc |-> outcome.next_pc, next_fp |-> outcome.next_fp,
                   writes |-> outcome.writes, deferred |-> outcome.deferred,
                   accesses |-> outcome.accesses, service_id |-> 0,
                   frame |-> <<>>, result_crc |-> None]
  <2>1. outcome.status = "OK" /\ FinishTransaction(t)
    BY <1>5, Zenon DEF DecideInstruction
  <2> HIDE DEF outcome, request
  <2>2. IsTxn(t) /\ t.txn_id = request.txn_id
    BY DEF IsTxn
  <2>3. /\ result_payload(t).txn_id = txn_id
        /\ result_payload(t).next_pc = outcome.next_pc
        /\ result_payload(t).next_fp = outcome.next_fp
        /\ result_payload(t).accesses = outcome.accesses
        /\ result_payload(t).writes = outcome.writes
        /\ result_payload(t).deferred = outcome.deferred
    BY <1>3 DEF result_payload
  <2> HIDE DEF t
  <2>4. /\ state' = "result_pending" /\ tx'.status = "OK"
        /\ result_payload(staged') = result_payload(t)
    BY <2>1, <2>2, Finished
  <2>5. staged'.txn_id = txn_id
    <3>1. result_payload(staged').txn_id = staged'.txn_id
      BY DEF result_payload
    <3> QED
      BY <2>3, <2>4, <3>1
  <2>6. Decides(CurrentSlot, Where(txn_id, pc, fp), cells, result_payload(t))
    <3>1. Where(txn_id, pc, fp).txn_id = txn_id
      BY DEF Where
    <3> QED
      BY <1>3, <2>1, <2>3, <3>1, Zenon DEF Decides
  <2>7. result_payload(staged)' = result_payload(t)
    BY <2>4, Zenon DEF result_payload
  <2>8. Decides(CurrentSlot, Where(staged.txn_id, pc, fp), cells, result_payload(staged))'
    BY <1>2, <2>5, <2>6, <2>7, Zenon
  <2>9. /\ state' # "service_pending" /\ tx'.status # "SERVICE_REQUIRED"
        /\ phase' \notin {"answered", "retiring"}
    BY <1>1, <1>2, <2>4
  <2> QED
    BY <2>8, <2>9, Zenon DEF DecisionIsCurrent
<1>6. CASE SuspendInstruction(request)
  <2>1. /\ outcome.status = "SERVICE_REQUIRED"
        /\ staged' = [txn_id |-> request.txn_id, profile |-> request.profile,
                      pc |-> request.pc, fp |-> request.fp,
                      next_pc |-> outcome.next_pc, next_fp |-> outcome.next_fp,
                      writes |-> <<>>, deferred |-> <<>>,
                      accesses |-> outcome.accesses,
                      service_id |-> service_seq + 1,
                      frame |-> outcome.frame, result_crc |-> None]
        /\ Emit("SERVICE_REQUIRED", request.txn_id,
                [service_id |-> service_seq + 1, operands |-> outcome.operands])
        /\ state' = "service_pending"
    BY <1>6, Zenon DEF SuspendInstruction
  <2> HIDE DEF outcome, request
  <2>2. /\ staged'.txn_id = txn_id /\ staged'.next_pc = outcome.next_pc
        /\ staged'.next_fp = outcome.next_fp /\ staged'.accesses = outcome.accesses
        /\ staged'.frame = outcome.frame
    BY <1>3, <2>1
  <2>3. tx'.txn_id = txn_id /\ tx'.payload.operands = outcome.operands
    BY <1>3, <2>1 DEF Emit, Response
  <2>4. Suspends(CurrentSlot, Where(txn_id, pc, fp), cells, staged')
    BY <1>3, <2>1, <2>2, Zenon DEF Suspends
  <2>5. Suspends(CurrentSlot, Where(staged.txn_id, pc, fp), cells, staged)'
    BY <1>2, <2>2, <2>4, Zenon
  <2>6. (tx.payload.operands =
           Executed(CurrentSlot, Where(tx.txn_id, pc, fp), cells).operands)'
    BY <1>2, <1>3, <2>3, Zenon
  <2>7. state' # "result_pending" /\ phase' \notin {"answered", "retiring"}
    BY <1>1, <1>2, <2>1
  <2> QED
    BY <2>5, <2>6, <2>7, Zenon DEF DecisionIsCurrent
<1> QED
  BY <1>4, <1>5, <1>6 DEF DeliverRequest

\* The digest that completes a suspended transition is that of the operands the
\* slot itself packed.
LEMMA ServiceDecides ==
  ASSUME HInv, DecisionIsCurrent, FrameArrives, DeliverServiceResponse
  PROVE  DecisionIsCurrent'
<1> DEFINE id == outstanding.txn_id
           key == outstanding.service_id
           digest == Compress(outstanding.operands)
           outcome == Executed(CurrentSlot, Where(id, pc, fp), cells)
<1>1. /\ phase = "answered"
      /\ \/ RejectServiceResponse(id, key, TRUE)
         \/ handle_service_response(id, key, digest)
  BY Zenon DEF DeliverServiceResponse
<1>2. /\ UNCHANGED <<program, cells, pc, fp, phase, outstanding, result>>
      /\ CurrentSlot' = CurrentSlot
  BY DEF FrameArrives, CurrentSlot
<1>3. outstanding.operands = outcome.operands
  BY <1>1, Zenon DEF DecisionIsCurrent
<1>4. digest = Compress(outcome.operands)
  BY <1>3, Zenon
<1> HIDE DEF key, digest
<1>5. CASE RejectServiceResponse(id, key, TRUE)
  <2>1. ServiceFault(id, key, TRUE) # "OK" /\ RejectFrame(ServiceFault(id, key, TRUE), id)
    BY <1>5, Zenon DEF RejectServiceResponse
  <2>2. ServiceFault(id, key, TRUE) \in {"BAD_STATE", "BAD_SERVICE"}
    BY <2>1, Zenon DEF ServiceFault
  <2>3. /\ Emit(ServiceFault(id, key, TRUE), id, <<>>) /\ UNCHANGED <<state, staged>>
    BY <2>1 DEF RejectFrame
  <2>4. ServiceFault(id, key, TRUE) # "SERVICE_REQUIRED"
    BY <2>2
  <2> QED
    BY <2>3, <2>4, UndecidedFrame
<1>6. CASE handle_service_response(id, key, digest)
  <2> DEFINE resumed == resume_blake3(staged.frame, staged.accesses, digest)
             t == Filled(staged, resumed.writes)
  <2>1. /\ ServiceFault(id, key, TRUE) = "OK"
        /\ \/ resumed.status = "OK" /\ FinishTransaction(t)
           \/ resumed.status # "OK" /\ Discard /\ Emit(resumed.status, id, <<>>)
    BY <1>6, Zenon DEF handle_service_response, Filled
  <2>2. state = "service_pending" /\ id = staged.txn_id
    BY <2>1, Zenon DEF ServiceFault
  <2>3. resumed.status \in {"OK", "WRITE_CONFLICT"}
    BY ResumedStatus, Zenon
  <2>4. CASE resumed.status = "OK"
    <3>1. /\ outcome.status = "SERVICE_REQUIRED"
          /\ staged.next_pc = outcome.next_pc /\ staged.next_fp = outcome.next_fp
          /\ staged.accesses = outcome.accesses /\ staged.frame = outcome.frame
      BY <2>2, Zenon DEF DecisionIsCurrent, Suspends
    <3>2. staged.deferred = <<>> /\ IsTxn(staged)
      BY <2>2 DEF HInv, HeldIsCurrent, IInv, StagedInIndexSpace
    <3>3. t = Filled(staged, resumed.writes) /\ FinishTransaction(t)
      BY <2>1, <2>4
    <3>4. resumed = resume_blake3(outcome.frame, outcome.accesses,
                                  Compress(outcome.operands))
      BY <1>4, <3>1, Zenon
    <3> HIDE DEF t, resumed, outcome, id
    <3>5. /\ IsTxn(t) /\ t.next_pc = staged.next_pc /\ t.next_fp = staged.next_fp
          /\ t.txn_id = staged.txn_id /\ t.writes = resumed.writes
          /\ t.deferred = staged.deferred /\ t.accesses = staged.accesses
      BY <3>2, <3>3, ResumedTxn
    <3>6. /\ result_payload(t).txn_id = id
          /\ result_payload(t).next_pc = outcome.next_pc
          /\ result_payload(t).next_fp = outcome.next_fp
          /\ result_payload(t).accesses = outcome.accesses
          /\ result_payload(t).writes = resumed.writes
          /\ result_payload(t).deferred = <<>>
      BY <2>2, <3>1, <3>2, <3>5 DEF result_payload
    <3>7. /\ state' = "result_pending" /\ tx'.status = "OK"
          /\ result_payload(staged') = result_payload(t)
      BY <3>3, <3>5, Finished
    <3>8. staged'.txn_id = id
      <4>1. result_payload(staged').txn_id = staged'.txn_id
        BY DEF result_payload
      <4> QED
        BY <3>6, <3>7, <4>1
    <3>9. Decides(CurrentSlot, Where(id, pc, fp), cells, result_payload(t))
      <4>1. Where(id, pc, fp).txn_id = id
        BY DEF Where
      <4> QED
        BY <2>4, <3>1, <3>4, <3>6, <4>1, Zenon DEF Decides, outcome
    <3>10. result_payload(staged)' = result_payload(t)
      BY <3>7, Zenon DEF result_payload
    <3>11. Decides(CurrentSlot, Where(staged.txn_id, pc, fp), cells,
                   result_payload(staged))'
      BY <1>2, <3>8, <3>9, <3>10, Zenon
    <3>12. (outstanding.operands =
              Executed(CurrentSlot, Where(outstanding.txn_id, pc, fp), cells).operands)'
      BY <1>2, <1>3, Zenon DEF outcome, id
    <3>13. /\ state' # "service_pending" /\ tx'.status # "SERVICE_REQUIRED"
           /\ phase' # "retiring"
      BY <1>1, <1>2, <3>7
    <3> QED
      BY <3>11, <3>12, <3>13, Zenon DEF DecisionIsCurrent
  <2>5. CASE resumed.status = "WRITE_CONFLICT"
    <3>1. resumed.status # "OK" /\ resumed.status # "SERVICE_REQUIRED"
      BY <2>5
    <3>2. state' = "idle" /\ Emit(resumed.status, id, <<>>)
      BY <2>1, <3>1 DEF Discard
    <3> HIDE DEF resumed, id
    <3> QED
      BY <3>1, <3>2, UndecidedFrame
  <2> QED
    BY <2>3, <2>4, <2>5
<1> QED
  BY <1>1, <1>5, <1>6

\* Every other frame decides nothing.
LEMMA LaneDecides ==
  ASSUME HInv, DecisionIsCurrent, Deliver \/ Corrupt
  PROVE  DecisionIsCurrent'
<1>1. FrameArrives
  BY DEF Deliver, Corrupt, FrameArrives, memVars, adapterVars
<1>2. CASE DeliverNegotiate
  <2>1. Emit("OK", 0, [profile |-> HostProfile]) /\ UNCHANGED <<state, staged>>
    BY <1>2 DEF DeliverNegotiate, handle_negotiate, txnVars
  <2> QED
    BY <1>1, <2>1, UndecidedFrame
<1>3. CASE DeliverRequest
  BY <1>1, <1>3, RequestDecides
<1>4. CASE DeliverServiceResponse
  BY <1>1, <1>4, ServiceDecides
<1>5. CASE DeliverRetire
  <2>1. \/ /\ Emit("BAD_STATE", result.txn_id, <<>>) /\ UNCHANGED <<state, staged>>
        \/ /\ \E payload : Emit("RETIRED", result.txn_id, payload)
           /\ state' = "idle"
    BY <1>5, Zenon DEF DeliverRetire, RejectRetire, RejectFrame, handle_retire, Discard
  <2> QED
    BY <1>1, <2>1, UndecidedFrame
<1>6. CASE DeliverWrongRetire
  <2>1. Emit("RETIRE_MISMATCH", result.txn_id, <<>>) /\ state' = "idle"
    BY <1>6, Zenon DEF DeliverWrongRetire, MismatchRetire, Discard
  <2> QED
    BY <1>1, <2>1, UndecidedFrame
<1>7. CASE Corrupt
  <2>1. PICK status \in {"BAD_SOF", "BAD_LENGTH", "BAD_CRC"} :
           \E id : RejectFrame(status, id)
    BY <1>7, Zenon DEF Corrupt, BadFrame
  <2>2. PICK id : Emit(status, id, <<>>) /\ UNCHANGED <<state, staged>>
    BY <2>1 DEF RejectFrame
  <2>3. status # "SERVICE_REQUIRED"
    BY <2>1
  <2> QED
    BY <1>1, <2>2, <2>3, UndecidedFrame
<1> QED
  BY <1>2, <1>3, <1>4, <1>5, <1>6, <1>7 DEF Deliver

\* The ways out of step(), into it and out of the run.
LEMMA ExitsDecideNothing ==
  ASSUME HInv, DecisionIsCurrent,
         \/ FinishNegotiate \/ NegotiateRaises \/ Prepare \/ Halt \/ ExchangeRaises
         \/ ServiceFails \/ RequestFaults \/ ServiceResponseFaults \/ RetireFaults
         \/ RefuseResult
  PROVE  DecisionIsCurrent'
<1>1. ASSUME LaneIdle \/ AbortEndpoint
      PROVE  tx' = None /\ (state' = "idle" \/ UNCHANGED <<state, staged>>)
  BY <1>1 DEF LaneIdle, AbortEndpoint, Abort, txnVars
<1>2. ASSUME NEW how, Return(how)
      PROVE  phase' = "ready" /\ UNCHANGED <<program, cells, pc, fp>>
  BY <1>2 DEF Return, memVars
<1>3. CASE FinishNegotiate \/ NegotiateRaises
  <2>1. LaneIdle /\ phase' \in {"ready", "closed"} /\ UNCHANGED <<program, cells, pc, fp>>
    BY <1>3 DEF FinishNegotiate, NegotiateRaises, memVars
  <2>2. phase' \notin {"answered", "retiring"}
    BY <2>1
  <2> QED
    BY <1>1, <2>1, <2>2, DecisionKept
<1>4. CASE Prepare \/ Halt
  <2>1. /\ phase = "ready" /\ phase' \in {"ready", "requested", "closed"}
        /\ UNCHANGED <<vars, program, cells, pc, fp>>
    BY <1>4, Zenon DEF Prepare, Halt, memVars
  <2>2. tx = None /\ tx' = tx /\ UNCHANGED <<state, staged>>
    BY <2>1 DEF HInv, LaneIsHalfDuplex, vars
  <2>3. phase' \notin {"answered", "retiring"}
    BY <2>1
  <2> QED
    BY <2>1, <2>2, <2>3, DecisionKept
<1>5. CASE \/ ExchangeRaises \/ ServiceFails \/ RequestFaults \/ ServiceResponseFaults
           \/ RetireFaults \/ RefuseResult
  <2>1. \E how : Return(how)
    BY <1>5, Zenon
    DEF ExchangeRaises, ServiceFails, RequestFaults, ServiceResponseFaults,
        RetireFaults, RefuseResult, Raise
  <2>2. LaneIdle \/ AbortEndpoint
    BY <1>5, Zenon
    DEF ExchangeRaises, ServiceFails, RequestFaults, ServiceResponseFaults,
        RetireFaults, RefuseResult, Raise
  <2>3. phase' \notin {"answered", "retiring"}
    BY <1>2, <2>1
  <2> QED
    BY <1>1, <1>2, <2>1, <2>2, <2>3, DecisionKept
<1> QED
  BY <1>3, <1>4, <1>5

\* SERVICE_RESPONSE is for the operands the slot packed.
LEMMA AnswerDecides ==
  ASSUME HInv, DecisionIsCurrent, AnswerService
  PROVE  DecisionIsCurrent'
<1>1. /\ phase = "requested" /\ tx # None /\ tx.status = "SERVICE_REQUIRED"
      /\ outstanding' = Required /\ phase' = "answered" /\ tx' = None
      /\ UNCHANGED <<state, staged, program, cells, pc, fp>>
  BY DEF AnswerService, ServiceOffered, LaneIdle, txnVars, memVars
<1>2. CurrentSlot' = CurrentSlot
  BY <1>1 DEF CurrentSlot
<1>3. outstanding'.txn_id = tx.txn_id /\ outstanding'.operands = tx.payload.operands
  BY <1>1 DEF Required
<1>4. (outstanding.operands =
          Executed(CurrentSlot, Where(outstanding.txn_id, pc, fp), cells).operands)'
  <2>1. tx.payload.operands =
           Executed(CurrentSlot, Where(tx.txn_id, pc, fp), cells).operands
    BY <1>1, Zenon DEF DecisionIsCurrent
  <2> QED
    BY <1>1, <1>2, <1>3, <2>1, Zenon
<1>5. (state = "service_pending" =>
          Suspends(CurrentSlot, Where(staged.txn_id, pc, fp), cells, staged))'
  BY <1>1, <1>2, Zenon DEF DecisionIsCurrent
<1>6. (state = "result_pending" =>
          Decides(CurrentSlot, Where(staged.txn_id, pc, fp), cells,
                  result_payload(staged)))'
  BY <1>1, <1>2, Zenon DEF DecisionIsCurrent, result_payload
<1>7. phase' # "requested" /\ phase' # "retiring"
  BY <1>1
<1> QED
  BY <1>4, <1>5, <1>6, <1>7, Zenon DEF DecisionIsCurrent

\* RETIRE is for the result the slot decides.
LEMMA RetireDecides ==
  ASSUME HInv, DecisionIsCurrent, SendRetire
  PROVE  DecisionIsCurrent'
<1>1. /\ phase \in {"requested", "answered"} /\ tx # None /\ tx.status = "OK"
      /\ result' = tx.payload /\ phase' = "retiring" /\ tx' = None
      /\ UNCHANGED <<state, staged, program, cells, pc, fp>>
  BY DEF SendRetire, ResultArrives, LaneIdle, txnVars, memVars
<1>2. CurrentSlot' = CurrentSlot
  BY <1>1 DEF CurrentSlot
<1>3. state = "result_pending" /\ tx.payload = result_payload(staged)
  BY <1>1 DEF HInv, RepliesAreTrue, Exchanging
<1>4. result'.txn_id = staged.txn_id
  BY <1>1, <1>3 DEF result_payload
<1>5. Decides(CurrentSlot, Where(staged.txn_id, pc, fp), cells, result_payload(staged))
  BY <1>3, Zenon DEF DecisionIsCurrent
<1>6. Decides(CurrentSlot, Where(result.txn_id, pc, fp), cells, result)'
  BY <1>1, <1>2, <1>3, <1>4, <1>5, Zenon
<1>7. Decides(CurrentSlot, Where(staged.txn_id, pc, fp), cells, result_payload(staged))'
  BY <1>1, <1>2, <1>5, Zenon DEF result_payload
<1>8. state' # "service_pending" /\ phase' # "requested" /\ phase' # "answered"
  BY <1>1, <1>3
<1> QED
  BY <1>6, <1>7, <1>8, Zenon DEF DecisionIsCurrent

\* RETIRED leaves nothing held.
LEMMA ApplyDecides ==
  ASSUME HInv, Apply
  PROVE  DecisionIsCurrent'
<1>1. /\ phase = "retiring" /\ tx # None /\ tx.status = "RETIRED"
      /\ phase' = "ready" /\ UNCHANGED <<state, staged>>
  BY DEF Apply, LaneIdle, txnVars
<1>2. state' = "idle"
  BY <1>1 DEF HInv, RepliesAreTrue, Exchanging
<1>3. /\ state' \notin {"service_pending", "result_pending"}
      /\ phase' \notin {"requested", "answered", "retiring"}
  BY <1>1, <1>2
<1> QED
  BY <1>3, Zenon DEF DecisionIsCurrent

\* Every step.
LEMMA DecisionStaysCurrent ==
  HInv /\ DecisionIsCurrent /\ [HostNext]_hrVars => DecisionIsCurrent'
<1> SUFFICES ASSUME HInv, DecisionIsCurrent, [HostNext]_hrVars
             PROVE  DecisionIsCurrent'
  OBVIOUS
<1>1. CASE HostStep
  BY <1>1, ExitsDecideNothing, AnswerDecides, RetireDecides, ApplyDecides, Zenon
  DEF HostStep
<1>2. CASE Deliver \/ Corrupt
  BY <1>2, LaneDecides
<1>3. CASE BoardReset \/ UNCHANGED hrVars
  <2>1. /\ UNCHANGED <<program, cells, pc, fp, phase, outstanding, result>>
        /\ \/ state' = "idle" /\ tx' = None
           \/ UNCHANGED <<state, staged, tx>>
    BY <1>3 DEF BoardReset, Reset, hrVars, vars, hostVars, memVars, adapterVars
  <2> QED
    BY <2>1, DecisionKept
<1> QED
  BY <1>1, <1>2, <1>3 DEF HostNext

\* The whole effect of the instruction the host stands at, on a memory.
Performs(decision) ==
    /\ decision \in Result
    /\ Decides(CurrentSlot, At, cells, decision)
    /\ Settled(decision).ok
    /\ cells' = Settled(decision).cells
    /\ deferred' = Settled(decision).still_open
    /\ access_counts' = Tally(decision.accesses)
    /\ pc' = decision.next_pc
    /\ fp' = decision.next_fp

\* The host's memory, open equalities, access counts, pc and fp, which the
\* program never changes under.
programVars == <<program, cells, deferred, access_counts, pc, fp>>

ExecutesCurrent ==
    Prepares /\ (\E decision : Performs(decision)) /\ program' = program

\* Only RETIRED, taken for this step's, changes what the program computes on.
LEMMA StepExecutes ==
  ASSUME HInv, DecisionIsCurrent, [HostNext]_hrVars
  PROVE  [ExecutesCurrent]_programVars
<1>1. CASE Apply
  <2>1. phase = "retiring" /\ program' = program
    BY <1>1 DEF Apply
  <2>2. Prepares
    BY <2>1 DEF HInv, JobIsPrepared, Exchanging
  <2>3. result \in Result /\ result.txn_id = txn_id
    BY <2>1 DEF HInv, RetiringIsStaged
  <2>4. Decides(CurrentSlot, At, cells, result)
    <3>1. Where(result.txn_id, pc, fp) = At
      BY <2>3, Zenon DEF Where, At
    <3> QED
      BY <2>1, <3>1, Zenon DEF DecisionIsCurrent
  <2>5. \/ /\ Settled(result).ok
           /\ cells' = Settled(result).cells
           /\ deferred' = Settled(result).still_open
           /\ access_counts' = Tally(result.accesses)
           /\ pc' = result.next_pc
           /\ fp' = result.next_fp
        \/ UNCHANGED <<cells, deferred, access_counts, pc, fp>>
    BY <1>1, Zenon DEF Apply, Advance, memVars
  <2>6. CASE UNCHANGED <<cells, deferred, access_counts, pc, fp>>
    BY <2>1, <2>6 DEF programVars
  <2>7. CASE /\ Settled(result).ok
             /\ cells' = Settled(result).cells
             /\ deferred' = Settled(result).still_open
             /\ access_counts' = Tally(result.accesses)
             /\ pc' = result.next_pc
             /\ fp' = result.next_fp
    <3>1. Performs(result)
      BY <2>3, <2>4, <2>7, Zenon DEF Performs
    <3> QED
      BY <2>1, <2>2, <3>1, Zenon DEF ExecutesCurrent
  <2> QED
    BY <2>5, <2>6, <2>7
<1>2. CASE ~Apply
  <2>1. UNCHANGED <<program, memVars, pc, fp>>
    BY <1>2, Zenon
    DEF HostNext, HostStep, FinishNegotiate, NegotiateRaises, Prepare, Halt,
        ExchangeRaises, AnswerService, ServiceFails, RequestFaults,
        ServiceResponseFaults, RetireFaults, SendRetire, RefuseResult, Raise, Return,
        Deliver, Corrupt, BoardReset, hrVars, hostVars
  <2> QED
    BY <2>1 DEF programVars, memVars
<1> QED
  BY <1>1, <1>2

\* Whatever the lane loses or damages, however often the caller retries and
\* whenever the board is reset, what the program computes on changes only by
\* the whole effect of the instruction the host stands at, as the endpoint's
\* rules decide it over the host's own memory and with the service's digest of
\* that instruction's own operands: never a decision for another state, and never
\* part of one (HostRuntime.step).
THEOREM HostExecutesInstructions == HostSpec => [][ExecutesCurrent]_programVars
<1>1. HostInit => DecisionIsCurrent
  BY DEF HostInit, Init, DecisionIsCurrent
<1>2. HInv /\ DecisionIsCurrent /\ [HostNext]_hrVars => DecisionIsCurrent'
  BY DecisionStaysCurrent
<1>3. HInv /\ DecisionIsCurrent /\ [HostNext]_hrVars => [ExecutesCurrent]_programVars
  BY StepExecutes
<1> QED
  BY <1>1, <1>2, <1>3, HostInvariance, PTL DEF HostSpec
=============================================================================
