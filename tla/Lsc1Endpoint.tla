---------------------------- MODULE Lsc1Endpoint ----------------------------
(***************************************************************************)
(* The LSC-1 endpoint at frame granularity (sim/lsc1_transaction.py, class *)
(* Lsc1Endpoint): it decides one host-prepared transaction at a time,      *)
(* stages the result, and moves its committed (pc, fp) only when a RETIRE  *)
(* names the staged transaction and the CRC of the result it emitted.      *)
(*                                                                         *)
(* One action is one frame dispatched (_dispatch and the handler below     *)
(* it), a response drained by the host, an ABORT or a reset.  The byte     *)
(* lane below the frames is module Lsc1ByteLane.  abort_count is a         *)
(* statistic nothing reads and is left out; the fault detail byte is       *)
(* opaque.                                                                 *)
(***************************************************************************)
EXTENDS Lsc1Transition

CONSTANTS InstructionRequests, \* the instruction requests a host may send
          TxnIds,              \* transaction ids on RETIRE, SERVICE_RESPONSE
          ServiceIds,          \* service ids on SERVICE_RESPONSE
          Digests,             \* pairs of words on SERVICE_RESPONSE
          CrcWords,            \* result_crc words on RETIRE
          Crc(_),              \* CRC-32 of a result payload
          ServiceSeqMax,       \* 0xFFFFFFFE in the code
          RetireSeqMax,        \* bound: retirements explored after a reset
          None                 \* no transaction, no response

ASSUME BoundAssumption ==
    /\ ServiceSeqMax \in Nat
    /\ RetireSeqMax \in Nat

\* What decode_request_payload makes of a frame that reaches a handler.
IsRequest(request) ==
    /\ request.opcode \in INSTRUCTION_OPCODES
    /\ request.pc \in Nat
    /\ request.fp \in Nat
    /\ request.profile \in Profile
    /\ request.opcode = "JUMP" =>
          request.dest_pc \in Nat /\ request.dest_fp \in Nat

ASSUME RequestAssumption ==
    \A request \in InstructionRequests : IsRequest(request)

VARIABLES state,        \* TxnState
          profile,      \* negotiated profile; survives ABORT
          committed,    \* committed_pc and committed_fp
          state_valid,  \* a transaction has retired since reset
          retire_seq,
          service_seq,
          last_status,
          last_fault,
          staged,       \* StagedTransaction or None
          tx            \* the response whose bytes are outstanding, or None

txnVars  == <<state, staged>>
commitVars == <<committed, state_valid, retire_seq>>
vars == <<state, profile, committed, state_valid, retire_seq, service_seq,
          last_status, last_fault, staged, tx>>

TxnState == {"idle", "result_pending", "service_pending"}

\* Status codes at or above 0x80.
FaultStatus ==
    {"BAD_SOF", "BAD_VERSION", "BAD_OPCODE", "BAD_LENGTH", "BAD_CRC",
     "BAD_FLAGS", "BAD_PROFILE", "BAD_STATE", "BAD_CELL", "U32_OVERFLOW",
     "BAD_POINTER", "BAD_INVERSE", "WRITE_CONFLICT", "DEREF_MISMATCH",
     "MUL_BACKSOLVE_ZERO", "BAD_BRANCH_PROPOSAL", "UNSUPPORTED_IN_PROFILE",
     "BAD_SERVICE", "RETIRE_MISMATCH", "ABORTED", "STATE_MISMATCH",
     "INDEX_RANGE", "ALIAS_INCONSISTENT"}
Status == {"OK", "SERVICE_REQUIRED", "RETIRED", "INFO"} \cup FaultStatus

\* What _dispatch and decode_request_payload answer before any handler runs.
FrameFaults == {"BAD_SOF", "BAD_LENGTH", "BAD_CRC", "BAD_VERSION", "BAD_FLAGS",
                "BAD_OPCODE", "BAD_PROFILE", "BAD_CELL", "BAD_BRANCH_PROPOSAL"}

ScalarState == [pc : Nat, fp : Nat]

\* None is not mistaken for a transition offered for retirement.
ASSUME NoneAssumption == None \notin [from : ScalarState, to : ScalarState]

-----------------------------------------------------------------------------
(* Responses                                                               *)

Response(status, txn_id, payload) ==
    [status |-> status, txn_id |-> txn_id, payload |-> payload]

\* _emit: the response goes to the lane and is remembered in the status
\* registers; last_fault keeps the last fault.
Emit(status, txn_id, payload) ==
    /\ tx' = Response(status, txn_id, payload)
    /\ last_status' = status
    /\ last_fault' = IF status \in FaultStatus THEN status ELSE last_fault

\* _fault on a frame that touched nothing.
RejectFrame(status, txn_id) ==
    /\ Emit(status, txn_id, <<>>)
    /\ UNCHANGED <<state, profile, commitVars, service_seq, staged>>

\* rx_ready: request bytes are accepted only with no response outstanding.
RxReady == tx = None

result_payload(txn) ==
    [txn_id |-> txn.txn_id, next_pc |-> txn.next_pc, next_fp |-> txn.next_fp,
     writes |-> txn.writes, deferred |-> txn.deferred,
     accesses |-> txn.accesses]

\* Mutant: the CRC is taken before the writes are attached.
FinishTransactionEarlyCrc(txn) ==
    LET payload == result_payload(txn)
    IN  /\ staged' = [txn EXCEPT !.result_crc =
                           Crc([payload EXCEPT !.writes = <<>>])]
        /\ state' = "result_pending"
        /\ Emit("OK", txn.txn_id, payload)

\* _finish_transaction: the result is offered, nothing is committed.
FinishTransaction(txn) ==
    LET payload == result_payload(txn)
    IN  /\ staged' = [txn EXCEPT !.result_crc = Crc(payload)]
        /\ state' = "result_pending"
        /\ Emit("OK", txn.txn_id, payload)

\* _discard: the staged transition is abandoned.
Discard ==
    /\ state' = "idle"
    /\ staged' = None

-----------------------------------------------------------------------------
(* NEGOTIATE, STATUS_QUERY and frames no handler sees                      *)

\* The fault echoes transaction 0, but for a known opcode with the wrong
\* length, which echoes the prefix _available_txn_id reads.
BadFrame(status, prefix) ==
    /\ RxReady
    /\ RejectFrame(status, IF status = "BAD_LENGTH" THEN prefix ELSE 0)

\* Mutant: NEGOTIATE accepted in any state.
NegotiateFaultAnyState(version_ok) ==
    IF ~version_ok THEN "BAD_VERSION" ELSE "OK"

NegotiateFault(version_ok) ==
    IF state # "idle" THEN "BAD_STATE"
    ELSE IF ~version_ok THEN "BAD_VERSION"
    ELSE "OK"

RejectNegotiate(version_ok) ==
    /\ RxReady
    /\ NegotiateFault(version_ok) # "OK"
    /\ RejectFrame(NegotiateFault(version_ok), 0)

handle_negotiate(proposed) ==
    /\ RxReady
    /\ NegotiateFault(TRUE) = "OK"
    /\ profile' = proposed
    /\ Emit("OK", 0, [profile |-> proposed])
    /\ UNCHANGED <<txnVars, commitVars, service_seq>>

handle_status_query ==
    /\ RxReady
    /\ Emit("INFO", 0,
            [state |-> state, staged |-> staged # None,
             last_status |-> last_status, retire_seq |-> retire_seq,
             last_fault |-> last_fault, committed |-> committed,
             state_valid |-> state_valid])
    /\ UNCHANGED <<txnVars, profile, commitVars, service_seq>>

-----------------------------------------------------------------------------
(* Instructions                                                            *)

\* The guards of _handle_instruction, in order.
GuardFault(request) ==
    IF state # "idle" THEN "BAD_STATE"
    ELSE IF request.profile # profile THEN "BAD_PROFILE"
    ELSE IF state_valid /\ <<request.pc, request.fp>> # <<committed.pc, committed.fp>>
         THEN "STATE_MISMATCH"
    ELSE IF request.pc >= INDEX_LIMIT \/ request.fp >= INDEX_LIMIT
         THEN "INDEX_RANGE"
    ELSE IF request.opcode = "BLAKE3_REQUEST" /\ service_seq >= ServiceSeqMax
         THEN "BAD_SERVICE"
    ELSE "OK"

\* The guards, then the transition rules: nothing is staged by either.
RejectInstruction(request) ==
    /\ RxReady
    /\ IF GuardFault(request) # "OK"
       THEN RejectFrame(GuardFault(request), request.txn_id)
       ELSE /\ execute(request).status \in FaultStatus
            /\ RejectFrame(execute(request).status, request.txn_id)

DecideInstruction(request) ==
    /\ RxReady
    /\ GuardFault(request) = "OK"
    /\ LET outcome == execute(request)
       IN  /\ outcome.status = "OK"
           /\ FinishTransaction(
                [txn_id |-> request.txn_id, profile |-> request.profile,
                 pc |-> request.pc, fp |-> request.fp,
                 next_pc |-> outcome.next_pc, next_fp |-> outcome.next_fp,
                 writes |-> outcome.writes, deferred |-> outcome.deferred,
                 accesses |-> outcome.accesses, service_id |-> 0,
                 frame |-> <<>>, result_crc |-> None])
    /\ UNCHANGED <<profile, commitVars, service_seq>>

\* BLAKE3_REQUEST suspends: the operands go to the host with a fresh id.
SuspendInstruction(request) ==
    /\ RxReady
    /\ GuardFault(request) = "OK"
    /\ LET outcome == execute(request)
       IN  /\ outcome.status = "SERVICE_REQUIRED"
           /\ staged' =
                [txn_id |-> request.txn_id, profile |-> request.profile,
                 pc |-> request.pc, fp |-> request.fp,
                 next_pc |-> outcome.next_pc, next_fp |-> outcome.next_fp,
                 writes |-> <<>>, deferred |-> <<>>,
                 accesses |-> outcome.accesses, service_id |-> service_seq + 1,
                 frame |-> outcome.frame, result_crc |-> None]
           /\ Emit("SERVICE_REQUIRED", request.txn_id,
                   [service_id |-> service_seq + 1,
                    operands |-> outcome.operands])
    /\ state' = "service_pending"
    /\ service_seq' = service_seq + 1
    /\ UNCHANGED <<profile, commitVars>>

-----------------------------------------------------------------------------
(* SERVICE_RESPONSE                                                        *)

ServiceFault(txn_id, service_id, kind_ok) ==
    IF state # "service_pending" THEN "BAD_STATE"
    ELSE IF txn_id # staged.txn_id \/ service_id # staged.service_id
         THEN "BAD_SERVICE"
    ELSE IF ~kind_ok THEN "BAD_SERVICE"
    ELSE "OK"

\* Mutant: a misaddressed response discards the suspended transaction.
RejectServiceResponseDiscards(txn_id, service_id, kind_ok) ==
    /\ RxReady
    /\ ServiceFault(txn_id, service_id, kind_ok) # "OK"
    /\ Discard
    /\ Emit(ServiceFault(txn_id, service_id, kind_ok), txn_id, <<>>)
    /\ UNCHANGED <<profile, commitVars, service_seq>>

\* A misaddressed response leaves the suspended transaction as it is.
RejectServiceResponse(txn_id, service_id, kind_ok) ==
    /\ RxReady
    /\ ServiceFault(txn_id, service_id, kind_ok) # "OK"
    /\ RejectFrame(ServiceFault(txn_id, service_id, kind_ok), txn_id)

\* The digest is folded in by write_once; a conflict discards the transaction.
handle_service_response(txn_id, service_id, digest) ==
    /\ RxReady
    /\ ServiceFault(txn_id, service_id, TRUE) = "OK"
    /\ LET resumed == resume_blake3(staged.frame, staged.accesses, digest)
       IN  \/ /\ resumed.status = "OK"
              /\ FinishTransaction([staged EXCEPT !.writes = resumed.writes,
                                                  !.service_id = 0])
           \/ /\ resumed.status # "OK"
              /\ Discard
              /\ Emit(resumed.status, txn_id, <<>>)
    /\ UNCHANGED <<profile, commitVars, service_seq>>

-----------------------------------------------------------------------------
(* RETIRE                                                                  *)

RejectRetire(txn_id) ==
    /\ RxReady
    /\ state # "result_pending"
    /\ RejectFrame("BAD_STATE", txn_id)

RetireMatches(txn_id, result_crc) ==
    txn_id = staged.txn_id /\ result_crc = staged.result_crc

\* Host and endpoint disagree on what was decided: abandon it.
MismatchRetire(txn_id, result_crc) ==
    /\ RxReady
    /\ state = "result_pending"
    /\ ~RetireMatches(txn_id, result_crc)
    /\ Discard
    /\ Emit("RETIRE_MISMATCH", txn_id, <<>>)
    /\ UNCHANGED <<profile, commitVars, service_seq>>

\* Mutant: the retired transaction stays staged, so a repeated RETIRE commits.
handle_retire_keeps(txn_id, result_crc) ==
    /\ RxReady
    /\ retire_seq < RetireSeqMax
    /\ state = "result_pending"
    /\ RetireMatches(txn_id, result_crc)
    /\ committed' = [pc |-> staged.next_pc, fp |-> staged.next_fp]
    /\ state_valid' = TRUE
    /\ retire_seq' = retire_seq + 1
    /\ Emit("RETIRED", txn_id,
            [retire_seq |-> retire_seq + 1, committed |-> committed'])
    /\ UNCHANGED <<profile, service_seq, txnVars>>

\* The only step that changes committed state.
handle_retire(txn_id, result_crc) ==
    /\ RxReady
    /\ retire_seq < RetireSeqMax
    /\ state = "result_pending"
    /\ RetireMatches(txn_id, result_crc)
    /\ committed' = [pc |-> staged.next_pc, fp |-> staged.next_fp]
    /\ state_valid' = TRUE
    /\ retire_seq' = retire_seq + 1
    /\ Discard
    /\ Emit("RETIRED", txn_id,
            [retire_seq |-> retire_seq + 1, committed |-> committed'])
    /\ UNCHANGED <<profile, service_seq>>

-----------------------------------------------------------------------------
(* The lane: the host drains a response, pulls ABORT or pulls reset        *)

TakeResponse ==
    /\ tx # None
    /\ tx' = None
    /\ UNCHANGED <<txnVars, profile, commitVars, service_seq, last_status,
                   last_fault>>

\* Mutant: the service ids start again as after a reset.
AbortRestartsIds ==
    /\ state' = "idle"
    /\ staged' = None
    /\ tx' = None
    /\ last_status' = "ABORTED"
    /\ last_fault' = "ABORTED"
    /\ service_seq' = 0
    /\ UNCHANGED <<profile, commitVars>>

\* The profile, committed state and both counters survive.
Abort ==
    /\ state' = "idle"
    /\ staged' = None
    /\ tx' = None
    /\ last_status' = "ABORTED"
    /\ last_fault' = "ABORTED"
    /\ UNCHANGED <<profile, commitVars, service_seq>>

Init ==
    /\ state = "idle"
    /\ profile = INTERPRETER_COMPAT
    /\ committed = [pc |-> 0, fp |-> 0]
    /\ state_valid = FALSE
    /\ retire_seq = 0
    /\ service_seq = 0
    /\ last_status = "OK"
    /\ last_fault = "OK"
    /\ staged = None
    /\ tx = None

Reset ==
    /\ state' = "idle"
    /\ profile' = INTERPRETER_COMPAT
    /\ committed' = [pc |-> 0, fp |-> 0]
    /\ state_valid' = FALSE
    /\ retire_seq' = 0
    /\ service_seq' = 0
    /\ last_status' = "OK"
    /\ last_fault' = "OK"
    /\ staged' = None
    /\ tx' = None

Next ==
    \/ \E status \in FrameFaults, prefix \in TxnIds \cup {0} :
          BadFrame(status, prefix)
    \/ \E version_ok \in BOOLEAN : RejectNegotiate(version_ok)
    \/ \E proposed \in Profile : handle_negotiate(proposed)
    \/ handle_status_query
    \/ \E request \in InstructionRequests :
          \/ RejectInstruction(request)
          \/ DecideInstruction(request)
          \/ SuspendInstruction(request)
    \/ \E txn_id \in TxnIds, service_id \in ServiceIds :
          \/ \E kind_ok \in BOOLEAN :
                RejectServiceResponse(txn_id, service_id, kind_ok)
          \/ \E digest \in Digests :
                handle_service_response(txn_id, service_id, digest)
    \/ \E txn_id \in TxnIds : RejectRetire(txn_id)
    \/ \E txn_id \in TxnIds, result_crc \in CrcWords :
          \/ MismatchRetire(txn_id, result_crc)
          \/ handle_retire(txn_id, result_crc)
    \/ TakeResponse
    \/ Abort
    \/ Reset

Spec == Init /\ [][Next]_vars

-----------------------------------------------------------------------------
(* Properties                                                              *)

\* Every variable keeps its type, and nothing is staged in the idle state.
TypeOK ==
    /\ state \in TxnState
    /\ profile \in Profile
    /\ committed \in ScalarState
    /\ state_valid \in BOOLEAN
    /\ retire_seq \in 0..RetireSeqMax
    /\ service_seq \in 0..ServiceSeqMax
    /\ last_status \in Status
    /\ last_fault \in FaultStatus \cup {"OK"}
    /\ state = "idle" => staged = None
    /\ tx # None => tx.status \in Status

\* A staged transaction was decided for the state that is still committed and
\* under the profile that is still negotiated: no NEGOTIATE, retirement or
\* rejected frame slips in between its decision and its RETIRE, so retiring
\* it can neither fork nor rewind the scalar state (guards of
\* _handle_negotiate and _handle_instruction).
StagedContinuesCommitted ==
    state # "idle" =>
        /\ state_valid => staged.pc = committed.pc /\ staged.fp = committed.fp
        /\ staged.profile = profile

IsResult(response) ==
    response.status = "OK" /\ "next_pc" \in DOMAIN response.payload

\* While a result is on the wire, a host that hashes the payload it reads and
\* answers with RETIRE names exactly the staged transaction, and what would
\* be committed is what the payload says (_finish_transaction, _handle_retire).
OfferedResultRetires ==
    (tx # None /\ IsResult(tx)) =>
        /\ state = "result_pending"
        /\ RetireMatches(tx.txn_id, Crc(tx.payload))
        /\ tx.payload.next_pc = staged.next_pc
        /\ tx.payload.next_fp = staged.next_fp

\* The committed state stays inside the index space, but for the one pc just
\* past its end: pc + 1 of a scalar instruction at INDEX_LIMIT - 1, which only
\* BLAKE3 refuses to step over (_execute_blake3).
CommittedInIndexSpace ==
    committed.pc \in 0..INDEX_LIMIT /\ committed.fp \in 0..(INDEX_LIMIT - 1)

\* Statuses that abandon what is staged, by the state they arrive in.
DiscardingFaults ==
    {status \in {"RETIRE_MISMATCH", "WRITE_CONFLICT"} :
        state = IF status = "RETIRE_MISMATCH" THEN "result_pending"
                                              ELSE "service_pending"}

\* What a fault response does to a transaction the endpoint already holds
\* depends only on the status and the state it arrived in, as the host's
\* FRAME_ONLY_FAULTS and RETIRE_DISCARDING_FAULTS assume: RETIRE_MISMATCH and
\* a digest WRITE_CONFLICT discard it, every other fault leaves it in place,
\* and none of them moves committed state.
FaultStep ==
    (tx' # None /\ tx' # tx /\ tx'.status \in FaultStatus) =>
        /\ UNCHANGED <<profile, commitVars, service_seq>>
        /\ IF tx'.status \in DiscardingFaults
           THEN state' = "idle" /\ staged' = None
           ELSE UNCHANGED txnVars

\* Once the pc past the end is committed, every instruction is refused: no
\* transaction is staged again until reset (STATE_MISMATCH and INDEX_RANGE
\* guards together).
EndStep ==
    (state_valid /\ committed.pc = INDEX_LIMIT) =>
        staged' = None /\ (committed' = committed \/ ~state_valid')

\* Every step keeps both rules.
TransactionDiscipline == [][FaultStep /\ EndStep]_vars

\* The transition a RETIRE would commit now.
Offer ==
    IF state = "result_pending"
    THEN [from |-> [pc |-> staged.pc, fp |-> staged.fp],
          to   |-> [pc |-> staged.next_pc, fp |-> staged.next_fp]]
    ELSE None

Ledger == INSTANCE Retirement
            WITH NoOffer <- None, current <- committed, valid <- state_valid,
                 retired <- retire_seq, offer <- Offer

\* The endpoint implements the retirement ledger: whatever frames, services,
\* aborts and resets arrive, committed state moves only by retiring the one
\* decided transition, which continues it, and at most once.
ImplementsRetirement == Ledger!LedgerSpec
=============================================================================
