---------------------------- MODULE HostRuntime -----------------------------
(***************************************************************************)
(* The host's transaction loop (host/runtime.py, HostRuntime; the service  *)
(* binding of host/blake3_service.py, ModelServiceAdapter) composed with   *)
(* the endpoint over a lane that may lose or corrupt a frame.              *)
(*                                                                         *)
(* step() is sequential: it blocks in _exchange until a reply is decoded   *)
(* or an exception is raised.  A phase is the exchange it is blocked in;   *)
(* one action is the code between two exchanges.  An exchange that raises  *)
(* (a lane that does not settle, a deadline, a reply that does not decode) *)
(* may or may not have reached the endpoint.  An exception leaves step()   *)
(* and the caller may call it again, as the repository's tests do.         *)
(*                                                                         *)
(* StepRecord and lane statistics are left out.  Text is abstracted from   *)
(* exceptions: raised, or returned with a fault.                           *)
(***************************************************************************)
EXTENDS Lsc1Endpoint, HostPrepare, FiniteSets

CONSTANTS Programs,      \* programs: operations, pc0 and fp0
          Memories,      \* the memories a run may start from
          HostProfile,   \* the profile the runtime negotiates
          Compress(_),   \* external: the two words of the BLAKE3 service
          PhysicalLane,  \* the runtime is PhysicalHostRuntime
          MaxTxn         \* bound: transactions drawn

ASSUME HostAssumption ==
    /\ HostProfile \in Profile
    /\ PhysicalLane \in BOOLEAN
    /\ MaxTxn \in Nat

\* load: every slot is of a known kind and has its operands.
IsProgram(prog) ==
    /\ Len(prog.operations) \in Nat
    /\ DOMAIN prog.operations = 1..Len(prog.operations)
    /\ \A i \in DOMAIN prog.operations : IsSlot(prog.operations[i])
    /\ prog.pc0 \in Nat
    /\ prog.fp0 \in Nat

\* What decode_result_payload returns.
Result == [txn_id : Nat, next_pc : Nat, next_fp : Nat,
           writes : Seq([address : Address, value : Word]),
           deferred : Seq([target : Address, local : Address]),
           accesses : Seq(Address)]

ASSUME ProgramAssumption ==
    /\ \A prog \in Programs : IsProgram(prog)
    /\ Memories \subseteq [Address -> Cell]
    /\ None \notin Result

VARIABLES program,
          cells, deferred, access_counts,   \* host/memory.py
          pc, fp, txn_id,                   \* HostRuntime
          phase,        \* the exchange step() is blocked in, or "ready"
          wire,         \* the frame of that exchange has not reached the endpoint
          job,          \* the request in flight and the addresses it packed
          result,       \* the decoded result the host asks to retire
          outstanding,  \* the adapter's outstanding request, or None
          completed,    \* the adapter's completed keys
          ended         \* how the last call of step() or run() ended

memVars     == <<cells, deferred, access_counts>>
adapterVars == <<outstanding, completed>>
hostVars    == <<program, memVars, pc, fp, txn_id, phase, wire, job, result,
                 adapterVars, ended>>
hrVars      == <<vars, hostVars>>

Phase == {"negotiating", "ready", "requested", "answered", "retiring", "closed"}

\* Program.halt_pc: the sentinel slot.
HaltPc == Len(program.operations) - 1

IsBlake3 == job.request.opcode = "BLAKE3_REQUEST"

\* service_key is not None: this step has answered a SERVICE_REQUIRED.
Serviced == outstanding # None /\ outstanding.txn_id = txn_id

-----------------------------------------------------------------------------
(* The lane                                                                *)

\* The frame in flight reaches the endpoint, which handles it.
DeliverNegotiate ==
    /\ phase = "negotiating"
    /\ handle_negotiate(HostProfile)

DeliverRequest ==
    /\ phase = "requested"
    /\ \/ RejectInstruction(job.request)
       \/ DecideInstruction(job.request)
       \/ SuspendInstruction(job.request)

DeliverServiceResponse ==
    /\ phase = "answered"
    /\ \/ RejectServiceResponse(outstanding.txn_id, outstanding.service_id, TRUE)
       \/ handle_service_response(outstanding.txn_id, outstanding.service_id,
                                  Compress(outstanding.operands))

\* crc32(reply.payload) of build_retire.
RetireCrc == Crc(result)

DeliverRetire ==
    /\ phase = "retiring"
    /\ \/ RejectRetire(result.txn_id)
       \/ handle_retire(result.txn_id, RetireCrc)

\* RETIRE with another result CRC than the host's, the one boundary the
\* repository drives deliberately (CorruptFirstRetireRuntime._exchange).
DeliverWrongRetire ==
    /\ phase = "retiring"
    /\ \E crc \in CrcWords \ {RetireCrc} : MismatchRetire(result.txn_id, crc)

Deliver ==
    /\ wire
    /\ wire' = FALSE
    /\ DeliverNegotiate \/ DeliverRequest \/ DeliverServiceResponse \/ DeliverRetire
       \/ DeliverWrongRetire
    /\ UNCHANGED <<program, memVars, pc, fp, txn_id, phase, job, result,
                   adapterVars, ended>>

\* The frame is damaged on the way: the endpoint answers the framing fault.
Corrupt ==
    /\ wire
    /\ wire' = FALSE
    /\ \E status \in {"BAD_SOF", "BAD_LENGTH", "BAD_CRC"} : BadFrame(status, 0)
    /\ UNCHANGED <<program, memVars, pc, fp, txn_id, phase, job, result,
                   adapterVars, ended>>

\* The board is reset under the host.
BoardReset ==
    /\ Reset
    /\ UNCHANGED hostVars

\* self.endpoint.step(abort=True).  PhysicalHostRuntime passes no endpoint to
\* HostRuntime.__init__, so there it aborts the unused model endpoint the
\* constructor created, and the board keeps what it holds.
AbortEndpoint ==
    IF PhysicalLane
    THEN /\ tx' = None
         /\ UNCHANGED <<txnVars, profile, commitVars, service_seq, last_status,
                        last_fault>>
    ELSE Abort

\* The reply is read, or lost with the exchange.
LaneIdle ==
    /\ tx' = None
    /\ UNCHANGED <<txnVars, profile, commitVars, service_seq, last_status,
                   last_fault>>

-----------------------------------------------------------------------------
(* ModelServiceAdapter: the key is (txn_id, service_id) within the         *)
(* runtime's one session epoch                                             *)

Key(required) == [txn_id |-> required.txn_id, service_id |-> required.service_id]

\* accept_required: another key or other operands outstanding, or a replay.
Accepts(required) ==
    IF outstanding # None THEN required = outstanding
    ELSE Key(required) \notin completed

\* adapter.abort(): the outstanding key is tombstoned.
AdapterAbort ==
    /\ completed' = IF outstanding = None THEN completed
                    ELSE completed \cup {Key(outstanding)}
    /\ outstanding' = None

-----------------------------------------------------------------------------
(* Ways out of step()                                                      *)

Return(how) ==
    /\ phase' = "ready"
    /\ wire' = FALSE
    /\ ended' = how
    /\ UNCHANGED <<program, memVars, pc, fp, txn_id, job, result>>

\* Mutant: only the adapter is aborted.
RaiseKeepsEndpoint(aborts) ==
    /\ IF aborts THEN LaneIdle /\ AdapterAbort
       ELSE LaneIdle /\ UNCHANGED adapterVars
    /\ Return("raised")

\* The except clauses: with a service in play the endpoint and the adapter
\* are aborted; otherwise the exception leaves both as they are.
Raise(aborts) ==
    /\ IF aborts THEN AbortEndpoint /\ AdapterAbort
       ELSE LaneIdle /\ UNCHANGED adapterVars
    /\ Return("raised")

FRAME_ONLY_FAULTS ==
    {"BAD_SOF", "BAD_VERSION", "BAD_OPCODE", "BAD_LENGTH", "BAD_CRC", "BAD_FLAGS",
     "BAD_STATE", "BAD_SERVICE"}
RETIRE_DISCARDING_FAULTS == {"RETIRE_MISMATCH"}

\* Mutant: any fault that echoes the transaction ends the step.
IsStepFaultAny(reply, is_staged) ==
    reply.status \in FaultStatus /\ reply.txn_id = txn_id

\* check_fault_response does not raise.
IsStepFault(reply, is_staged) ==
    /\ reply.status \in FaultStatus
    /\ reply.txn_id = txn_id
    /\ IF is_staged THEN reply.status \in RETIRE_DISCARDING_FAULTS
       ELSE reply.status \notin FRAME_ONLY_FAULTS

-----------------------------------------------------------------------------
(* Construction: NEGOTIATE                                                 *)

\* HostRuntime.__init__ raises unless the reply is OK with the expected
\* schema; there is then no runtime.
FinishNegotiate ==
    /\ phase = "negotiating"
    /\ tx # None
    /\ LaneIdle
    /\ phase' = IF tx.status = "OK" /\ tx.payload.profile = HostProfile
                THEN "ready" ELSE "closed"
    /\ UNCHANGED <<program, memVars, pc, fp, txn_id, wire, job, result,
                   adapterVars, ended>>

NegotiateRaises ==
    /\ phase = "negotiating"
    /\ LaneIdle
    /\ phase' = "closed"
    /\ wire' = FALSE
    /\ UNCHANGED <<program, memVars, pc, fp, txn_id, job, result, adapterVars,
                   ended>>

-----------------------------------------------------------------------------
(* step(): prepare and send                                                *)

\* _prepare draws a transaction id, then refuses or packs the request.
Prepare ==
    /\ phase = "ready"
    /\ pc < HaltPc
    /\ txn_id < MaxTxn
    /\ txn_id' = txn_id + 1
    /\ LET at == [txn_id |-> txn_id', pc |-> pc, fp |-> fp, profile |-> HostProfile]
           prepared == prepare(program.operations[pc + 1], at, cells)
       IN  \/ /\ prepared.refused = "no"
              /\ job' = [request |-> prepared.request, addresses |-> prepared.addresses]
              /\ phase' = "requested"
              /\ wire' = TRUE
              /\ UNCHANGED ended
           \/ /\ prepared.refused # "no"
              /\ ended' = "fault"
              /\ UNCHANGED <<job, phase, wire>>
    /\ UNCHANGED <<vars, program, memVars, pc, fp, result, adapterVars>>

\* The run ends: the sentinel with fp = 0, the sentinel with another fp, or a
\* pc outside the program, where program.at raises.
Halt ==
    /\ phase = "ready"
    /\ pc >= HaltPc
    /\ phase' = "closed"
    /\ ended' = IF pc > HaltPc THEN "raised" ELSE IF fp = 0 THEN "halted" ELSE "fault"
    /\ UNCHANGED <<vars, program, memVars, pc, fp, txn_id, wire, job, result,
                   adapterVars>>

\* An exchange raises, whatever became of its frame and of its reply.
ExchangeRaises ==
    /\ phase \in {"requested", "answered", "retiring"}
    /\ Raise(CASE phase = "requested" -> IsBlake3
               [] phase = "answered"  -> TRUE
               [] phase = "retiring"  -> Serviced)

-----------------------------------------------------------------------------
(* step(): SERVICE_REQUIRED                                                *)

Required ==
    [txn_id |-> tx.txn_id, service_id |-> tx.payload.service_id,
     operands |-> tx.payload.operands]

\* The operands the host packed: all cells but the two outputs.
PreparedOperands ==
    [i \in 1..(Len(job.addresses) - 2) |-> job.request.cells[i].value]

ServiceOffered ==
    /\ phase = "requested"
    /\ tx # None
    /\ tx.status = "SERVICE_REQUIRED"
    /\ IsBlake3

\* accept_required and the binding checks pass and the service answers,
\* within its retries and with two words: SERVICE_RESPONSE goes out.
AnswerService ==
    /\ ServiceOffered
    /\ Accepts(Required)
    /\ Required.txn_id = txn_id
    /\ Required.operands = PreparedOperands
    /\ Compress(Required.operands) \in Word \X Word
    /\ outstanding' = Required
    /\ phase' = "answered"
    /\ wire' = TRUE
    /\ LaneIdle
    /\ UNCHANGED <<program, memVars, pc, fp, txn_id, job, result, completed, ended>>

\* The adapter or a binding check refuses, the service is out of retries, or
\* its digest has the wrong shape.
ServiceFails ==
    /\ ServiceOffered
    /\ IF Accepts(Required)
       THEN completed' = completed \cup {Key(Required)} /\ outstanding' = None
       ELSE AdapterAbort
    /\ AbortEndpoint
    /\ Return("raised")

-----------------------------------------------------------------------------
(* step(): a reply that is not OK                                          *)

\* The instruction was refused.
RequestFaults ==
    /\ phase = "requested"
    /\ tx # None
    /\ tx.status \in FaultStatus
    /\ LaneIdle
    /\ Return(IF IsStepFault(tx, FALSE) THEN "fault" ELSE "raised")
    /\ UNCHANGED adapterVars

\* The service response was refused: the binding is dropped, and the endpoint
\* is aborted unless it has discarded the transaction itself.
ServiceResponseFaults ==
    /\ phase = "answered"
    /\ tx # None
    /\ tx.status \in FaultStatus
    /\ IF tx.status # "WRITE_CONFLICT" THEN AbortEndpoint ELSE LaneIdle
    /\ AdapterAbort
    /\ Return(IF IsStepFault(tx, FALSE) THEN "fault" ELSE "raised")

\* RETIRE was refused: only RETIRE_MISMATCH ends the step; anything else
\* raises and aborts nothing.
RetireFaults ==
    /\ phase = "retiring"
    /\ tx # None
    /\ tx.status \in FaultStatus
    /\ LaneIdle
    /\ IF IsStepFault(tx, TRUE)
       THEN /\ Return("fault")
            /\ IF Serviced THEN AdapterAbort ELSE UNCHANGED adapterVars
       ELSE Return("raised") /\ UNCHANGED adapterVars

-----------------------------------------------------------------------------
(* step(): the result, RETIRE and RETIRED                                  *)

\* What applying a result leaves of the memory.
Settled(res) ==
    LET applied == apply_writes(cells, res.writes)
        settled == resolve_deferred(applied.cells, deferred \o res.deferred)
    IN  [settled EXCEPT !.ok = @ /\ applied.ok]

\* Mutant: the writes are prevalidated, the deferred equalities are not.
PrevalidatesWritesOnly(res) == apply_writes(cells, res.writes).ok

\* _decode_and_prevalidate_result: the batch applies to a copy of the memory,
\* deferred equalities resolved, and stays among the packed addresses.
Prevalidates(res) ==
    LET packed == {job.addresses[i] : i \in DOMAIN job.addresses}
    IN  /\ Settled(res).ok
        /\ \A i \in DOMAIN res.writes : res.writes[i].address \in packed
        /\ \A i \in DOMAIN res.deferred :
              {res.deferred[i].target, res.deferred[i].local} \subseteq packed
        /\ \A i \in DOMAIN res.accesses : res.accesses[i] \in packed

\* A transition result that decodes (decode_result_payload); a BLAKE3 request
\* has to have suspended first.
ResultArrives ==
    /\ phase \in {"requested", "answered"}
    /\ tx # None
    /\ phase = "requested" => ~IsBlake3
    /\ tx.status = "OK"

SendRetire ==
    /\ ResultArrives
    /\ tx.payload.txn_id = txn_id
    /\ Prevalidates(tx.payload)
    /\ result' = tx.payload
    /\ phase' = "retiring"
    /\ wire' = TRUE
    /\ LaneIdle
    /\ UNCHANGED <<program, memVars, pc, fp, txn_id, job, adapterVars, ended>>

RefuseResult ==
    /\ ResultArrives
    /\ ~(tx.payload.txn_id = txn_id /\ Prevalidates(tx.payload))
    /\ Raise(Serviced)

Tally(addresses) ==
    [a \in Address |-> access_counts[a]
        + Cardinality({i \in DOMAIN addresses : addresses[i] = a})]

Advance ==
    /\ pc' = result.next_pc
    /\ fp' = result.next_fp

\* RETIRED: the acknowledgement names this transaction and the state the
\* result promised, or the step raises; then the batch is applied.
Apply ==
    /\ phase = "retiring"
    /\ tx # None
    /\ tx.status = "RETIRED"
    /\ LaneIdle
    /\ phase' = "ready"
    /\ wire' = FALSE
    /\ IF /\ tx.txn_id = txn_id
          /\ tx.payload.committed = [pc |-> result.next_pc, fp |-> result.next_fp]
          /\ Settled(result).ok
       THEN /\ cells' = Settled(result).cells
            /\ deferred' = Settled(result).still_open
            /\ access_counts' = Tally(result.accesses)
            /\ Advance
            /\ ended' = "ok"
            /\ IF Serviced
               THEN /\ completed' = completed \cup {Key(outstanding)}
                    /\ outstanding' = None
               ELSE UNCHANGED adapterVars
       ELSE ended' = "raised" /\ UNCHANGED <<memVars, pc, fp, adapterVars>>
    /\ UNCHANGED <<program, txn_id, job, result>>

-----------------------------------------------------------------------------
HostInit ==
    /\ Init
    /\ program \in Programs
    /\ cells \in Memories
    /\ deferred = <<>>
    /\ access_counts = [a \in Address |-> 0]
    /\ pc = program.pc0
    /\ fp = program.fp0
    /\ txn_id = 0
    /\ phase = "negotiating"
    /\ wire = TRUE
    /\ job = None
    /\ result = None
    /\ outstanding = None
    /\ completed = {}
    /\ ended = "ok"

HostStep ==
    \/ FinishNegotiate
    \/ NegotiateRaises
    \/ Prepare
    \/ Halt
    \/ ExchangeRaises
    \/ AnswerService
    \/ ServiceFails
    \/ RequestFaults
    \/ ServiceResponseFaults
    \/ RetireFaults
    \/ SendRetire
    \/ RefuseResult
    \/ Apply

HostNext == HostStep \/ Deliver \/ Corrupt \/ BoardReset

HostSpec == HostInit /\ [][HostNext]_hrVars

-----------------------------------------------------------------------------
(* Properties                                                              *)

\* Every host variable keeps its type: memory is a total map to cells, the
\* open equalities name addresses, and only an exchange has a frame in flight.
HostTypeOK ==
    /\ cells \in [Address -> Cell]
    /\ \A i \in DOMAIN deferred :
          deferred[i].target \in Address /\ deferred[i].local \in Address
    /\ txn_id \in 0..MaxTxn
    /\ phase \in Phase
    /\ wire => phase \in {"negotiating", "requested", "answered", "retiring"}
    /\ ended \in {"ok", "fault", "raised", "halted"}

HostState == [pc |-> pc, fp |-> fp]

\* Between steps the endpoint's committed state is the host's, or the one the
\* host last asked it to retire: a lost acknowledgement leaves the host one
\* transition behind and never further, and no retry commits a second one
\* (step() after a raise, STATE_MISMATCH in _handle_instruction).
HostTracksCommitted ==
    state_valid =>
        \/ committed = HostState
        \/ /\ result # None
           /\ committed = [pc |-> result.next_pc, fp |-> result.next_fp]
           /\ phase = "retiring" \/ ended # "ok"

\* Once RETIRE is sent, applying the result cannot fail: "prevalidated above
\* and nothing has mutated memory since", deferred equalities included
\* (step(), the code after RETIRED).
RetiredIsApplicable ==
    phase = "retiring" => Settled(result).ok

\* A step that returns, fault or not, leaves no transaction on the endpoint:
\* check_fault_response refuses every fault that would end the run "while the
\* real transaction is still staged on the endpoint".
ReturnLeavesNothingStaged ==
    (phase = "ready" /\ ended # "raised") => state = "idle"

\* However a BLAKE3 step ends, no suspended service is left on the endpoint:
\* every path out after SERVICE_REQUIRED aborts it or sees it discarded.
NoStrandedService ==
    phase \in {"ready", "closed"} => state # "service_pending"

\* A binding outlives its step only when RETIRE was sent for it and the
\* acknowledgement did not come; every other way out clears the adapter, and
\* until it is cleared no step succeeds and the run does not halt.
BindingIsCleared ==
    (phase \in {"ready", "closed"} /\ outstanding # None) =>
        /\ ended \in {"raised", "fault"}
        /\ result # None
        /\ result.txn_id = outstanding.txn_id

\* The RETIRE in flight names what is staged, so RETIRE_MISMATCH is never the
\* host's doing (build_retire with the CRC of the payload it decoded).
RetireNamesStaged ==
    (phase = "retiring" /\ wire /\ state = "result_pending") =>
        RetireMatches(result.txn_id, RetireCrc)

\* While it waits for RETIRED, and after every exit, the host is in step with the
\* endpoint and can apply what it asked to retire.
HostIsInStep ==
    HostTypeOK /\ HostTracksCommitted /\ RetiredIsApplicable /\ RetireNamesStaged

\* What the ways out of step() leave behind.
ExitsAreClean == ReturnLeavesNothingStaged /\ BindingIsCleared

Interp == INSTANCE Interpreter
            WITH AddressMax <- U32_MAX, Digest <- Compress,
                 memory <- cells, counts <- access_counts,
                 open <- {deferred[i] : i \in DOMAIN deferred}

\* The host runs the program as the interpreter does: whatever the lane loses
\* or damages, however often the caller retries, memory, open equalities,
\* access counts, pc and fp move by whole instructions, each exactly once.
ImplementsInterpreter == Interp!InterpreterSpec
=============================================================================
