# lean-silicon in TLA+

A TLA+ model of the lean-silicon LSC-1 transaction system and of the tools
around it: the coprocessor endpoint in its three implementations (executable
model, byte-level executor, RTL), the byte lane, the host runtime and its
oracle, the clocked cores, the serial host tools, and the build, evidence and
formal gates of the repository. TLC checks the models on small instances; TLAPS
proves central safety properties for every value of the constants.
`PROJECT.json` lists the runs, the mutant each property catches, the source
lines behind every definition, the hazards, the findings and the theorems.

## 1. The system

LSC-1 is a scalar coprocessor for leanVM-b. The host owns program and memory.
For each instruction it packs a self-contained request with every memory cell
the instruction may touch and with witnesses (pointer indices, inverses). The
endpoint checks the witnesses, decides the transition, and *stages* it. The host
validates the result and sends `RETIRE` with the CRC of what it saw; only then
does the endpoint commit `(pc, fp)`, and only after `RETIRED` does the host apply
the writes. BLAKE3 suspends: the endpoint answers `SERVICE_REQUIRED`, the host
computes the digest and sends `SERVICE_RESPONSE`.

### Inventory

| Part | State | Operations | Modelled in |
| --- | --- | --- | --- |
| Endpoint (`sim/lsc1_transaction.py`) | txn state, staged transaction, committed pc/fp, profile, service and retire counters, status registers | NEGOTIATE, STATUS_QUERY, instructions, SERVICE_RESPONSE, RETIRE, ABORT, reset, framing faults | `Lsc1Endpoint`, `Lsc1Transition`, `Gf2n` |
| Byte lane (same file: `_accept`, `pins`, `step`, `drive`) | receive buffer, expected length, response bytes; the driver's position | send a byte, take a byte, return, give up, abort | `Lsc1ByteLane` |
| Packet executor (`sim/packet_executor_model.py`) | byte counters, response being sent, DONE pulse, staged result | accept a byte, dispatch, execute, retire, abort, reset | `PacketExecutor` |
| RTL frontend (`asic_core/rtl/lsc1_packet_*.sv`, validator, mux, lifecycle, alias checks) | receiver, decision FSM, pulses, lifecycle shell, transmitter, commit registers | one clock edge; ABORT and reset on any edge | `PacketFrontend` |
| Host memory (`host/memory.py`) | cells, deferred equalities, access counts, pointer tables | prevalidate, write once, resolve, look up | `HostPrepare` |
| Host runtime (`host/runtime.py`) | pc, fp, transaction id, blocking exchange | prepare, exchange, answer service, retire, apply, fault and exception exits | `HostRuntime`, `MCHostRuntime` |
| BLAKE3 adapter (`host/blake3_service.py`) | outstanding request, completed keys | accept, compute with retries, complete, abort | `HostRuntime` |
| Scalar oracle (`sim/scalar_step_oracle.py`) | memory, pc, fp | step | `ScalarOracle`, `Conformance` |
| Stream ALU (`sim/cycle_model.py`, `model.py`, `protocol_contract.py`) | command state, byte index, scratch byte, shift registers | one clock edge, abort, reset | `StreamAlu` |
| LSC-1u core and bring-up kit (`src/lsc1u_core.sv`, `silicon_bringup/bringup.py`) | RTL registers; pin model; driver, receipt | one cycle; driver steps, receipt, validation | `Lsc1u`, `Lsc1uBringup` |
| M2 controller (`src/leanvm_b_m2_scalar_controller.sv`) | memory, pc, fp, suspended division | load, step, resume with an inverse | `M2Controller` |
| UART bridge (`fpga/ulx3s/uart_bridge.sv`) | one byte each way, abort pulse | byte in, byte out, core beat | `UartBridge` |
| MinCore driver and tool (`fpga_harness/host/mincore_uart.py`) | deadline, worker, usable flag; evidence file | drain, write, read, poison; record, exit | `MinCoreUart` |
| Packet tool (`fpga_harness/host/lsc1_packet_uart.py`) | exchange under way, abandoned worker | BREAK, drain, exchange, validate | `PacketRun` |
| ULX3S tool (`fpga_harness/ulx3s_uart.py`) | session phase, bytes moved | resync, send, receive, compare | `Ulx3sUart` |
| Workload validation (`tools/workload_validation.py`) | worktrees, comparison files, receipt | inspect, freeze, run, publish, unwind | `WorkloadValidation` |
| Compiler artifact (`tools/lean_compiler_export.py`) | toolchain copy, artifact | authenticate, copy, probe, reproduce | `CompilerArtifact` |
| Upstream comparison (`tools/host_upstream_comparison.py`) | host memory, upstream prefix | compare, classify | `UpstreamComparison` |
| Build and publish (`fpga/ulx3s/build_*.sh`, `tools/atomic_publish.py`, `portable_build_support.py`, `source_provenance.py`) | lock, stage, manifest, archive | lock, copy, build, verify, exchange, clean up | `BuildPublish` |
| Bounded runner (`formal/subprocess_tree.py`) | process group, pipe, grace period | run, terminate, kill, wait | `SubprocessTree` |
| Contract validator (`formal/validate_blake3_pending_contract.py`) | eight descriptors, private tree, outcome | acquire, seal, elaborate, verify, ordered cleanup; netlist check | `ContractValidator`, `PendingContract` |
| Mutation gates (`formal/check_*`, `lean/check_full_profile_mutations.py`) | workspaces, results, exit status | copy, mutate, prove, classify | `MutationGate`, `PendingGate` |

### What is hard about it

* *Two copies of the state.* pc and fp live in the endpoint and in the host.
  They must move together although any frame may be lost in either direction.
* *Commit in two phases.* After `RETIRED` nothing can be taken back, so the
  host must have found out before that its batch of writes applies.
* *Suspension.* Between `SERVICE_REQUIRED` and `RETIRED` three parties hold
  state for one transaction; every exception path must clear all of it.
* *Faults by class.* The host concludes from a status alone whether the
  endpoint still holds the transaction.
* *A half-duplex byte lane with no resynchronisation* beyond CRC, ABORT and the
  next SOF.
* *Independent implementations* of each instruction (oracle, endpoint, executor,
  RTL, controller) that must agree when operands alias, cells are absent, or an
  operand is back-solved.
* *ABORT and reset on any clock edge* of a decision spread over five RTL modules
  that see each other's pulses one edge late.
* *Deadlines over blocking calls.* The serial tools abandon a worker thread that
  may still write, or take a byte, afterwards; late bytes carry no identity.
* *Evidence about a moving target.* Sources, checkouts and toolchains are read
  by several processes while they can be edited; a receipt must be about what
  was run.
* *Cleanup in the middle.* Any prefix of acquisitions may have happened when a
  step fails, and the cleanup itself can fail.

## 2. Modules

```
Gf2n ── Lsc1Transition ─┬─ Lsc1Endpoint ──────────┬─ HostRuntime ── MCHostRuntime
                        └─ HostPrepare ───────────┘        │
Gf2n ── ScalarOracle ─┬─ Conformance (with HostPrepare)    │ implements
                      └─ Interpreter ◄─────────────────────┘
Lsc1Endpoint, PacketFrontend  implement  Retirement
PacketExecutor                implements Lsc1Endpoint
Lsc1u ── Lsc1uBringup
stand alone: Lsc1ByteLane, MinCoreUart, StreamAlu, UartBridge,
  M2Controller (with ScalarOracle),
  PacketRun, Ulx3sUart, WorkloadValidation, CompilerArtifact, UpstreamComparison,
  BuildPublish, SubprocessTree, ContractValidator, PendingContract, MutationGate,
  PendingGate
```

### The transaction system

* **Gf2n** – GF(2^n) on sets of bit positions: `field_xtime`, `field_mul`,
  `field_encode`. The degree, the reduction polynomial and the index width are
  constants (128, 0x87 and 16 in the code).
* **Lsc1Transition** – the transition rules (`_execute_binary`, `_execute_set`,
  `_execute_deref`, `_execute_jump`, `_execute_blake3`, `_resume_blake3`) as
  functions from a decoded request to a fault, a decision or a suspension, with
  the code's order of checks.
* **Lsc1Endpoint** – the endpoint as a state machine. One action per handler and
  outcome; `tx` is the response not yet taken. `RejectFrame` is the common tail
  of every fault. The codec is abstracted to records; its faults are
  `BadFrame`.
* **Retirement** – what the endpoint promises: a committed state and at most one
  offered successor. Commits happen only to the offer, an offer starts at the
  committed state, and withdrawing one changes nothing.
* **ServiceHistory** – the endpoint beside a history variable: the ids of the service
  exchanges that are over since the last reset.
* **Lsc1ByteLane** – the frames byte by byte: `_accept` split at its early
  returns, `drive()` as the loop it is, and a lane that may change one byte per
  exchange. `ABORT` or reset may come at any edge.
* **PacketExecutor** – the second Python endpoint, byte by byte, for the
  instructions it supports (XOR, MUL and SET); it implements Lsc1Endpoint.
* **PacketFrontend** – the RTL at clock-edge granularity: receiver, decode
  ladder, datapath states, lifecycle shell, CRC capture, transmitter and commit
  as one `Edge`, plus `ABORT` and reset edges. Datapath operations and the
  host's reading take any number of edges. Two choices of the RTL differ from
  the executable model and are not compared: the order of fault checks in DEREF
  and JUMP (only what a fault does to the transaction is), and the service id
  that an ABORT between the acceptance of a BLAKE3 request and the start of the
  lifecycle shell leaves unused and that the next request carries (it was never
  on the wire). It is the cycle-level transition system that
  `docs/FULL_PROFILE_LEAN_BRIDGE.md` asks for in its item 2.
* **HostPrepare** – the write-once memory with the fixpoint of
  deferred equalities, and `_prepare` for each kind of slot with the pointer
  tables and the inverse witness.
* **HostRuntime** – the composition of host and endpoint. `phase` is the
  exchange `step()` is blocked in; `wire` says whether its frame is still under
  way. `Deliver` runs the endpoint's own action, `Corrupt` turns the frame into
  a framing fault, `ExchangeRaises` ends the exchange whatever became of the
  frame and the reply (a lost request, a lost reply, and a reply that does not
  decode are the same to the host). `BoardReset` resets the endpoint under the
  host. After any exit the caller may call `step()` again. `IsProgram` and
  `IsSlot` are the conditions `lean_compiler_adapter.load` refuses a program
  without; the proofs assume of the constant `Programs` no more than them.
* **Interpreter** – what the host promises: the leanVM-b machine, whose memory,
  open equalities, access counts, pc and fp move by whole instructions. The
  equalities it keeps open are a set closed under propagation, not a list in
  passes. The scalar part is the oracle's `step`.
* **MCHostRuntime** – two scenes of HostRuntime: any step of host and lane; and only
  the failures step() is written to recover from, with fairness and a caller who
  retries.
* **ScalarOracle**, **Conformance** – the repository's oracle, with its own
  multiplication and pointer search, and the machine that runs host preparation,
  endpoint rule and host write-back against it.

### Cores and bridge

* **StreamAlu** – the MinCore ALU of `cycle_model.py` edge by edge behind the
  lane's commit rule, with the transaction-level reference of `model.py` and an
  independent long-division product.
* **Lsc1u**, **Lsc1uBringup** – the LSC-1u RTL and the bring-up kit's pin model
  clocked by the same pins; the kit's driver, receipt and validation on top.
* **M2Controller** – every edge of the scalar controller, with loads at any time
  and any value offered as an inverse, against `ScalarOracle`.
* **UartBridge** – the raw MinCore mode clock by clock: the serialiser needs one
  clock more per byte than the line delivers.

### Serial tools

* **MinCoreUart** – the driver with its single deadline and
  abandoned workers; `main()` with its modes, evidence file and exit status.
* **PacketRun**, **Ulx3sUart** – successive runs on one board. What a failed run
  leaves on the line, in the board and in a worker meets the next one.

### Repository tools

* **BuildPublish** – concurrent builds, one archive, the lock wrapper, the trap,
  the exchange. INT and TERM remove the stage; a hang-up ends the wrapper alone.
* **WorkloadValidation**, **CompilerArtifact**, **UpstreamComparison** – the three
  evidence tools, with an editor at work beside the first two.
* **SubprocessTree** – `run_bounded` and a tree of processes that fork, redirect,
  leave the group, obey or ignore SIGTERM.
* **ContractValidator** – acquisition, sealing, elaboration and ordered cleanup
  of `validate()`; **PendingContract** – `validate_design` as the algorithm it is,
  against the set of consistent valuations of the netlist.
* **MutationGate** – four gates of one shape (lifecycle, lsc1u, simulation,
  lean), in the simulation gate either of a mutant's two runs kills it;
  **PendingGate** – the BLAKE3 pending gate while its files are edited and put back to
  any earlier version.

### Proofs and instances

* **Lsc1TransitionProofs** – what the pure functions of field, transition rules,
  host memory and preparation return; **HostRuntimeProofs** – the endpoint, and on
  its invariant the composition of host and endpoint; **ClockedProofs** – the byte
  lane, the M2 controller and the UART bridge, which take one action per clock edge;
  **ConformanceProofs** – host and endpoint against the scalar oracle;
  **PacketFrontendProofs** – the RTL frontend
  against the transition rules and the ledger; **SerialToolsProofs** – the MinCore driver
  and tool, the packet tool and the ULX3S tool; **RepoToolsProofs**, **FormalToolsProofs** – the
  repository tools, the contract validator and the mutation gates.
* **MC…** modules give the constants their small values. Five of them put the
  machines of one layer side by side: `MCImplementations`, `MCSerialTools`,
  `MCCores`, `MCRepoTools` and `MCFormalTools` extend one component, `MCCores` two,
  and instantiate the others. The machines of a layer do not interact; `MCInit` picks
  the one that runs (`machine`) and the others stay at rest, so every behaviour
  is a behaviour of one component, and one run asks the layer's questions.
  `MCRepoTools`, `MCSerialTools` and `MCFormalTools` leave the constants of their components open,
  so that the proofs about them state the very properties the runs check, for any
  values; `MCCores` does so for the controller and the bridge.

Operators named after a Python function model that function. Operators marked
`Mutant` in a comment are not part of the model: each changes one definition
the way a plausible bug would and is used to confirm that a property notices.

## 3. Runs

| Run | Checks | Instance |
| --- | --- | --- |
| `endpoint` | `StagedContinuesCommitted`, `OfferedResultRetires`, `StaleAnswersAreRefused`, `TransactionDiscipline`, `ImplementsRetirement` | GF(4), 2 indices, addresses 0..4, 2 transaction ids; 59 000 states |
| `conformance` | `AgreesWithOracle`, `HostAndEndpointFit` | GF(4), 2 indices, all 5^4 memories over addresses 0..3, every slot with offsets 0..2 |
| `host` | `HostIsInStep`, `ExitsAreClean`, `NoStrandedService`, `ImplementsInterpreter`, `ProgramCompletes` | GF(8), 4 indices, addresses 0..5, 8 programs of 3 instructions, 2 memories, 4 transactions; for recovery 3 programs, 6 transactions, 3 failures; 56 000 states |
| `lane` | `ExchangeIsSound`, `ExchangeEnds` | 4 byte values, all frames with payloads up to 2 bytes |
| `implementations` | `FrontendIsTheModel`, `ReceiverIsBounded`, `EdgesAreSound`, `ImplementsRetirement`, `EveryFrameIsAnswered`, `ImplementsEndpoint` | GF(8), 4 indices; 108 000 states |
| `serial_tools` | `ExchangeIsOwn`, `RecordIsTrue`, `SuccessIsOwn`, `VerdictIsTrue`, `EveryRunEnds` | 2 exchanges, 4 packet runs, 2 ULX3S runs, 1 damaged byte or frame; 707 000 states |
| `cores` | `CommandsAreExact`, `BringupIsSound`, `ControllerIsTheOracle`, `BridgeInStep`, `HandshakesHold` | words of 2 bytes; 162 000 states |
| `repo_tools` | `PublicationIsSound`, `ReceiptIsSound`, `ArtifactIsReproducible`, `VerdictsAreExact`, `TimeoutIsExact`, `ToolsReturn` | 2 builds, 2 workloads, 3 edits, 1 kill, 3 descendants; 449 000 states |
| `formal_tools` | `VerdictIsSound`, `AcceptanceIsExact`, `GateIsHonest`, `PendingGateIsHonest` | 2 faults, 2 edits, 2 contents; 2 800 000 states |
| `host_physical` | `NoStrandedService`, violated | `host` with `PhysicalLane = TRUE` |
| `lane_trailing` | `TrailingBytesRejected`, violated | as `lane` |
| `pending_baseline` | `MutantsStartFromTheBaseline`, violated | `formal_tools` with one edit during the pending gate and no faults |

*endpoint.* The environment sends any request of the set in any state, so every
guard is met from every state, and duplicates and stale frames need no separate
mechanism. `StaleAnswersAreRefused` is about all the service exchanges since the last
reset: one that was answered, discarded or aborted cannot be answered again, so the
counter of service ids has to survive ABORT. *conformance.* In every reachable
memory, pc and fp, every slot is given to both implementations. *host.* The refinement `ImplementsInterpreter`
says that loss, damage and retries never make an instruction run twice, half,
or on a wrong copy of the memory; the invariants say what each exit of `step()`
leaves behind. *lane.* Frames contain SOF in payload and checksum too, so false
starts happen.

*implementations.* `FrontendIsTheModel` says, at every edge, that the frontend
holds at most one transaction across its five modules, that what it decided for a
scalar request or a service is what `Lsc1Transition` decides, and that a result
that has drained can be retired. `EdgesAreSound` says that a response does not
change while it is serialized, DONE comes with the commit and with nothing else,
and a fault discards exactly when the executable model's does.
`EveryFrameIsAnswered` is liveness of the decode ladder and of the lane.
`ImplementsEndpoint` is a full refinement, statuses and result CRCs included.

*serial_tools.* The port may block, deliver late, take part of a write, and let an
abandoned worker act after its run. `ExchangeIsOwn`, `SuccessIsOwn` and
`VerdictIsTrue` say that an accepted reply was asked for by this exchange and this
run, in spite of what older ones left; `RecordIsTrue` that the evidence file holds
every attempt and the exit status matches it.

*cores.* `CommandsAreExact`: no register of an aborted or earlier command reaches a
later result. `BringupIsSound`: the RTL and the pin model show the same pins in
every cycle, the kit passes, and an edited receipt does not validate.
`ControllerIsTheOracle`: a suspended division finishes as the oracle's step would.
`BridgeInStep`: with a core that echoes each operand the one-byte buffer is never
displaced. `HandshakesHold`: what is on offer stays on offer, and the kit ends.

*repo_tools.* `PublicationIsSound`: the archive is one whole version, no
publication of the other recipe is undone, no stage stays behind.
`ReceiptIsSound`: a receipt on disk is about the commits it names and about the
files beside it. `ArtifactIsReproducible`, `VerdictsAreExact`, `TimeoutIsExact`
state what the other three tools' results mean.

*formal_tools.* `VerdictIsSound`: "valid" is about the recorded content, nothing is
left open unreported, nothing is closed twice, and an undisturbed run succeeds.
`AcceptanceIsExact`: the evaluated netlist and its meaning agree, for netlists
without a combinational loop and operands of one bit.
`GateIsHonest`, `PendingGateIsHonest`: a SymbiYosys gate passes only on completed
counterexamples, and every gate passes when each mutant is caught and nothing
interferes. The pending gate's `OneSource` holds of every mutant; of the baseline, whose
workspace nothing compares, only while neither file is put back to an earlier version
(`restored` records that one was), and of the other sources not at all, which is what
`pending_baseline` shows.

### Bounds

`ServiceSeqMax` and `RetireSeqMax` cap the two counters (u32 in the code; the
cap refuses the next request, as a guard). Two issued service ids suffice for a
stale answer to meet a newer request, and two retirements for a duplicate of the
first to meet the second. `AnyTxn` bounds calls of `step()`; with three
instructions and four transactions each program can fail once and still finish.
`MaxFailures` and `MaxTxn` let every failure of the scene "recovery" be retried. The field
is GF(4) or GF(8): both have non-trivial inverses (in GF(4) the inverse of g is
not g), and powers of g outside the index space exist, so bad pointers do too.
U32_MAX is small enough for addresses to overflow. The checksum of results is
deliberately lossy, so results that collide occur; the frame checksum of `lane`
notices every single changed byte, as CRC-32 does.

`BindingIsCleared`, a part of `ExitsAreClean`, allows one binding to outlive its
step: the adapter is not cleared when RETIRE was sent and RETIRED did not come,
and until it is cleared no step succeeds and the run does not halt.

Words of two bytes are the shortest with a first and a last byte, and bytes of
three bits the shortest with a middle bit. Four packet runs let what the
first three left behind meet the fourth. Two builds and three source versions let one build publish
inside the other, with an edit before and after. Two faults let the cleanup of
one failure fail; two edits let an edit be undone, in the contract
validator and in both kinds of gate. Only the versions of a build's sources
(BuildPublish) never come back to an earlier one.

`PacketLate` is a bound that `SuccessIsOwn` needs: at most three requests and
replies are outstanding when the packet tool opens the port. A failed run leaves at
most one more of them, so four runs in a row would have to fail without a single
reply arriving in between for the bound to be exceeded. It is sharp: with
`PacketLate = 4` and a fifth run, the four replies of a `set` (status,
capabilities, result, acknowledgement) that earlier runs asked for can all be
outstanding, and the fifth run accepts them one by one for its own; replies carry
neither a request number nor a run. No document claims that they would be told apart.

BLAKE3 takes one message word in the instances where the code takes four; the
rules do not depend on the number. Deadlock is checked for `endpoint`, `lane` and
`implementations`; the others may stop: a program that ended, a machine that
refuses every slot, a tool that has returned, the bound on runs or cycles.

### Fairness

`ProgramCompletes` assumes weak fairness of `Work`, the steps of the host and of the
endpoint serving it: `step()` is sequential code, and the lane's `drive()`
clocks the endpoint until it answers. Failures are not fair and limited in
number; the caller's retry is part of `Work` because the property is about a
caller who does retry. `lane` assumes weak fairness of `DriveStep`, the body of
`drive()`'s loop. ABORT and new exchanges need no fairness.

`implementations`: the clock ticks while there is work (`Working /\ Edge`); ABORT,
reset and the host's frames need no fairness. `serial_tools`: the deadline passes
(`Expire`, `NoBudget`, `AbandonCall`; for the packet tool a raising call, the end
of the BREAK and of the drain; for the ULX3S tool its process and the board),
while no fairness is given to the port, which may block for ever. `cores`: the
kit's one thread runs. `repo_tools`: a build's script runs or exits, `run_bounded`
runs, and a process that obeys SIGTERM ends after it.

### Findings

1. `PhysicalHostRuntime` gives its base class no endpoint, so the aborts in the
   except clauses of `step()` reach a model endpoint nobody uses and a suspended
   service stays on the board, against `docs/BLAKE3_EXTERNAL_SERVICE.md:57`. The
   next start of the tool sends the UART BREAK. With `PhysicalLane = TRUE` every
   other property of `host` still holds. (`host_physical`)
2. `docs/LSC1_TRANSACTION_PROTOCOL.md:899` says trailing bytes of a frame whose
   length was too small are rejected as they arrive; one that equals SOF opens a
   frame. (`lane_trailing`)
3. `check_blake3_pending_invariant.py:128-132` proves the baseline in a workspace that
   is copied at a time of its own and never compared, and `mutation_isolated`
   compares the sources that no mutation touches with what is on disk by then. An edit
   of such a source between the two, or an undone edit of the frontend or the
   invariant, ends with exit status 0 although the baseline proof and the kills are
   about different sources, against the docstrings of `install_baseline` and
   `mutation_isolated` and the test
   `test_each_mutant_starts_from_the_exact_baseline`. (`pending_baseline`)

Observations made while modelling, which the models contain as the code has them
and which no run is devoted to:

* `mincore_uart.py:261` – bytes an abandoned read has already taken are lost, so a
  failed exchange can be recorded as silence although bytes arrived
  (`docs/MINCORE_UART_HOST.md:105` says otherwise).
* `lsc1_transaction.py:1157` – a payload refused after its `txn_id` was read is
  answered with transaction 0; the executor answers the id, which is what
  `docs/LSC1_TRANSACTION_PROTOCOL.md:524` says. `ReferenceTx` in PacketExecutor
  names the difference.
* `ulx3s_uart.py:215` – the plain `OSError` of `send_bytes` is not caught and the
  process ends with status 1, which means a mismatch.
* `workload_validation.py:321` – `publish_receipt` checks the checkout and then
  writes; an edit in between is published over. What the receipt states about
  the captured commit stays true.
* `portable_build_support.py:91` – a hang-up, or a kill of the wrapper alone,
  releases the lock while the script runs on; `NoLostPublication` is stated for
  runs in which that did not happen.
* `subprocess_tree.py:56` – a descendant that left the process group survives the
  timeout and, holding the pipe, keeps `run_bounded` waiting; `Returns` excepts it.
* `validate_blake3_pending_contract.py:71` – `_open_stable` leaks its descriptor
  when the read fails; `:369` – the record of a failed rollback is overwritten by
  the cleanup's. `NoSilentLeak` excepts both.
* `validate_blake3_pending_contract.py:523` – `_evaluate` reads bit 0 of operands
  of `$logic_or`, `$logic_and` and `$logic_not`; the instance has one-bit operands,
  as the production invariant has.
* `check_full_profile_mutations.py:194` – the Lean gate takes any nonzero exit for
  a detection, a breakdown of its toolchain included; `GateIsHonest` asks completed
  detections of the SymbiYosys gates only.
* The endpoint is narrower than the oracle: it refuses a pc outside the index
  space, a stored code pointer outside it, and an overflow of an operand that
  DEREF_PC and DEREF_FP do not use. `OutsideV1` in Conformance states exactly these
  cases, which the documentation intends.

## 4. Proofs

### Endpoint (`HostRuntimeProofs`, first part)

For every field, index width, request set, digest set, checksum and counter bound
(`U32Assumption` and the other named assumptions of the modules):

* `TypeCorrect`, `StagedNeverForks`, `OfferedResultIsRetirable`,
  `CommittedStaysInIndexSpace` – from one inductive invariant `IInv`.
* `StaleAnswersStayRefused` – `HistorySpec => []StaleAnswersAreRefused`, from `IInv` and
  `IssuedIds`: every id whose exchange is over has been issued and is not the one
  outstanding. Each step but a reset leaves the counter alone or issues the next id.
* `DisciplineHolds` – `TransactionDiscipline`, step by step from `IInv`.
* `EndpointImplementsRetirement` – `Spec => Ledger!Spec`.

`StagedContinuesCommitted` alone is not inductive: a retirement moves committed
state to the staged successor, so the successor's range has to be known, and that
depends on the rule that decided it. `IInv` therefore adds `StagedInIndexSpace`
(the staged record and its two scalar states), and one lemma per transition rule
(`BinaryOutcome`, `SetOutcome`, `DerefOutcome`, `JumpOutcome`, `Blake3Outcome`)
shows that the rule faults or decides a state in range; `ExecuteOutcome` combines
them. The jump is the case that needs an argument: `_verify_index` bounds both
targets. `DisciplineHolds` has two halves. A rejected frame never carries a status
that discards in the state it arrives in, because the WRITE_CONFLICT of a rule
comes in the idle state, where nothing is held (`FaultHolds`). And past the end of
the index space a request would have to name a pc that is both committed and in
range, so only a reset leads out (`EndHolds`). For the refinement every action is shown to be an `Offer`, `Withdraw`
or `Commit` step of the ledger or a stutter of it.

### Byte lane (`ClockedProofs`, first part)

For every byte set, header length, payload cap, response length and set of
well-formed frames, `ExchangeIsSoundHolds` combines:

* `FramingHolds`, `HalfDuplexHolds` from `Framing` (types and the two
  invariants);
* `CleanExchangeHolds`, `DamageIsDetectedHolds`, `OnlyDamageStallsHolds` from
  `LaneInv`. An exchange that began at a frame boundary and whose header arrived
  intact is either `Sending` (the receive buffer holds exactly the bytes sent so
  far, with at most the one damaged byte different, and nothing was answered) or
  `Answered` (the frame was dispatched once, or refused if damaged, and the
  response is split between the two ends). `SendInv` is the step that links the
  two: the length the endpoint computes from the header it received is the length
  of the frame the host sends, so the last byte sent completes the frame and no
  earlier one does. `ChecksumAssumption` is used for damaged frames only.

### M2 controller (`ClockedProofs`, second part)

For every field, memory size, largest pc, set of loads and set of instructions whose
fields are the port's (`M2Assumption`):

* `ControllerStaysTheOracle` – `ControllerIsTheOracle`, from `M2Inv`. Instruction by
  instruction (`SetAlike`, `BinaryAlike`, `JumpAlike`) the controller faults where the
  oracle refuses or runs past the last pc, ends where the oracle's step ends, or
  suspends (`Alike`). `AgreesWithOracle` alone is not inductive, as it says nothing
  while the inverse is awaited: `Suspended` adds that the oracle's step is then the
  memory with the solved operand filled in. That it is rests on two facts. A
  back-solved operand times the known one is the result again (`BackSolve`, from
  `MulAssociates` and `MultiplicationCommutes`), so that the oracle, which recomputes
  the result, stores what is already there; and `SuspensionIsFresh`, by which both
  writes of `TakeInverse` succeed (`InverseKeeps`).
* `WrittenStaysWritten` – `[][WrittenStep]_vars`, for any value offered as an inverse.

`FieldIsAField` is the assumption of `ConformanceProofs` in the oracle's terms: its
`inverse` inverts, and the powers of g below MEM_WORDS differ, which is why the
controller's search from the top and the oracle's from the bottom find one index
(`ReverseAgrees`). TLC evaluates it on the instance of `cores`.

### UART bridge (`ClockedProofs`, third part)

For every pair of byte times, number of operands and number of aborts with
`BridgeAssumption` (the serialiser takes no longer than the line, a command has no more
operands than a byte has clocks, and a byte is longer than the three clocks on the way
to the core; the board has 250 clocks and 16 operands):

* `BridgeStaysInStep` – `BridgeInStep`, from `BridgeInv`. That the buffer is free when
  a byte arrives is not inductive: the core may be stalled by its echo, and every echo
  costs the serialiser one clock more than the line takes. `Drift` bounds the debt
  (`Owed`) by a clock for each operand of the command so far, which the operation byte,
  having no echo, pays off; `Places` says in which clocks after a byte its event can be on
  the pins, in the buffer and in the core, and `Sequence` that it is the next byte of
  its command wherever it is.
* `EchoesInOrder` – `[][EchoStep]`, from `EchoInv`: the echo in the core or in the
  transmit buffer follows the one loaded last.

### Transition rules, memory and preparation (`Lsc1TransitionProofs`)

* `ExecuteEffects` – what a rule decides is well formed: its writes, equalities
  and accesses are inside u32 and the field, for every opcode, operand and cell.
* `PreparedIsWellFormed` – for every slot the loader accepts and every memory,
  `_prepare` refuses or packs a request the rules are defined on.

* `MultiplicationCommutes` – `field_mul` commutes, for every degree and reduction
  polynomial. A product is additive in each factor, so it is enough to compare
  single bits, where both orders are the same power of x reduced. The RTL multiplies
  in another order than the executable model where it checks a back-solve.
* `MulAssociates` – products associate, by the same argument.
* `OracleMultipliesAlike` – the oracle's carry-less product and long division against
  shift, add and reduce. Both words are the sum of the reduced powers of x of their
  bits (`Residue`), which no step of either loop changes.

The functions below them (`field_mul`, `field_encode`, `apply_writes`, a pass of
`resolve_deferred` and the passes together) are recursive.
The library's induction theorems take an operator, which the provers cannot
instantiate, so the module proves `IntervalInduction`, with a set in the place of
the predicate, from the existence of least elements, and `IterationExists`, that a
recursion over `0..n` defines a function. From them come the types of every such
function and the facts the host needs: a batch of writes, also one that is refused
half way, keeps what a cell held, and `resolve_deferred` loses no equality: each
holds afterwards or is still open.

### Host and endpoint against the oracle (`ConformanceProofs`)

For every field, index width, set of slots the loader accepts and set of memories
(`ConformanceAssumption`, `SameAddresses`):

* `HostAgreesWithOracle` – `AgreesWithOracle`, and `HostFitsEndpoint` –
  `HostAndEndpointFit`. Both hold of every machine with a memory of words, pc at most
  one past the index space and fp inside it (`MachineStaysTyped`), slot by slot
  (`SetWorks`, `BinaryWorks`, `DerefWorks`, `JumpWorks`, `Blake3Works`). The cells the
  host packs are the cells of the memory (`PackedFrame`), so the endpoint's frame and
  the oracle's memory read the same words; what the endpoint decides to write, a cell
  that is absent or already holds the value, is what `apply_writes` makes of it
  (`StoresAlike`), and a missing factor that lands on the product's own address is the
  case in which two writes go to one cell.
* `PointersAgree` – the host's table, the oracle's search and the endpoint's square and
  multiply are one correspondence of indices and words (`ForwardIsEncode`,
  `FieldEncodeIsEncode`). That absent cells are no pointers needs that no power of x is
  zero, which needs the constant term of the modulus.
* `InversesAgree` – the two exponentiations are the same word, and with
  `FieldIsAField` it is the inverse, so that the endpoint does not refuse a witness
  of the host.

Two assumptions name what the provers are not told: `FieldIsAField`, that the power
`field_inverse` computes inverts every word but zero, which is true because the modulus
x^128 + x^7 + x^2 + x + 1 is irreducible; and `PowersOfTwo`, that 2^(n + 1) is twice
2^n, exponentiation being unknown to them. TLC evaluates both on the instance.

### Host runtime (`HostRuntimeProofs`)

For every program the loader accepts, every memory, service, checksum and
profile, over a lane that loses or damages any frame and a board that may be reset
at any moment (`HostAssumption`, `ProgramAssumption`):

* `HostStaysInStep`, `ExitsStayClean` – from `HInv`;
* `NoServiceIsStranded` – with the assumption `~PhysicalLane`, which the run
  `host_physical` shows to be needed, and `ServiceIsOffered` beside `HInv`;
* `MemoryIsWriteOnce` – a stored value stays, an open equality stays open until it
  holds;
* `HostExecutesInstructions` – memory, open equalities, access counts, pc and fp
  change only by the whole effect of the instruction at pc, as the rules decide it
  over the present memory and with the digest of that instruction's operands.

`HInv` is the endpoint's `IInv` with what ties the two sides together.
`RetiredIsApplicable` is not inductive: it follows when RETIRE is sent, from the
prevalidation, but only if the result on the lane is the staged one
(`RepliesAreTrue`) and nothing moves memory until RETIRED. `HostTracksCommitted`
needs that whatever the endpoint still holds started at the host's own pc and fp
(`HeldIsCurrent`), because a retry may meet a transaction that an earlier call of
`step()` left; it holds because after every exit either the endpoint is idle or
the host has not moved. `RetiringIsStaged` is `RetireNamesStaged` with the result
itself, `JobIsPrepared` says the request in flight is the one the present state
prepares, and `BindingIsExplained` is `BindingIsCleared` in the middle of a step.
`LaneIsHalfDuplex` excludes a reply to an earlier frame. For
`HostExecutesInstructions` the invariant `DecisionIsCurrent` follows the decision
from the request through suspension and answer to RETIRED.

### RTL frontend (`PacketFrontendProofs`)

For any field, any requests the validator lets through, digests, service ids and
checksum, and for counters of any size. The assumptions are `FrontendBounds` (the two
counter bounds are numbers), `RequestAssumption` (`IsRequest`: what
`lsc1_request_validator` passes, operands that are numbers and a cell for each
address) and `NoneAssumption` (`None` is not a value).

* `FrontendRefinesTheRules` – `FrontendIsTheModel`. The executable model decides an
  instruction at once, the RTL in up to three datapath states with a `scratch` record
  between them. The invariant has to say what a computation in flight will decide:
  `Remaining(scratch)` is the rest of the transition rule as a function of the
  compute state, and `ScratchInv` that it equals `execute` of the request. Each
  branch of `Decode` establishes this, each state of `DatapathDone` preserves it or
  ends in the `Outcome` it promises (`Settles`: a fault, a launch of the next
  datapath, or a result). The case of a back-solved product needs
  `MultiplicationCommutes`.
* The rest of the invariant (`IInv`) says where the one transaction is. `Holding`
  covers scratch, staged result and service; `HoldingInv` places it at the committed
  state; `SuspendedInv` and `VerdictInv` say that a service held is the suspension of
  the rules and that its answer is what `resume_blake3` says; `CrcInv` follows the
  CRC from the edge that captures it; `PulseInv` and `DiscardInv` carry the promise
  of the frontend's one-edge pulses to the lifecycle shell, which acts one edge later.
  `AtRest` is what an edge that decides anything starts from, nothing due and no
  pulse; all else is `Quiet` and only advances receiver, datapath or transmitter.
* `EdgesStaySound` – `EdgesAreSound`. Every deciding edge either `Spares` (commits
  nothing, and loses nothing to a fault that does not discard) or `Commits` (exactly
  one of frontend and shell raises DONE). A response on the wire makes the edge quiet,
  and a quiet edge writes nothing the payload mux reads (`QuietPayload`).
* `FrontendImplementsRetirement` – the refinement of `Retirement`. `Offer` is the
  staged result, or what the shell holds once a digest is accepted; it always
  continues the committed state (`OfferContinues`), and an edge that commits nothing
  keeps, makes or withdraws it (`SteadyLedger`).

TLC found `IInv` to hold on the frontend's instance (100 771 states) before it was
proved; no run keeps it, because the theorem says more.

### Serial tools (`SerialToolsProofs`)

* `ExchangeStaysOwn` (and `MainExchangeStaysOwn` for the driver inside `main()`),
  for any operations, request and response lengths, number of exchanges, noise and
  stale input, from `DriverInv`. Its centre is `Accounted`: as long as no noise
  byte came, the request bytes that have left the driver are on the wire or with
  the device, and the device answers the whole request with exactly its response
  length, of which the driver has seen the rest. `QuietBefore` gives the start of
  the count: a driver that is still usable has nothing under way.
  `AbandonedAlone` says why an abandoned worker cannot disturb it: it exists only
  when the driver is poisoned and no call runs beside it. `AllFresh` carries that
  the drain left nothing that predates the request.
* `RecordStaysTrue` from `MainInv`, which ties the stages of `main()` to the
  driver's: there is an exchange exactly while it executes.
* `SuccessStaysOwn`, for any number of runs, operands and damaged replies, from
  `PacketInv`, under the hypothesis `PacketLate <= 3` explained under *Bounds*.
  Replies carry no run, so the argument is one of order. `FewOutstanding` counts:
  each exchange sends one request and reads one reply, so never more is
  outstanding than when the port was opened, and one more while it reads. By
  `OwnReplies` the fourth reply, to RETIRE, is then the run's own, whosoever the
  first three are. `RepliesFollow` and `LineInOrder` say what a reply tells about
  the endpoint: behind a fresh status stand the answers to everything negotiated,
  staged and retired since, so that a run that has accepted a fresh status cannot
  be followed by another's retirement unseen. `RetirementFollows` concludes that an
  accepted RETIRED with number 1 is this run's and the only one since the reset.
* `VerdictStaysTrue` (ULX3S tool), for any operands, reply length, number of runs
  and damaged answers, from `Ulx3sInv`. `UartAssumption` asks that a reply be
  shorter than what one drain takes (`max_bytes`, 256 against 16 or 4 bytes).
  `LeftBehind` says what a run that ended anywhere leaves: an ABORT, a one-byte
  request or the rest of one compute request, and at most one answer, so that a
  drain that finds the line empty leaves no byte behind (`RestIsEmpty`). The
  ABORT then clears the core (`Aborting`). From there `Submission` accounts for
  every unit written - on the line, held by the core, or answered - and `Traced`
  for every byte of the answer - on its way, buffered, or read. A comparison that
  found nothing surplus has therefore seen all the board sent.

### Repository tools (`RepoToolsProofs`), contract validator and gates (`FormalToolsProofs`)

* `PublicationStaysSound`, for any set of builds and recipes, from `PInv`. Sources
  only move forward, so from Record on `recorded <= bit <= source` (in `Faithful`);
  the check before publishing compares the two ends and thereby pins the middle.
  `LockIsHeld` is what `NoLostPublication` needs: while no wrapper was hung up,
  what a build copied of the other recipes is what the archive still has.
* `TimeoutStaysExact`, for any set of descendants, from `TInv`: all sets named are
  subsets of `started`, so that a fork adds a process nobody has named.
* `ArtifactStaysReproducible` from `AInv`: only the check after the copy vouches
  for the private toolchain, and from the probe on its output belongs to the text
  the job holds.
* `ReceiptStaysSound`, for any number of workloads, runs, edits and kills
  (`ValidationAssumption`), from `WInv`: snapshots are frozen before the
  comparator runs, the evidence so far is on disk and about the captured commit,
  and from `prepare_receipt_path` to the last write there is no receipt.
* `VerdictsStayExact`, for any trace and any run of the host
  (`ComparisonAssumption`), from `CInv`: the addresses upstream wrote lie below
  `mem_used`, and a verdict is given once, on what no step changes any more.
* `VerdictStaysSound`, for any edits, faults, exceptions and interrupts, from
  `VInv`. A stamp only grows, so a file whose stamp is the recorded one has the
  recorded content, undone edits included; `BytesAreTraced` carries that from the
  archive to the extracted, the sealed and the running Yosys and from the source to
  what Yosys read. `Accounted` says that everything open is owned or recorded as
  unread, rolled back or failed, and `RunIsQuiet` is the undisturbed run, step by
  step.
* `GateStaysHonest`, for any set of mutations and goals, any edits and breakdowns
  (`GateAssumption`), from `GateInv`. The steps are a set with an order, not a list:
  every pair a passing gate requires is falsified, recorded as failed or still ahead
  of the current step, and so is every baseline. As nothing is ahead at the end, a
  gate that exits 0 has them all. A failure recorded on unedited sources is a true one.
* `PendingGateStaysHonest`, for any number of edits, undone or not, and of breakdowns,
  from `PendingInv`, over the gate's fixed script of 32 steps. A workspace that was
  isolated holds what its step wrote and the text read at the start, whatever the disk
  did. Of the baseline the proof says less: while a file is not put back its versions
  only grow (`VersionsGrow`), so text <= baseline copy <= compared copy = text pins it.

The constants are otherwise arbitrary, the bounds `Max…` included.
`PublishAssumption` separates `None` from the builds.

### Only model-checked

* Liveness (`ProgramCompletes`, `ExchangeEnds`, `EveryFrameIsAnswered`,
  `EveryRunEnds`, `ToolsReturn`) and anything with ENABLED are out of TLAPS 1.4.5's
  reach here.
* `CommandsAreExact`, which compares the bit-serial product with a product clock by
  clock.
* `ImplementsInterpreter`, whose abstract machine keeps open equalities as a set closed
  under propagation: that the passes of `resolve_deferred` reach the closure is an
  induction over graphs of equalities. `HostExecutesInstructions` proves when state
  changes and by what decision, and `HostAgreesWithOracle` that the scalar decisions are
  the oracle's.
* Not attempted: `ReceiverIsBounded` and the refinement of the endpoint by the
  packet executor; `BringupIsSound`; of `HandshakesHold` the parts about the stream ALU
  and LSC-1u (those about the controller and the bridge are `WrittenStaysWritten` and
  `EchoesInOrder`); `AcceptanceIsExact`.

## 5. Not modelled, and why

* Codecs, wording, step records and cycle counts: no property here depends on
  them. Codec faults are nondeterministic statuses.
* The BLAKE3 compression function: a constant operator.
* The datapaths behind the RTL frontend (stream adapter, field encoder, multiplier):
  operations of any length with their result; `StreamAlu` has the serial multiplier
  itself. `last_status` and `last_fault` of the RTL are left out, and one profile is
  negotiated there.
* The errors of `lean_compiler_adapter.load` (what it accepts is `IsProgram`),
  `board_detect.py`, `hardware_preflight.py`, `boundary_check.py`: one pass over a
  document, the host or the source tree, no state of their own.
* Tiny Tapeout wrappers: wiring.
* LSC-2 cores: experimental datapaths with a counter for control, outside the
  LSC-1 path.
* SymbiYosys harnesses and the Lean development: proofs about the system, not part
  of it. Release and evidence files: generated.
* The tree hash and the artifact digests inside a workload receipt: a receipt is the
  commit, the files beside it and the verdict.
* Runners for coverage mutations and bridge tasks: a loop over external programs.

## 6. Plan

1. **Packet executor**: its refinement of the endpoint, along the argument of
   `PacketFrontendProofs` without the datapaths.
