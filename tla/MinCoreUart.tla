---------------------------- MODULE MinCoreUart ----------------------------
(***************************************************************************)
(* MinCoreDriver of fpga_harness/host/mincore_uart.py, and the main() that *)
(* uses it, at the end of this module.  The driver: one request, one       *)
(* response of fixed length, no framing, one deadline for the whole        *)
(* exchange.  Every transport call runs on a worker thread that is         *)
(* abandoned when the deadline passes and may still act on the port later. *)
(*                                                                         *)
(* The serial port and the device behind it are external: the port hands   *)
(* bytes over one at a time, in order and with any delay; the device       *)
(* answers each complete command.  A byte is its origin: the exchange that *)
(* asked for it, 0 for what was buffered before, or line noise.            *)
(***************************************************************************)
EXTENDS Integers, Sequences

CONSTANTS Operations,
          RequestLength,    \* Len(encode_request(op)), operation -> length
          response_length,  \* response_length(op)
          Status,           \* the operation whose value is fixed (STATUS_BYTES)
          MaxExchanges, MaxNoise, MaxStale,   \* bounds
          None

ASSUME MinCoreAssumption ==
    /\ Status \in Operations
    /\ RequestLength \in [Operations -> Nat \ {0}]
    /\ response_length \in [Operations -> Nat]
    /\ {MaxExchanges, MaxNoise, MaxStale} \subseteq Nat

VARIABLES usable,     \* _usable
          phase,      \* where exchange() is
          op, n,      \* the operation and the number of the exchange
          offset,     \* request bytes written (_write_all)
          response,   \* bytes returned by _read_exact so far
          drained,    \* bytes this drain_stale call has removed
          expired,    \* the deadline has passed
          call,       \* the bounded call in progress, or None
          outcome     \* how the last exchange ended
VARIABLES wire,       \* history: every byte ever given to the port
          taken,      \* how many of them the device has taken
          device,     \* the command the device is in
          rxbuf,      \* bytes buffered at the host
          noise,      \* noise bytes so far
          abandoned   \* the call of a worker nobody waits for, or None

driver == <<usable, phase, op, n, offset, response, drained, expired, call, outcome>>
port == <<wire, taken, device, rxbuf, noise>>
vars == <<driver, port, abandoned>>

Noise == -1
Drains == {"drain_count", "drain_read", "extra_count", "extra_read"}
Reads == {"drain_read", "read", "extra_read"}
Phases == Drains \cup {"idle", "write", "flush", "read"}

Byte == [exchange : Int, good : BOOLEAN]

\* A bounded call: where exchange() made it, what it has moved so far, the index of
\* the first request byte it may write, and for how much it was made.
CallRecord == [phase : Phases, moved : Nat, got : Seq(Byte), first : Nat \ {0},
               exchange : Nat \ {0}, want : Nat]
ASSUME CallAssumption == None \notin CallRecord

\* The end of an exchange.
Finished(kind, observed, accepted) ==
    [exchange |-> n, kind |-> kind, observed |-> observed, accepted |-> accepted]

\* error.observed, as exchange() leaves it: nothing that predates the request,
\* and everything that followed it.
Observed == IF phase \in {"drain_count", "drain_read"} THEN <<>> ELSE response \o drained

\* A MinCoreError leaves exchange(): the driver stays unusable.
Raise(kind) ==
    /\ outcome' = Finished(kind, Observed, FALSE)
    /\ phase' = "idle" /\ call' = None
    /\ UNCHANGED <<usable, op, n, offset, response, drained, expired>>
-----------------------------------------------------------------------------
(* exchange() *)

\* Mutant: _usable is left alone while an exchange is under way.
UsableWhileExchanging == TRUE
\* exchange() withdraws _usable and returns it only on success.
UsableDuring == FALSE

BeginExchange(operation) ==
    /\ phase = "idle" /\ n < MaxExchanges /\ usable
    /\ op' = operation /\ n' = n + 1
    /\ usable' = UsableDuring
    /\ phase' = "drain_count" /\ expired' = FALSE
    /\ offset' = 0 /\ response' = <<>> /\ drained' = <<>>
    /\ UNCHANGED <<call, outcome, port, abandoned>>

\* An unusable driver refuses before it touches the port.
RefuseExchange ==
    /\ phase = "idle" /\ n < MaxExchanges /\ ~usable
    /\ n' = n + 1
    /\ outcome' = [exchange |-> n + 1, kind |-> "TransportFailure",
                   observed |-> <<>>, accepted |-> FALSE]
    /\ UNCHANGED <<usable, phase, op, offset, response, drained, expired, call, port, abandoned>>

Expire == /\ phase # "idle" /\ ~expired /\ expired' = TRUE
          /\ UNCHANGED <<usable, phase, op, n, offset, response, drained, call, outcome, port,
                         abandoned>>
-----------------------------------------------------------------------------
(* _bounded: no call is started without budget; a call in progress          *)
(* returns, raises, or is abandoned at the deadline.                        *)

\* Mutant: the budget is not looked at before a call.
AnyBudget == TRUE
Budget == ~expired

StartCall ==
    /\ phase # "idle" /\ call = None /\ Budget
    /\ call' = [phase |-> phase, moved |-> 0, got |-> <<>>, first |-> offset + 1, exchange |-> n,
                want |-> IF phase = "read" THEN response_length[op] - Len(response)
                         ELSE IF phase = "write" THEN RequestLength[op] - offset
                         ELSE Len(rxbuf)]
    /\ UNCHANGED <<usable, phase, op, n, offset, response, drained, expired, outcome, port, abandoned>>

NoBudget == /\ phase # "idle" /\ call = None /\ ~Budget
            /\ Raise("TransportTimeout") /\ UNCHANGED <<port, abandoned>>

CallFails == call # None /\ Raise("TransportFailure") /\ UNCHANGED <<port, abandoned>>

AbandonCall == /\ call # None /\ expired /\ abandoned' = call
               /\ Raise("TransportTimeout") /\ UNCHANGED port

\* What a call does to the port while it runs, waited for or not.
Progress(running) ==
    \/ /\ running.phase \in Reads /\ running.moved < running.want /\ rxbuf # <<>>
       /\ rxbuf' = Tail(rxbuf) /\ UNCHANGED <<wire, taken, device, noise>>
    \/ /\ running.phase = "write" /\ running.moved < running.want
       /\ wire' = Append(wire, [exchange |-> running.exchange, op |-> op,
                                index |-> running.first + running.moved])
       /\ UNCHANGED <<rxbuf, taken, device, noise>>
Moved(running) ==
    [running EXCEPT !.moved = @ + 1,
                    !.got = IF running.phase \in Reads THEN Append(@, Head(rxbuf)) ELSE @]

CallProgresses ==
    /\ call # None /\ Progress(call) /\ call' = Moved(call)
    /\ UNCHANGED <<usable, phase, op, n, offset, response, drained, expired, outcome, abandoned>>
AbandonedCallProgresses ==
    /\ abandoned # None /\ Progress(abandoned) /\ abandoned' = Moved(abandoned)
    /\ UNCHANGED driver
-----------------------------------------------------------------------------
(* Returning calls: drain_stale, _write_all, _flush_output, _read_exact,    *)
(* decode_response and _reject_buffered_extra.                              *)

\* drain_stale ends only where the port reports nothing buffered.
CountReturns ==
    /\ call # None /\ call.phase \in {"drain_count", "extra_count"} /\ call' = None
    /\ \/ /\ rxbuf # <<>>
          /\ phase' = IF phase = "drain_count" THEN "drain_read" ELSE "extra_read"
          /\ UNCHANGED drained
       \/ /\ rxbuf = <<>> /\ phase = "drain_count"
          /\ phase' = "write" /\ drained' = <<>>
    /\ UNCHANGED <<usable, op, n, offset, response, expired, outcome, port, abandoned>>

\* _reject_buffered_extra: the response stands if nothing followed it, and only
\* then is the driver usable again.
ExtraEnds ==
    /\ call # None /\ call.phase = "extra_count" /\ rxbuf = <<>>
    /\ usable' = (drained = <<>>)
    /\ outcome' = IF drained = <<>> THEN Finished("ok", response, TRUE)
                  ELSE Finished("ResponseError", Observed, FALSE)
    /\ phase' = "idle" /\ call' = None
    /\ UNCHANGED <<op, n, offset, response, drained, expired, port, abandoned>>

\* A read that returned nothing made no progress and is tried again.
DrainReturns ==
    /\ call # None /\ call.phase \in {"drain_read", "extra_read"}
    /\ drained' = drained \o call.got /\ call' = None
    /\ phase' = IF phase = "drain_read" THEN "drain_count" ELSE "extra_count"
    /\ UNCHANGED <<usable, op, n, offset, response, expired, outcome, port, abandoned>>

OffsetAfter == offset + call.moved

PhaseAfterWrite == IF response_length[op] = 0 THEN "flush" ELSE "read"

WriteReturns ==
    /\ call # None /\ call.phase = "write"
    /\ offset' = OffsetAfter /\ call' = None
    /\ phase' = IF offset' = RequestLength[op] THEN PhaseAfterWrite ELSE "write"
    /\ UNCHANGED <<usable, op, n, response, drained, expired, outcome, port, abandoned>>

\* tcdrain: everything written has left the host.
FlushReturns ==
    /\ call # None /\ call.phase = "flush" /\ taken = Len(wire)
    /\ phase' = "extra_count" /\ call' = None
    /\ UNCHANGED <<usable, op, n, offset, response, drained, expired, outcome, port, abandoned>>

decode_response(bytes) == op = Status => \A i \in DOMAIN bytes : bytes[i].good

\* A chunk that arrives with the deadline past is observed but not accepted.
ReadReturns ==
    /\ call # None /\ call.phase = "read"
    /\ LET data == response \o call.got
       IN  /\ response' = data /\ call' = None
           /\ \/ /\ expired
                 /\ outcome' = Finished("TransportTimeout", data, FALSE) /\ phase' = "idle"
              \/ /\ ~expired /\ Len(data) < response_length[op]
                 /\ phase' = "read" /\ UNCHANGED outcome
              \/ /\ ~expired /\ Len(data) = response_length[op] /\ decode_response(data)
                 /\ phase' = "extra_count" /\ UNCHANGED outcome
              \/ /\ ~expired /\ Len(data) = response_length[op] /\ ~decode_response(data)
                 /\ outcome' = Finished("ResponseError", data, FALSE) /\ phase' = "idle"
    /\ UNCHANGED <<usable, op, n, offset, drained, expired, port, abandoned>>
-----------------------------------------------------------------------------
(* The device, external. *)

DeviceTakes ==
    /\ taken < Len(wire) /\ device.owes = 0
    /\ LET byte == wire[taken + 1]
           fresh == [exchange |-> byte.exchange, op |-> byte.op,
                     needs |-> RequestLength[byte.op], owes |-> 0]
           command == IF device.needs = 0 THEN fresh ELSE device
       IN  device' = [command EXCEPT
                        !.needs = @ - 1,
                        !.owes = IF command.needs = 1 THEN response_length[command.op] ELSE 0]
    /\ taken' = taken + 1
    /\ UNCHANGED <<driver, wire, rxbuf, noise, abandoned>>

DeviceEmits ==
    /\ device.owes > 0
    /\ \E good \in BOOLEAN : rxbuf' = Append(rxbuf, [exchange |-> device.exchange, good |-> good])
    /\ device' = [device EXCEPT !.owes = @ - 1]
    /\ UNCHANGED <<driver, wire, taken, noise, abandoned>>

LineNoise ==
    /\ noise < MaxNoise /\ noise' = noise + 1
    /\ rxbuf' = Append(rxbuf, [exchange |-> Noise, good |-> FALSE])
    /\ UNCHANGED <<driver, wire, taken, device, abandoned>>
-----------------------------------------------------------------------------
Init ==
    /\ usable = TRUE /\ phase = "idle" /\ op = Status /\ n = 0 /\ offset = 0
    /\ response = <<>> /\ drained = <<>> /\ expired = FALSE /\ call = None
    /\ outcome = [exchange |-> 0, kind |-> "none", observed |-> <<>>, accepted |-> FALSE]
    /\ wire = <<>> /\ taken = 0 /\ noise = 0 /\ abandoned = None
    /\ device = [exchange |-> 0, op |-> Status, needs |-> 0, owes |-> 0]
    /\ \E stale \in 0..MaxStale :
         rxbuf = [i \in 1..stale |-> [exchange |-> 0, good |-> FALSE]]

ExchangeStep == \/ Expire \/ StartCall \/ NoBudget \/ AbandonCall \/ CallFails
                \/ CallProgresses \/ CountReturns \/ ExtraEnds \/ DrainReturns
                \/ WriteReturns \/ FlushReturns \/ ReadReturns
DeviceStep == DeviceTakes \/ DeviceEmits \/ LineNoise \/ AbandonedCallProgresses

Next == \/ \E operation \in Operations : BeginExchange(operation)
        \/ RefuseExchange
        \/ ExchangeStep
        \/ DeviceStep

\* The clock advances and the driver's thread runs; nothing is assumed of the
\* port, whose calls may block for ever.
Spec == /\ Init /\ [][Next]_vars
        /\ WF_vars(Expire) /\ WF_vars(NoBudget) /\ WF_vars(AbandonCall)
-----------------------------------------------------------------------------
(* Properties *)

\* Type correctness of the driver's state.
TypeOK ==
    /\ usable \in BOOLEAN /\ phase \in Phases /\ op \in Operations /\ n \in 0..MaxExchanges
    /\ offset \in 0..RequestLength[op] /\ Len(response) <= response_length[op]
    /\ expired \in BOOLEAN /\ taken \in 0..Len(wire)
    /\ call # None => call.phase = phase /\ call.moved <= call.want

\* An accepted response holds no byte that answers an earlier request and none
\* that was buffered before this one: after a timeout or a failure the late
\* reply meets a driver that refuses to read (_usable).  The grammar has no
\* framing, so this needs a line without noise bytes.
AcceptedIsOwnReply ==
    outcome.accepted /\ noise = 0 =>
        \A i \in DOMAIN outcome.observed : outcome.observed[i].exchange = outcome.exchange

\* While an abandoned worker may still read from or write to the port, the
\* driver makes no transport call at all.
AbandonedCallIsAlone == abandoned # None => call = None

\* Whatever partial writes, failures and abandoned workers do, the device is
\* sent each request byte at most once and in order: nothing is retried.
RequestSentOnce ==
    \A i, j \in DOMAIN wire :
        i < j => \/ wire[i].exchange < wire[j].exchange
                 \/ /\ wire[i].exchange = wire[j].exchange
                    /\ wire[i].index < wire[j].index

\* Success on a clean line means that the whole request has left the host, also
\* for a request that no response confirms (CLEAR).
AcceptedRequestLeft ==
    outcome.accepted /\ outcome.exchange = n /\ noise = 0 =>
        \A i \in DOMAIN wire : wire[i].exchange = n => i <= taken

\* What an error reports as observed never contains a byte buffered before the
\* request: stale input is not claimed as an answer.
ObservedIsNotStale ==
    \A i \in DOMAIN outcome.observed : outcome.observed[i].exchange # 0

\* Every exchange ends, even on a port that blocks for ever or that reports
\* buffered bytes it never delivers.
ExchangeTerminates == phase # "idle" ~> phase = "idle"

\* What a reply of the driver is worth: the parts above together.
ExchangeIsOwn ==
    /\ TypeOK /\ AcceptedIsOwnReply /\ AbandonedCallIsAlone /\ RequestSentOnce
    /\ AcceptedRequestLeft /\ ObservedIsNotStale

-----------------------------------------------------------------------------
(* main() around one driver: modes, the evidence file, what is recorded of  *)
(* which attempt, and the exit status.  Hashes, hex and JSON are left out: a *)
(* record holds the response bytes themselves.                               *)

CONSTANTS Outside, Untracked, Tracked,  \* where the evidence path lies for git
          Vectored                       \* operations that have a golden vector

\* "Unknown" is not a Boolean, and git does not track what is outside or untracked.
ASSUME MainAssumption ==
    /\ None \notin BOOLEAN
    /\ Tracked \notin {Untracked, Outside}

VARIABLES args,       \* [mode, evidence, vector]
          git,        \* [known, place, changed]: what git would answer
          stage,      \* how far main() is
          evidence,   \* the records in the evidence file
          broken,     \* history: a record could not be written
          status      \* exit status, or None

mainVars == <<args, git, stage, evidence, broken, status>>

Modes == {"decode", "execute", "dry"}
Places == {Outside, Untracked, Tracked}

\* Mutant: the evidence file never counts as a change.
repo_provenance_lenient == IF ~git.known THEN None ELSE git.changed \ {"evidence"} # {}
\* repo_dirty: unknown without git; an untracked evidence file of this tool is
\* not a change, a tracked one is.
repo_provenance ==
    IF ~git.known THEN None
    ELSE git.changed \ (IF git.place \in {Untracked, Outside} THEN {"evidence"} ELSE {}) # {}

Record(response_bytes, passed, attempted, failure) ==
    [response |-> response_bytes, pass |-> passed, execution_attempted |-> attempted,
     serial_response_observed |-> attempted /\ response_bytes # <<>>,
     failure |-> failure, dirty |-> repo_provenance]

Exit(code) == stage' = "exited" /\ status' = code

\* record_evidence may hit a full disk: then nothing usable is appended.
TryRecord(record) == \/ evidence' = Append(evidence, record) /\ UNCHANGED broken
                     \/ broken' = TRUE /\ UNCHANGED evidence

\* _operation_inputs and _open_evidence come before anything is sent: a vector of
\* another operation and an unusable destination end the run here.
OpenEvidence ==
    /\ stage = "start"
    /\ \/ stage' = args.mode /\ UNCHANGED status
       \/ (args.vector \/ args.evidence) /\ Exit(2)
    /\ UNCHANGED <<args, git, evidence, broken, vars>>

\* passed: only a golden vector makes a verdict.
Passed(matches) == IF args.vector THEN matches ELSE None

\* The common tail of main(): record, close, print, exit.
Conclude(record) ==
    /\ \/ args.evidence /\ TryRecord(record)
       \/ ~args.evidence /\ UNCHANGED <<evidence, broken>>
    /\ Exit(IF broken' THEN 2 ELSE IF record.pass = FALSE THEN 1 ELSE 0)
    /\ UNCHANGED <<args, git>>

\* --decode: a supplied response is validated; a rejected one leaves no record.
Decode ==
    /\ stage = "decode" /\ UNCHANGED vars
    /\ \/ \E matches \in BOOLEAN : Conclude(Record(<<>>, Passed(matches), FALSE, None))
       \/ Exit(2) /\ UNCHANGED <<args, git, evidence, broken>>

DryRun ==
    /\ stage = "dry" /\ UNCHANGED vars
    /\ Conclude(Record(<<>>, None, FALSE, None))

\* _physical_transport: a port that does not open leaves no record.
OpenPort ==
    /\ stage = "execute"
    /\ \/ /\ \E operation \in Operations : /\ args.vector => operation \in Vectored
                                         /\ BeginExchange(operation)
          /\ stage' = "exchanging" /\ UNCHANGED status
       \/ Exit(2) /\ UNCHANGED vars
    /\ UNCHANGED <<args, git, evidence, broken>>

Exchanging == stage = "exchanging" /\ ExchangeStep /\ UNCHANGED mainVars

\* _record_failed_attempt: a second failure must not hide the first.
RecordFailedAttempt(record) ==
    IF args.evidence THEN TryRecord(record) ELSE UNCHANGED <<evidence, broken>>

ExchangeFailed ==
    /\ stage = "exchanging" /\ phase = "idle" /\ ~outcome.accepted
    /\ RecordFailedAttempt(Record(outcome.observed, None, TRUE, outcome.kind))
    /\ Exit(2) /\ UNCHANGED <<args, git, vars>>

Verdict == Passed(\A i \in DOMAIN outcome.observed : outcome.observed[i].good)

ExchangeSucceeded ==
    /\ stage = "exchanging" /\ phase = "idle" /\ outcome.accepted
    /\ Conclude(Record(outcome.observed, Verdict, TRUE, None))
    /\ UNCHANGED vars

DeviceSide == stage = "exchanging" /\ DeviceStep /\ UNCHANGED mainVars

MainInit ==
    /\ Init
    /\ args \in [mode : Modes, evidence : BOOLEAN, vector : BOOLEAN]
    /\ git \in [known : BOOLEAN, place : Places, changed : SUBSET {"source", "evidence"}]
    /\ git.place = Outside => "evidence" \notin git.changed
    /\ stage = "start" /\ evidence = <<>> /\ broken = FALSE /\ status = None

MainNext == \/ OpenEvidence \/ Decode \/ DryRun \/ OpenPort \/ Exchanging
            \/ ExchangeFailed \/ ExchangeSucceeded \/ DeviceSide
MainSpec == MainInit /\ [][MainNext]_<<vars, mainVars>>
-----------------------------------------------------------------------------
(* Properties *)

\* A run that may have sent bytes to the device is never indistinguishable
\* from one that never ran: with an evidence file it leaves exactly one record,
\* marked execution_attempted, unless that record could not be written.
AttemptLeavesRecord ==
    stage = "exited" /\ args.evidence /\ ~broken /\ n > 0 =>
        Len(evidence) = 1 /\ evidence[1].execution_attempted

\* Exit status 0 of an execution means an accepted response, recorded if an
\* evidence file was asked for; 1 means that an accepted response differs from
\* the golden vector; every transport trouble is 2 and passes no verdict.
ExitIsBacked ==
    /\ stage = "exited" /\ args.mode = "execute" /\ status \in {0, 1}
         => /\ outcome.accepted /\ (args.evidence => Len(evidence) = 1)
            /\ args.vector => ((status = 0) <=> \A i \in DOMAIN response : response[i].good)
    /\ \A i \in DOMAIN evidence :
         evidence[i].failure # None => evidence[i].pass = None /\ status \in {None, 2}

\* A record that calls the checkout clean was made with no source change and
\* with no edit of a tracked file that the evidence path names.
CleanMeansClean ==
    \A i \in DOMAIN evidence :
        evidence[i].dirty = FALSE =>
            "source" \notin git.changed /\ (git.place = Tracked => git.changed = {})

\* The evidence file and the exit status say what happened on the wire.
RecordIsTrue == AttemptLeavesRecord /\ ExitIsBacked /\ CleanMeansClean
=============================================================================
