----------------------------- MODULE PacketRun -----------------------------
(***************************************************************************)
(* Runs of fpga_harness/host/lsc1_packet_uart.py against one board: _run() *)
(* (BREAK, fresh-state check, NEGOTIATE, one instruction, RETIRE) over     *)
(* PacketSerialDriver.exchange_encoded, whose every transport call may     *)
(* fail or be abandoned at the deadline.  A failed run ends; its replies   *)
(* may still be on their way when the next run opens the port.             *)
(*                                                                         *)
(* A frame is a record; the serial line is FIFO in both directions.  The   *)
(* endpoint is reduced to what the tool looks at (module Lsc1Endpoint has  *)
(* the whole of it).                                                       *)
(***************************************************************************)
EXTENDS Integers, Sequences, SequencesExt

CONSTANTS Values,      \* operands of the instruction: the oracle's result is the value
          MaxRuns, MaxDamage,   \* bounds
          MaxLate,     \* requests and replies on the line when a port is opened, a bound:
                       \* a failed run leaves one, and four make up a whole run's replies
          None

\* What the constants must satisfy.
RunAssumption == {MaxRuns, MaxDamage, MaxLate} \subseteq Nat /\ None \notin Values

VARIABLES run, args,        \* the current process: its number, its operation and operand
          stage, phase,     \* the exchange _run() is in, and where that exchange is
          exit,             \* exit status of the last run that ended, or None
          rxbuf             \* frames buffered at the host
VARIABLES air,              \* reply frames on their way
          line,             \* request frames on their way
          partial,          \* the endpoint is inside a frame that will not complete
          staged, retired   \* endpoint: staged instruction, history of retirements
VARIABLES last,             \* history: the last reply a run accepted
          damage

host == <<run, args, stage, phase, exit, rxbuf, last>>
board == <<air, line, partial, staged, retired, damage>>
vars == <<host, board>>

Stages(operation) == IF operation = "status"
                     THEN <<"status", "negotiate", "status_again">>
                     ELSE <<"status", "negotiate", "instruction", "retire">>
IsLast(s) == s \in {"status_again", "retire"}

Fail == stage' = "exited" /\ exit' = 2 /\ phase' = "done"
-----------------------------------------------------------------------------
(* _run: a process opens the port, breaks, settles and drains.             *)

Start ==
    /\ stage = "exited" /\ run < MaxRuns
    /\ Len(line) + Len(air) <= MaxLate
    /\ run' = run + 1
    /\ \E operation \in {"status", "set"}, value \in Values :
         args' = [operation |-> operation, value |-> value]
    /\ stage' = "abort" /\ phase' = "break" /\ exit' = None
    /\ rxbuf' = <<>>     \* a new port starts with an empty buffer
    /\ UNCHANGED <<last, board>>

LineAfterBreak == <<>>

\* abort(): the line is FIFO, so what was written before has reached the endpoint;
\* what it has not answered yet is dropped, and so is a staged transaction.
Break ==
    /\ stage = "abort" /\ phase = "break"
    /\ line' = LineAfterBreak /\ partial' = FALSE /\ staged' = None
    /\ phase' = "settle"
    /\ UNCHANGED <<run, args, stage, exit, rxbuf, last, air, retired, damage>>

Settled ==
    /\ stage = "abort" /\ phase = "settle"
    /\ rxbuf' = <<>> /\ stage' = "status" /\ phase' = "drain"
    /\ UNCHANGED <<run, args, exit, last, board>>
-----------------------------------------------------------------------------
(* exchange_encoded *)

Drain ==
    /\ phase = "drain" /\ rxbuf' = <<>> /\ phase' = "write"
    /\ UNCHANGED <<run, args, stage, exit, last, board>>

Request == [kind |-> stage, run |-> run, value |-> args.value]

\* _write_all and flush.
Write ==
    /\ phase = "write" /\ line' = Append(line, Request) /\ phase' = "read"
    /\ UNCHANGED <<run, args, stage, exit, rxbuf, last, air, partial, staged, retired, damage>>

Deadline == stage # "exited"

\* Any bounded call raises or is abandoned: the run ends and closes the port.  A
\* write may have left nothing, all or a part of the request on the line.
CallRaises ==
    /\ Deadline /\ Fail
    /\ \/ UNCHANGED line
       \/ phase = "write" /\ line' = Append(line, Request)
       \/ phase = "write" /\ line' = Append(line, [Request EXCEPT !.kind = "part"])
    /\ UNCHANGED <<run, args, rxbuf, last, air, partial, staged, retired, damage>>

\* Mutant: any status reply will do.
FreshStatusByKind(reply) == reply.kind = "INFO"
FreshStatus(reply) == reply.kind = "INFO" /\ reply.staged = None /\ reply.seq = 0
OracleResult(reply) == reply.kind = "RESULT" /\ reply.value = args.value
RetiredAck(reply) == reply.kind = "RETIRED" /\ reply.seq = 1

\* decode_response refuses a damaged frame, each stage what it did not ask for.
Valid(reply) ==
    /\ ~reply.damaged
    /\ CASE stage \in {"status", "status_again"} -> FreshStatus(reply)
         [] stage = "negotiate" -> reply.kind = "CAPS"
         [] stage = "instruction" -> OracleResult(reply)
         [] stage = "retire" -> RetiredAck(reply)

ReadReply ==
    /\ phase = "read" /\ rxbuf # <<>>
    /\ last' = Head(rxbuf) /\ rxbuf' = Tail(rxbuf) /\ phase' = "surplus"
    /\ UNCHANGED <<run, args, stage, exit, board>>

NoSurplus == rxbuf = <<>>

\* After a byte time the buffer must be empty; then the caller validates the reply.
Conclude ==
    /\ phase = "surplus"
    /\ \/ /\ NoSurplus /\ Valid(last) /\ ~IsLast(stage)
          /\ LET all == Stages(args.operation)
             IN  stage' = all[1 + CHOOSE i \in DOMAIN all : all[i] = stage]
          /\ phase' = "drain" /\ UNCHANGED exit
       \/ /\ NoSurplus /\ Valid(last) /\ IsLast(stage)
          /\ stage' = "exited" /\ phase' = "done" /\ exit' = 0
       \/ ~(NoSurplus /\ Valid(last)) /\ Fail
    /\ UNCHANGED <<run, args, rxbuf, last, board>>
-----------------------------------------------------------------------------
(* The endpoint behind the line, external. *)

Reply(request, kind) ==
    [kind |-> kind, run |-> request.run, value |-> request.value, damaged |-> FALSE,
     staged |-> staged, seq |-> Len(retired)]

EndpointTakes ==
    /\ line # <<>> /\ line' = Tail(line)
    /\ LET request == Head(line)
           Answer(kind) == air' = Append(air, Reply(request, kind))
       IN  \/ /\ partial  \* the frame completes the partial one: BAD_CRC, or still short
              /\ Answer("FAULT") \/ UNCHANGED air
              /\ partial' \in BOOLEAN /\ UNCHANGED <<staged, retired>>
           \/ /\ ~partial /\ request.kind = "part"
              /\ partial' = TRUE /\ UNCHANGED <<air, staged, retired>>
           \/ /\ ~partial /\ request.kind \in {"status", "status_again"}
              /\ Answer("INFO") /\ UNCHANGED <<partial, staged, retired>>
           \/ /\ ~partial /\ request.kind = "negotiate"
              /\ Answer(IF staged = None THEN "CAPS" ELSE "FAULT")
              /\ UNCHANGED <<partial, staged, retired>>
           \/ /\ ~partial /\ request.kind = "instruction"
              /\ IF staged = None /\ retired = <<>>
                 THEN Answer("RESULT") /\ staged' = request.value
                 ELSE Answer("FAULT") /\ UNCHANGED staged
              /\ UNCHANGED <<partial, retired>>
           \/ /\ ~partial /\ request.kind = "retire"
              /\ IF staged = request.value
                 THEN /\ retired' = Append(retired, [run |-> request.run, value |-> staged])
                      /\ air' = Append(air, [Reply(request, "RETIRED") EXCEPT !.seq = @ + 1])
                      /\ staged' = None
                 ELSE Answer("FAULT") /\ UNCHANGED <<staged, retired>>
              /\ UNCHANGED partial
    /\ UNCHANGED <<host, damage>>

\* A reply reaches the host's buffer, possibly damaged or cut short on the way.
Arrive ==
    /\ air # <<>> /\ air' = Tail(air)
    /\ \/ rxbuf' = Append(rxbuf, Head(air)) /\ UNCHANGED damage
       \/ /\ damage < MaxDamage /\ damage' = damage + 1
          /\ rxbuf' = Append(rxbuf, [Head(air) EXCEPT !.damaged = TRUE])
    /\ UNCHANGED <<run, args, stage, phase, exit, last, line, partial, staged, retired>>

\* The operator resets the board between two runs; replies that have left it stay
\* on their way.
HardwareReset ==
    /\ stage = "exited" /\ phase' = "reset"
    /\ line' = <<>> /\ partial' = FALSE /\ staged' = None /\ retired' = <<>>
    /\ UNCHANGED <<run, args, stage, exit, rxbuf, last, air, damage>>
-----------------------------------------------------------------------------
Init ==
    /\ run = 0 /\ args = [operation |-> "status", value |-> None]
    /\ stage = "exited" /\ phase = "done" /\ exit = None /\ rxbuf = <<>> /\ air = <<>>
    /\ line = <<>> /\ partial = FALSE /\ staged = None /\ retired = <<>>
    /\ last = None /\ damage = 0

Next == \/ Start \/ Break \/ Settled \/ Drain \/ Write \/ CallRaises \/ ReadReply \/ Conclude
        \/ EndpointTakes \/ Arrive \/ HardwareReset

\* Every bounded call ends at the latest at its deadline.
Spec == /\ Init /\ [][Next]_vars
        /\ WF_vars(CallRaises) /\ WF_vars(Break \/ Settled) /\ WF_vars(Drain \/ Conclude)
-----------------------------------------------------------------------------
(* Properties *)

\* Type correctness of the host's state.
TypeOK ==
    /\ run \in 0..MaxRuns /\ exit \in {None, 0, 2}
    /\ stage \in {"abort", "status", "negotiate", "instruction", "retire", "status_again",
                  "exited"}
    /\ phase \in {"break", "settle", "drain", "write", "read", "surplus", "done", "reset"}
    /\ Len(retired) <= MaxRuns /\ partial \in BOOLEAN

\* A run that exits 0 after an instruction has had exactly that instruction, and
\* nothing else since the last reset, retired by this very run: no mixture of its
\* own and an earlier run's late replies adds up to a success.
SuccessIsRetired ==
    exit = 0 /\ args.operation = "set" /\ phase = "done" =>
        retired = <<[run |-> run, value |-> args.value]>>

\* An instruction is put on the line only to an endpoint that has retired nothing
\* since its reset, even if the status that said so was an older one.
InstructionMeetsFreshEndpoint ==
    \A i \in DOMAIN line : line[i].kind = "instruction" => retired = <<>>

\* Every run ends, whatever the port does.
RunEnds == stage # "exited" ~> stage = "exited"

\* A success of the packet tool is its own, however late replies are, as long as at
\* most three of them (MaxLate) are outstanding when a port is opened.
SuccessIsOwn == TypeOK /\ SuccessIsRetired /\ InstructionMeetsFreshEndpoint
=============================================================================
