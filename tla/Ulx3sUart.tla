------------------------------ MODULE Ulx3sUart ------------------------------
(***************************************************************************)
(* Runs of fpga_harness/ulx3s_uart.py, one process after the other, on one *)
(* board.  A run that times out leaves half a request with the core, bytes *)
(* in the kernel's buffer and answers on their way; the next run starts    *)
(* from there.                                                             *)
(*                                                                         *)
(* A request is an opcode and operand bytes, each naming the run's value;  *)
(* an answer is Reply bytes of that value.  set, xor and mul differ in     *)
(* their request and oracle only and are one command, "compute".           *)
(***************************************************************************)
EXTENDS Integers, Sequences, SequencesExt

CONSTANTS Values,    \* what the operands of a run compute to
          Operands,  \* operand bytes: 16 or 32
          Reply,     \* answer bytes: 16, status 4
          DrainMax,  \* max_bytes of drain: 256
          MaxRuns, MaxDamage,  \* bounds
          None

\* A reply is shorter than what one drain takes: 16 or 4 bytes against 256.
UartAssumption ==
    /\ {Operands, Reply, DrainMax, MaxRuns, MaxDamage} \subseteq Nat
    /\ 0 < Reply /\ Reply < DrainMax

VARIABLES run, args, pc,  \* the process: its number, arguments, where main() is
          sent,           \* units of the current send_bytes written so far
          got,            \* bytes recv_exact returned
          exit,           \* [status, how]: how is "return" or an uncaught "raise"
          rx              \* bytes buffered at the host
VARIABLES air, line,      \* bytes to the host, units to the board, on their way
          held,           \* units of the command the core is in
          answer,         \* history: bytes the board sent since this run's ABORT
          harmed,         \* history: the board or the link failed since then
          damage

host == <<run, args, pc, sent, got, exit, rx>>
board == <<air, line, held, answer, harmed, damage>>
vars == <<host, board>>

ABORT == [val |-> None, pos |-> 0]
STATUS == [val |-> None, pos |-> 1]
CLEAR == [val |-> None, pos |-> 2]
Garbled == [val |-> None, pos |-> -1]     \* a result of mixed operands
Err == [val |-> None, pos |-> -2]         \* 0xe0

Payloads == {"none", "not hex", "short", "has 0x7f", "good"}
Args == [tx : {"compute", "status", "clear"}, payload : Payloads, value : Values,
         timeout : BOOLEAN]               \* timeout: is it finite and positive

Request(a) ==
    IF a.tx = "status" THEN <<STATUS>>
    ELSE IF a.tx = "clear" THEN <<CLEAR>>
    ELSE [i \in 1..(Operands + 1) |->
            IF i = 2 /\ a.payload = "has 0x7f" THEN ABORT ELSE [val |-> a.value, pos |-> i + 2]]
IsOpcode(u) == u.pos = 3
Oracle(a) == [i \in 1..Reply |->
                [val |-> IF a.tx = "status" THEN STATUS ELSE a.value, pos |-> i]]
-----------------------------------------------------------------------------
(* main                                                                    *)

Return(status) == exit' = [status |-> status, how |-> "return"] /\ pc' = "exited"
\* An exception main() does not list: Python exits with status 1.
Traceback == exit' = [status |-> 1, how |-> "raise"] /\ pc' = "exited"

Start ==
    /\ pc = "exited" /\ run < MaxRuns
    /\ run' = run + 1 /\ args' \in Args
    /\ pc' = "open" /\ exit' = None /\ sent' = 0 /\ got' = <<>>
    /\ answer' = <<>> /\ harmed' = FALSE
    /\ UNCHANGED <<rx, air, line, held, damage>>

\* _validate_timeout, then open_port with its reset_input_buffer.
Open ==
    /\ pc = "open"
    /\ \/ args.timeout /\ pc' = "drain" /\ rx' = <<>> /\ UNCHANGED exit
       \/ Return(2) /\ UNCHANGED rx
    /\ UNCHANGED <<run, args, sent, got, board>>

\* drain: 50 ms in which everything on its way arrives and is read, up to max_bytes.
Drained == line = <<>>
Rest(bytes) == SubSeq(bytes, DrainMax + 1, Len(bytes))
DrainOpen ==
    /\ pc = "drain" /\ Drained
    /\ rx' = Rest(rx \o air) /\ air' = <<>>
    /\ pc' = "args"
    /\ UNCHANGED <<run, args, sent, got, exit, line, held, answer, harmed, damage>>

CarriesAbort == args.payload = "has 0x7f"

CheckArgs ==
    /\ pc = "args"
    /\ IF args.tx = "compute" /\ (args.payload \in {"none", "not hex", "short"} \/ CarriesAbort)
       THEN Return(2)
       ELSE pc' = "resync" /\ UNCHANGED exit
    /\ UNCHANGED <<run, args, sent, got, rx, board>>

\* resync: drain again, then send_bytes of one ABORT.
Resync ==
    /\ pc = "resync" /\ Drained
    /\ rx' = Rest(rx \o air) /\ air' = <<>>
    /\ pc' = "abort"
    /\ UNCHANGED <<run, args, sent, got, exit, line, held, answer, harmed, damage>>

\* Mutant: resync only drains.
PreambleNone == <<>>
Preamble == <<ABORT>>
Outgoing == IF pc = "abort" THEN Preamble ELSE Request(args)
Left == SubSeq(Outgoing, sent + 1, Len(Outgoing))

Advance(n) == sent + n

\* send_bytes: a short write advances by what was accepted.
SendBytes ==
    /\ pc \in {"abort", "send"} /\ Left # <<>>
    /\ \E n \in 1..Len(Left) : line' = line \o SubSeq(Left, 1, n) /\ sent' = Advance(n)
    /\ UNCHANGED <<run, args, pc, got, exit, rx, air, held, answer, harmed, damage>>

\* flush returns once the kernel's buffer is empty.
Flush ==
    /\ pc \in {"abort", "send"} /\ Left = <<>> /\ line = <<>>
    /\ sent' = 0
    /\ IF pc = "abort" THEN pc' = "send" /\ UNCHANGED exit
       ELSE IF args.tx = "clear" THEN Return(0)
       ELSE pc' = "recv" /\ UNCHANGED exit
    /\ UNCHANGED <<run, args, got, rx, board>>

RecvExact ==
    /\ pc = "recv" /\ Len(got) < Reply /\ rx # <<>>
    /\ got' = Append(got, Head(rx)) /\ rx' = Tail(rx)
    /\ UNCHANGED <<run, args, pc, sent, exit, board>>

Surplus == rx \o air # <<>>

\* recv_response drains for SETTLE_S; then main() compares with its oracle.
Compare ==
    /\ pc = "recv" /\ Len(got) = Reply /\ Drained
    /\ IF Surplus THEN Return(2) ELSE Return(IF got = Oracle(args) THEN 0 ELSE 1)
    /\ rx' = Rest(rx \o air) /\ air' = <<>>
    /\ UNCHANGED <<run, args, sent, got, line, held, answer, harmed, damage>>

DeadlinePhases == {"drain", "resync", "abort", "send", "recv"}

\* A deadline passes or pyserial raises SerialException, in any call; the worker of an
\* abandoned write may still have handed over part of its chunk.
Fails ==
    /\ pc \in DeadlinePhases
    /\ Return(2)
    /\ \E n \in 0..(IF pc \in {"abort", "send"} THEN Len(Left) ELSE 0) :
         line' = line \o SubSeq(Left, 1, n)
    /\ UNCHANGED <<run, args, sent, got, rx, air, held, answer, harmed, damage>>

\* An OSError that is no SerialException: an invalid count from write.
FailsOSError ==
    /\ pc \in {"abort", "send"} /\ Left # <<>>
    /\ Traceback
    /\ UNCHANGED <<run, args, sent, got, rx, board>>
-----------------------------------------------------------------------------
(* The board: bridge and core, as the driver relies on them.               *)

Answers(bytes) ==
    \/ air' = air \o bytes /\ answer' = answer \o bytes /\ UNCHANGED <<harmed, damage>>
    \/ /\ damage < MaxDamage /\ damage' = damage + 1 /\ harmed' = TRUE
       /\ \E d \in {SubSeq(bytes, 1, Len(bytes) - 1), bytes \o <<Last(bytes)>>,
                    [bytes EXCEPT ![1] = Garbled]} :
            air' = air \o d /\ answer' = answer \o d

Receive ==
    /\ line # <<>> /\ line' = Tail(line)
    /\ LET u == Head(line)
           command == Append(held, u)
           result == IF \A i \in DOMAIN command : command[i].val = u.val THEN u.val ELSE Garbled
       IN \/ u = ABORT /\ held' = <<>> /\ answer' = <<>> /\ harmed' = FALSE /\ UNCHANGED <<air, damage>>
          \/ /\ u # ABORT /\ held = <<>> /\ u = CLEAR
             /\ UNCHANGED <<held, air, answer, harmed, damage>>
          \/ /\ u # ABORT /\ held = <<>> /\ u = STATUS /\ held' = <<>>
             /\ Answers([i \in 1..Reply |-> [val |-> STATUS, pos |-> i]])
          \/ /\ u \notin {ABORT, CLEAR, STATUS} /\ held = <<>> /\ ~IsOpcode(u)
             /\ held' = <<>> /\ Answers(<<Err>>)
          \/ /\ u # ABORT /\ Len(command) <= Operands /\ (held # <<>> \/ IsOpcode(u))
             /\ held' = command /\ UNCHANGED <<air, answer, harmed, damage>>
          \/ /\ u # ABORT /\ held # <<>> /\ Len(command) > Operands
             /\ held' = <<>>
             /\ Answers([i \in 1..Reply |-> [val |-> result, pos |-> i]])
    /\ UNCHANGED host

Arrive ==
    /\ air # <<>> /\ air' = Tail(air) /\ rx' = Append(rx, Head(air))
    /\ UNCHANGED <<run, args, pc, sent, got, exit, line, held, answer, harmed, damage>>

Init ==
    /\ run = 0 /\ args = None /\ pc = "exited" /\ sent = 0 /\ got = <<>> /\ exit = None
    /\ rx = <<>> /\ air = <<>> /\ line = <<>> /\ held = <<>>
    /\ answer = <<>> /\ harmed = FALSE /\ damage = 0

Process == \/ Open \/ DrainOpen \/ CheckArgs \/ Resync \/ SendBytes \/ Flush
           \/ RecvExact \/ Compare \/ Fails \/ FailsOSError
Board == Receive \/ Arrive
Next == Start \/ Process \/ Board

\* Deadlines pass, and the line and the board do not stop.
Spec == Init /\ [][Next]_vars /\ WF_vars(Process) /\ WF_vars(Board)
-----------------------------------------------------------------------------
(* Properties *)

\* Every buffer holds bytes of its direction, and a finished run has a status.
TypeOK ==
    /\ run \in 0..MaxRuns /\ sent \in 0..(Operands + 1) /\ Len(got) <= Reply
    /\ Len(held) <= Operands /\ \A i \in DOMAIN held : held[i] # ABORT
    /\ pc = "exited" /\ run > 0 => exit.status \in 0..2

\* A MATCH is this board's own answer to this run: all of what it sent since the run's
\* ABORT, no byte more, and none of an earlier run's.
MatchIsTheAnswer ==
    pc = "exited" /\ run > 0 /\ exit.status = 0 /\ args.tx # "clear" =>
        got = Oracle(args) /\ answer = got

\* main() reports a wrong result only of a board or a link that failed in this run,
\* whatever the runs before it left behind.
BadBoardIsBad == pc = "exited" /\ run > 0 /\ exit = [status |-> 1, how |-> "return"] => harmed

\* Every run ends.
RunEnds == pc # "exited" ~> pc = "exited"

\* Both verdicts of the tool are about this run and this board.
VerdictIsTrue == TypeOK /\ MatchIsTheAnswer /\ BadBoardIsBad
=============================================================================
