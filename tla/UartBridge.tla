----------------------------- MODULE UartBridge -----------------------------
(***************************************************************************)
(* fpga/ulx3s/uart_bridge.sv in raw MinCore mode, clock by clock: one-deep *)
(* buffers each way, the one-cycle abort pulse from 0x7f or a framing      *)
(* error, and the serialiser, which needs one clock more per byte than the *)
(* line (uart_tx.sv reloads from its ready state).  The host streams SET   *)
(* commands without pause; the core behind the pins echoes each operand.   *)
(*                                                                         *)
(* A byte is its command's epoch (aborts seen by then) and its position.   *)
(***************************************************************************)
EXTENDS Integers

CONSTANTS RxTime,    \* clocks per byte on the line: 250
          TxTime,    \* clocks the serialiser holds a byte: RxTime
          Operands,  \* operand bytes of a command: 16
          MaxAborts, \* bound
          NoByte, ABORT

\* What the constants must satisfy.
ASSUME BridgeAssumption ==
    /\ {RxTime, TxTime, Operands, MaxAborts} \subseteq Nat
    /\ RxTime > 3 /\ TxTime <= RxTime /\ Operands > 0 /\ Operands <= TxTime
    /\ NoByte # ABORT /\ \A e \in 0..MaxAborts, p \in 0..Operands :
                            [epoch |-> e, position |-> p] \notin {NoByte, ABORT}

VARIABLES gap, next, epoch,   \* the line: clocks to the next byte, and which one it is
          pulse,              \* uart_rx_valid with its byte, an abort event, or NoByte
          abort_q, rx_full, rx_data_q, rx_overrun, tx_full, tx_data_q,
          tx_left,            \* uart_tx: clocks until tx_ready
          count, core_epoch, core_out,   \* the core: position in the command, byte on offer
          loaded              \* history: the last byte given to the serialiser

bridgeVars == <<gap, next, epoch, pulse, abort_q, rx_full, rx_data_q, rx_overrun, tx_full,
          tx_data_q, tx_left, count, core_epoch, core_out, loaded>>

After(position) == IF position = Operands THEN 0 ELSE position + 1
-----------------------------------------------------------------------------
\* uart_rx: at most one event per byte time.
Line ==
    \/ /\ gap > 0 /\ gap' = gap - 1 /\ pulse' = NoByte /\ UNCHANGED <<next, epoch>>
    \/ gap = 0 /\ pulse' = NoByte /\ UNCHANGED <<gap, next, epoch>>
    \/ /\ gap = 0 /\ gap' = RxTime - 1
       /\ pulse' = [epoch |-> epoch, position |-> next] /\ next' = After(next)
       /\ UNCHANGED epoch
    \/ /\ gap = 0 /\ epoch < MaxAborts /\ gap' = RxTime - 1
       /\ pulse' = ABORT /\ next' = 0 /\ epoch' = epoch + 1

rx_accept == pulse # NoByte /\ pulse # ABORT
core_rx_ready == core_out = NoByte
rx_core_fire == rx_full /\ core_rx_ready

core_tx_ready == ~tx_full
tx_core_fire == core_out # NoByte /\ core_tx_ready
tx_uart_fire == tx_full /\ tx_left = 0

\* Mutant: the core's read does not empty the buffer.
RxHeldStill == rx_full
RxHeld == rx_full /\ ~rx_core_fire

HostToCore ==
    /\ abort_q' = (pulse = ABORT)
    /\ IF abort_q THEN rx_full' = FALSE /\ UNCHANGED rx_data_q
       ELSE IF rx_accept THEN rx_data_q' = pulse /\ rx_full' = TRUE
       ELSE rx_full' = RxHeld /\ UNCHANGED rx_data_q
    /\ rx_overrun' = (rx_overrun \/ (rx_accept /\ rx_full /\ ~rx_core_fire))

\* The core's SET stream: an opcode, then operands that are echoed.
Core ==
    IF abort_q THEN count' = 0 /\ core_epoch' = core_epoch + 1 /\ core_out' = NoByte
    ELSE IF rx_core_fire
    THEN /\ core_out' = IF count = 0 THEN NoByte ELSE rx_data_q
         /\ count' = After(count) /\ UNCHANGED core_epoch
    ELSE core_out' = (IF tx_core_fire THEN NoByte ELSE core_out) /\ UNCHANGED <<count, core_epoch>>

CoreToHost ==
    /\ IF abort_q THEN tx_full' = FALSE /\ UNCHANGED tx_data_q
       ELSE IF tx_core_fire THEN tx_data_q' = core_out /\ tx_full' = TRUE
       ELSE tx_full' = (tx_full /\ ~tx_uart_fire) /\ UNCHANGED tx_data_q
    /\ tx_left' = IF tx_uart_fire THEN TxTime ELSE IF tx_left > 0 THEN tx_left - 1 ELSE 0
    /\ loaded' = IF tx_uart_fire THEN tx_data_q ELSE loaded

BridgeInit ==
    /\ gap = 0 /\ next = 0 /\ epoch = 0 /\ pulse = NoByte /\ abort_q = FALSE
    /\ rx_full = FALSE /\ rx_data_q = NoByte /\ rx_overrun = FALSE
    /\ tx_full = FALSE /\ tx_data_q = NoByte /\ tx_left = 0
    /\ count = 0 /\ core_epoch = 0 /\ core_out = NoByte /\ loaded = NoByte

BridgeNext == Line /\ HostToCore /\ Core /\ CoreToHost

\* The clock never stops.
BridgeSpec == BridgeInit /\ [][BridgeNext]_bridgeVars /\ WF_bridgeVars(BridgeNext)
-----------------------------------------------------------------------------
(* Properties *)

\* No byte displaces one that the core has not read, although the way back is
\* slower than the way in: the testbenches' assertion on rx_overrun.
NoOverrun == ~rx_overrun

\* What the core is handed is the next byte of the command it is in: nothing lost,
\* doubled or left over from before an abort.
CoreInStep ==
    rx_core_fire /\ ~abort_q => rx_data_q = [epoch |-> core_epoch, position |-> count]

\* The serialiser gets the echoes in order, each once; only an abort makes it skip,
\* and then to the first echo of a later command.
EchoStep ==
    tx_uart_fire =>
        \/ loaded = NoByte
        \/ tx_data_q.epoch > loaded.epoch /\ tx_data_q.position = 1
        \/ /\ tx_data_q.epoch = loaded.epoch
           /\ tx_data_q.position = IF loaded.position = Operands THEN 1 ELSE loaded.position + 1

\* No byte is displaced, and the core is given the next byte of its own command.
BridgeInStep == NoOverrun /\ CoreInStep
=============================================================================
