----------------------------- MODULE StreamAlu -----------------------------
(***************************************************************************)
(* The MinCore byte-stream ALU, clock edge by clock edge                   *)
(* (sim/cycle_model.py), behind the lane that says which beats count       *)
(* (sim/protocol_contract.py), against the transaction-level reference     *)
(* (sim/model.py).                                                         *)
(*                                                                         *)
(* A byte is the set of its 1 bits and a word the set of its 1 bits, least *)
(* significant first, so ^ is symmetric difference and >> lowers exponents.*)
(* The code has 8-bit bytes and 16-byte words.                             *)
(***************************************************************************)
EXTENDS Integers, Sequences, SequencesExt

CONSTANTS ByteBits, WordBytes, ReductionLow,
          XOR128, MUL128, SET128, NONZERO, CLEAR, STATUS,  \* Command
          StatusBytes,                                     \* STATUS
          ErrorByte,                                       \* 0xE0
          HostBytes,    \* bound: the payload bytes a host sends
          None                                             \* no command yet

WordBits == ByteBits * WordBytes
Byte == SUBSET (0..(ByteBits - 1))
Commands == {XOR128, MUL128, SET128, NONZERO, CLEAR, STATUS}

\* What the constants must satisfy.
AluAssumption ==
    /\ ByteBits \in Nat /\ ByteBits > 1
    /\ WordBytes \in Nat \ {0}
    /\ ReductionLow \subseteq 0..(WordBits - 1)
    /\ Commands \subseteq Byte
    /\ StatusBytes \in Seq(Byte) /\ StatusBytes # <<>> /\ ErrorByte \in Byte
    /\ HostBytes \subseteq Byte
    /\ \A byte \in Byte : byte # None

VARIABLES state, byte_index, scratch_byte, fault,  \* StreamALUCycleModel
          a_shift, acc,                            \* BitstreamMultiplier
          record,     \* the CycleRecord of the last edge
          txn         \* history: the command in progress and its beats

mulVars == <<a_shift, acc>>
vars == <<state, byte_index, scratch_byte, fault, a_shift, acc, record, txn>>
-----------------------------------------------------------------------------
(* sim/model.py *)

Xor(left, right) == (left \ right) \cup (right \ left)
ShiftRight(word, n) == {i - n : i \in {j \in word : j >= n}}
ShiftLeft(word, n) == {i + n : i \in word}

mul_by_x(value) ==
    Xor(ShiftLeft(value \ {WordBits - 1}, 1),
        IF WordBits - 1 \in value THEN ReductionLow ELSE {})

\* Shift-and-add, least significant bit of b first.
gf_mul_bitserial(a, b) ==
    LET partial[i \in 0..WordBits] ==
          IF i = 0 THEN [acc |-> {}, shifted |-> a]
          ELSE LET p == partial[i - 1]
               IN  [acc |-> IF i - 1 \in b THEN Xor(p.acc, p.shifted) ELSE p.acc,
                    shifted |-> mul_by_x(p.shifted)]
    IN  partial[WordBits].acc

\* Carry-less product, then reduction from the highest degree down.
gf_mul_polynomial(a, b) ==
    LET product == FoldLeft(LAMBDA p, i : IF i \in b THEN Xor(p, ShiftLeft(a, i)) ELSE p,
                            {}, [i \in 1..WordBits |-> i - 1])
        Reduce(p, degree) ==
          IF degree \in p
          THEN Xor(p, ShiftLeft(ReductionLow \cup {WordBits}, degree - WordBits)) ELSE p
    IN  FoldLeft(Reduce, product, [n \in 1..(WordBits - 1) |-> 2 * WordBits - 1 - n])
        \cap 0..(WordBits - 1)

le_bytes_to_int(bytes) ==
    UNION {ShiftLeft(bytes[i], ByteBits * (i - 1)) : i \in DOMAIN bytes}
int_to_le_bytes(word) ==
    [i \in 1..WordBytes |-> ShiftRight(word, ByteBits * (i - 1)) \cap 0..(ByteBits - 1)]

Flag(condition) == IF condition THEN {0} ELSE {}

\* CommandResult of StreamALUModel.execute: output, payload beats, bit steps.
Result(output, beats, steps) == [output |-> output, beats |-> beats, steps |-> steps]
execute(command, payload) ==
    CASE command = XOR128 -> Result([i \in 1..WordBytes |->
                                       Xor(payload[2 * i - 1], payload[2 * i])],
                                    2 * WordBytes, 0)
      [] command = MUL128 -> Result(int_to_le_bytes(gf_mul_bitserial(
                                       le_bytes_to_int(SubSeq(payload, 1, WordBytes)),
                                       le_bytes_to_int(SubSeq(payload, WordBytes + 1,
                                                              2 * WordBytes)))),
                                    2 * WordBytes, WordBits)
      [] command = SET128 -> Result(SubSeq(payload, 1, WordBytes), WordBytes, 0)
      [] command = NONZERO -> Result(<<Flag(\E i \in 1..WordBytes : payload[i] # {})>>,
                                     WordBytes, 0)
      [] command = STATUS -> Result(StatusBytes, 0, 0)
      [] command = CLEAR -> Result(<<>>, 0, 0)
      [] OTHER -> Result(<<ErrorByte>>, 0, 0)
-----------------------------------------------------------------------------
(* combinational(): what the pins show before the edge. rx is the offered   *)
(* byte, or None when rx_valid is low.                                      *)

LastByte == byte_index = WordBytes - 1
mul_tail_last == ShiftRight(scratch_byte, 1) = {0}

\* States whose output is a function of the byte now on the input.
Forwarding == \/ state \in {"XOR_B", "SET_STREAM"}
              \/ state = "ZERO_STREAM" /\ LastByte
Registered == state \in {"MUL_TX", "STATUS_TX", "ERROR_TX"}

rx_ready(tx_ready) ==
    \/ state \in {"IDLE", "XOR_A", "MUL_A_RX", "MUL_B_RX"}
    \/ state = "ZERO_STREAM" /\ ~LastByte
    \/ Forwarding /\ tx_ready
tx_valid(rx) == Registered \/ (Forwarding /\ rx # None)
tx_data(rx) ==
    CASE state = "XOR_B" -> Xor(scratch_byte, rx)
      [] state = "SET_STREAM" -> rx
      [] state = "ZERO_STREAM" -> Flag(0 \in scratch_byte \/ rx # {})
      [] state = "MUL_TX" -> acc \cap 0..(ByteBits - 1)
      [] state = "STATUS_TX" -> StatusBytes[byte_index + 1]
      [] state = "ERROR_TX" -> ErrorByte

rx_fire(rx, tx_ready) == rx # None /\ rx_ready(tx_ready)
tx_fire(rx, tx_ready) == tx_valid(rx) /\ tx_ready

done_pulse(rx, tx_ready) ==
    \/ state = "IDLE" /\ rx = CLEAR
    \/ /\ tx_fire(rx, tx_ready)
       /\ \/ state \in {"XOR_B", "SET_STREAM", "ZERO_STREAM", "MUL_TX"} /\ LastByte
          \/ state = "STATUS_TX" /\ byte_index = Len(StatusBytes) - 1
          \/ state = "ERROR_TX"
-----------------------------------------------------------------------------
(* step(): one rising edge without abort, by state; the multiplier's tick   *)
(* is part of the edge that drives it.                                      *)

\* The branches of BitstreamMultiplier.tick.
TickA(a_byte, a_last) ==
    /\ a_shift' = ShiftRight(a_shift, ByteBits) \cup ShiftLeft(a_byte, WordBits - ByteBits)
    /\ acc' = IF a_last THEN {} ELSE acc
TickBit(bit_value, bit_last) ==
    /\ acc' = IF bit_value THEN Xor(acc, a_shift) ELSE acc
    /\ a_shift' = IF bit_last THEN a_shift ELSE mul_by_x(a_shift)
TickResult == acc' = ShiftRight(acc, ByteBits) /\ UNCHANGED a_shift
TickAbort == a_shift' = {} /\ acc' = {}

Advance(last, then, again) ==
    /\ byte_index' = IF last THEN byte_index ELSE byte_index + 1
    /\ state' = IF last THEN then ELSE again

\* Mutant: scratch_byte survives the command that used it.
IdleScratchKept == scratch_byte
IdleScratch == {}

IdleEdge(rx) ==
    /\ state = "IDLE"
    /\ byte_index' = 0 /\ scratch_byte' = IdleScratch
    /\ state' = CASE rx \in {None, CLEAR} -> "IDLE"
                  [] rx = XOR128 -> "XOR_A"
                  [] rx = MUL128 -> "MUL_A_RX"
                  [] rx = SET128 -> "SET_STREAM"
                  [] rx = NONZERO -> "ZERO_STREAM"
                  [] rx = STATUS -> "STATUS_TX"
                  [] OTHER -> "ERROR_TX"
    /\ fault' = (rx # CLEAR /\ (fault \/ rx \notin Commands \cup {None}))
    /\ UNCHANGED mulVars

StreamEdge(rx, tx_ready) ==
    /\ \/ /\ state = "XOR_A" /\ rx # None
          /\ scratch_byte' = rx /\ state' = "XOR_B" /\ UNCHANGED byte_index
       \/ /\ state = "XOR_B" /\ tx_fire(rx, tx_ready)
          /\ Advance(LastByte, "IDLE", "XOR_A") /\ UNCHANGED scratch_byte
       \/ /\ state = "SET_STREAM" /\ tx_fire(rx, tx_ready)
          /\ Advance(LastByte, "IDLE", "SET_STREAM") /\ UNCHANGED scratch_byte
       \/ /\ state = "ZERO_STREAM"
          /\ IF LastByte THEN tx_fire(rx, tx_ready) ELSE rx # None
          /\ scratch_byte' = IF LastByte THEN scratch_byte
                             ELSE Flag(0 \in scratch_byte \/ rx # {})
          /\ Advance(LastByte, "IDLE", "ZERO_STREAM")
    /\ UNCHANGED <<fault, a_shift, acc>>

WithSentinel(byte) == {ByteBits - 1} \cup ShiftRight(byte, 1)

MulInputEdge(rx) ==
    /\ rx # None
    /\ \/ /\ state = "MUL_A_RX"
          /\ TickA(rx, LastByte)
          /\ byte_index' = IF LastByte THEN 0 ELSE byte_index + 1
          /\ state' = IF LastByte THEN "MUL_B_RX" ELSE "MUL_A_RX"
          /\ UNCHANGED scratch_byte
       \/ /\ state = "MUL_B_RX"
          /\ TickBit(0 \in rx, FALSE)
          /\ scratch_byte' = WithSentinel(rx)
          /\ state' = "MUL_BITS" /\ UNCHANGED byte_index
    /\ UNCHANGED fault

BitLast == LastByte /\ mul_tail_last

MulBitsEdge ==
    /\ state = "MUL_BITS"
    /\ TickBit(0 \in scratch_byte, BitLast)
    /\ scratch_byte' = IF mul_tail_last THEN scratch_byte ELSE ShiftRight(scratch_byte, 1)
    /\ byte_index' = IF ~mul_tail_last THEN byte_index
                     ELSE IF LastByte THEN 0 ELSE byte_index + 1
    /\ state' = IF ~mul_tail_last THEN "MUL_BITS"
                ELSE IF LastByte THEN "MUL_TX" ELSE "MUL_B_RX"
    /\ UNCHANGED fault

ResponseEdge(tx_ready) ==
    /\ Registered /\ tx_ready
    /\ Advance(\/ state = "MUL_TX" /\ LastByte
               \/ state = "STATUS_TX" /\ byte_index = Len(StatusBytes) - 1
               \/ state = "ERROR_TX", "IDLE", state)
    /\ IF state = "MUL_TX" THEN TickResult ELSE UNCHANGED mulVars
    /\ UNCHANGED <<scratch_byte, fault>>

\* Mutant: the result is shifted whether or not the host takes its byte.
StalledEdgeShifts(rx, tx_ready) ==
    /\ state = "MUL_TX" /\ ~tx_ready /\ TickResult
    /\ UNCHANGED <<state, byte_index, scratch_byte, fault>>

\* No guard of step() holds: a stalled beat changes nothing.
StalledEdge(rx, tx_ready) ==
    /\ state \notin {"IDLE", "MUL_BITS"}
    /\ ~rx_fire(rx, tx_ready) /\ ~tx_fire(rx, tx_ready)
    /\ UNCHANGED <<state, byte_index, scratch_byte, fault, a_shift, acc>>

AbortEdge ==
    /\ state' = "IDLE" /\ byte_index' = 0 /\ scratch_byte' = {} /\ fault' = TRUE
    /\ TickAbort

\* reset_n low: ProtocolLane.step replaces the core by a fresh one.
ResetEdge ==
    /\ state' = "IDLE" /\ byte_index' = 0 /\ scratch_byte' = {} /\ fault' = FALSE
    /\ a_shift' = {} /\ acc' = {}
-----------------------------------------------------------------------------
(* ProtocolLane.step: the beats an edge commits, and the history of them.   *)

NoTxn == [command |-> None, rx |-> <<>>, tx |-> <<>>, steps |-> 0]

StepsCap == WordBits + 1   \* bound: the history counts no further

Commit(rx, tx_ready, discard) ==
    LET received == rx_fire(rx, tx_ready) /\ ~discard
        sent == tx_fire(rx, tx_ready) /\ ~discard
        opened == IF state = "IDLE" /\ received THEN [NoTxn EXCEPT !.command = rx] ELSE txn
    IN  /\ record' = [done |-> done_pulse(rx, tx_ready), discarded |-> discard,
                      rx_committed |-> received, tx_committed |-> sent]
        /\ txn' = IF discard THEN NoTxn
                  ELSE [opened EXCEPT
                          !.rx = IF received /\ state # "IDLE" THEN Append(@, rx) ELSE @,
                          !.tx = IF sent THEN Append(@, tx_data(rx)) ELSE @,
                          !.steps = IF /\ state = "MUL_BITS" \/ (received /\ state = "MUL_B_RX")
                                       /\ @ < StepsCap
                                    THEN @ + 1 ELSE @]

Edge(rx, tx_ready) ==
    /\ \/ IdleEdge(rx)
       \/ StreamEdge(rx, tx_ready)
       \/ MulInputEdge(rx)
       \/ MulBitsEdge
       \/ ResponseEdge(tx_ready)
       \/ StalledEdge(rx, tx_ready)
    /\ Commit(rx, tx_ready, FALSE)

Abort(rx, tx_ready) == AbortEdge /\ Commit(rx, tx_ready, TRUE)
Reset(rx, tx_ready) == ResetEdge /\ Commit(rx, tx_ready, TRUE)

Init ==
    /\ state = "IDLE" /\ byte_index = 0 /\ scratch_byte = {} /\ fault = FALSE
    /\ a_shift = {} /\ acc = {}
    /\ record = [done |-> FALSE, discarded |-> TRUE,
                 rx_committed |-> FALSE, tx_committed |-> FALSE]
    /\ txn = NoTxn

Offered == IF state = "IDLE" THEN Byte ELSE HostBytes

Next == \E rx \in Offered \cup {None}, tx_ready \in BOOLEAN :
            Edge(rx, tx_ready) \/ Abort(rx, tx_ready) \/ Reset(rx, tx_ready)

Spec == Init /\ [][Next]_vars
-----------------------------------------------------------------------------
(* Properties *)

\* Type correctness of the registers of StreamALUCycleModel.
TypeOK ==
    /\ state \in {"IDLE", "XOR_A", "XOR_B", "SET_STREAM", "ZERO_STREAM", "MUL_A_RX",
                  "MUL_B_RX", "MUL_BITS", "MUL_TX", "STATUS_TX", "ERROR_TX"}
    /\ byte_index \in 0..(IF state = "STATUS_TX" THEN Len(StatusBytes) - 1
                          ELSE IF state = "IDLE" THEN Len(StatusBytes) + WordBytes
                          ELSE WordBytes - 1)
    /\ scratch_byte \in Byte /\ fault \in BOOLEAN
    /\ a_shift \subseteq 0..(WordBits - 1) /\ acc \subseteq 0..(WordBits - 1)

Completed == txn.command # None /\ state = "IDLE"

\* Whatever was aborted, reset or executed before, and however its beats were
\* stalled, a command that completes has taken exactly the payload beats,
\* emitted exactly the bytes and spent exactly the multiplier steps that
\* StreamALUModel.execute states for it: no register of an earlier command
\* (scratch_byte, byte_index, a_shift, acc) reaches it.
CompletedMatchesReference ==
    Completed => LET result == execute(txn.command, txn.rx)
                 IN  /\ txn.tx = result.output
                     /\ Len(txn.rx) = result.beats
                     /\ txn.steps = result.steps

\* The bit-serial product that leaves the accumulator, with its sentinel-packed
\* B bits and its skipped last doubling, is the carry-less product reduced by
\* long division (gf_mul_polynomial, the independent definition).
ProductIsFieldProduct ==
    Completed /\ txn.command = MUL128 =>
        le_bytes_to_int(txn.tx) =
            gf_mul_polynomial(le_bytes_to_int(SubSeq(txn.rx, 1, WordBytes)),
                              le_bytes_to_int(SubSeq(txn.rx, WordBytes + 1, 2 * WordBytes)))

\* A done pulse that no abort or reset discards is raised at exactly the edge
\* whose committed beat returns the core to IDLE, for every command including
\* CLEAR and an unknown one: a host that counts pulses counts commands.
DoneMarksCompletion ==
    (record.done /\ ~record.discarded)
        <=> (state = "IDLE" /\ (record.rx_committed \/ record.tx_committed))

\* A registered response byte that the host has not taken is offered
\* unchanged at the next edge, unless an abort or a reset withdraws it.
StallStep ==
    Registered /\ ~record'.tx_committed /\ ~record'.discarded
        => Registered' /\ tx_data(None)' = tx_data(None)

\* Every completed command has the reference model's bytes, beats and product, and
\* done marks exactly its completion.
CommandsAreExact ==
    TypeOK /\ CompletedMatchesReference /\ ProductIsFieldProduct /\ DoneMarksCompletion
=============================================================================
