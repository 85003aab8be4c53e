-------------------------------- MODULE Lsc1u --------------------------------
(***************************************************************************)
(* The LSC-1u streamed arithmetic core: the RTL (src/lsc1u_core.sv, with   *)
(* gf2n_mul_bitstream.sv) and the pin model that the bring-up kit runs in  *)
(* its place (silicon_bringup/bringup.py, DryRunBackend), clocked by the   *)
(* same pins, and the arithmetic oracle (sim/lsc1u_model.py).              *)
(*                                                                         *)
(* Bytes and words are the sets of their 1 bits.  The code has 16 bytes of *)
(* 8 bits; the opcode byte is one of the byte values.                      *)
(***************************************************************************)
EXTENDS Integers, Sequences, SequencesExt

CONSTANTS ByteBits, WordBytes, ReductionLow,
          XOR, MUL, SET,   \* opcode bytes
          FaultByte,       \* 0xe0
          HostBytes        \* bound: the bytes a host sends

Width == ByteBits * WordBytes
Byte == SUBSET (0..(ByteBits - 1))

\* What the constants must satisfy.
Lsc1uAssumption ==
    /\ ByteBits \in Nat /\ ByteBits > 1 /\ WordBytes \in Nat \ {0}
    /\ ReductionLow \subseteq 0..(Width - 1) /\ {XOR, MUL, SET, FaultByte} \subseteq Byte
    /\ HostBytes \subseteq Byte

VARIABLES state, byte_index, saved_byte, out_byte, out_valid, fault_reg, done_reg,
          a_shift, accumulator   \* the RTL's registers
VARIABLES command, incoming, outgoing, responses_acked, response_total,
          mul_bits_remaining, pending_mul_result, mul_tx_bubble, fault, done  \* DryRunBackend
VARIABLES fed, got               \* history: bytes of this command taken and answered

mulVars == <<a_shift, accumulator>>
rtlVars == <<state, byte_index, saved_byte, out_byte, out_valid, fault_reg, done_reg, mulVars>>
modelVars == <<command, incoming, outgoing, responses_acked, response_total,
               mul_bits_remaining, pending_mul_result, mul_tx_bubble, fault, done>>
vars == <<rtlVars, modelVars, fed, got>>

None == <<>>
-----------------------------------------------------------------------------
(* Arithmetic *)

Xor(left, right) == (left \ right) \cup (right \ left)
Shift(word, n) == {i + n : i \in {j \in word : j + n >= 0}}

mul_by_x(word) ==
    Xor(Shift(word \ {Width - 1}, 1), IF Width - 1 \in word THEN ReductionLow ELSE {})

shift_in_byte(word, byte) == Shift(word, -ByteBits) \cup Shift(byte, Width - ByteBits)
LowByte(word) == word \cap (0..(ByteBits - 1))
Bytes(word) == [i \in 1..WordBytes |-> LowByte(Shift(word, -(ByteBits * (i - 1))))]
WordOf(bytes) == FoldLeft(shift_in_byte, {}, bytes)

gf128_mul(a, b) ==
    LET Bit(p, i) == [product |-> IF i \in b THEN Xor(p.product, p.x) ELSE p.product,
                      x |-> mul_by_x(p.x)]
    IN  FoldLeft(Bit, [product |-> {}, x |-> a], [i \in 1..Width |-> i - 1]).product

\* sim/lsc1u_model.py: the answer to a command and its whole payload.
execute(opcode, payload) ==
    IF opcode = SET THEN payload
    ELSE IF opcode = XOR
    THEN [i \in 1..WordBytes |-> Xor(payload[2 * i - 1], payload[2 * i])]
    ELSE Bytes(gf128_mul(WordOf(SubSeq(payload, 1, WordBytes)),
                         WordOf(SubSeq(payload, WordBytes + 1, 2 * WordBytes))))
-----------------------------------------------------------------------------
(* The RTL *)

Receiving == {"IDLE", "XOR_A", "XOR_B", "SET_RX", "MUL_A", "MUL_B"}

RtlPins(ena, rst_n) ==
    [rx_ready |-> ena /\ ~out_valid /\ state \in Receiving,
     tx_valid |-> ena /\ out_valid,
     tx_data |-> IF ena /\ out_valid THEN out_byte ELSE {},
     busy |-> ena /\ (state # "IDLE" \/ out_valid),
     fault |-> ena /\ fault_reg,
     done |-> ena /\ rst_n /\ done_reg]

RtlReset ==
    /\ state' = "IDLE" /\ byte_index' = 0 /\ saved_byte' = {} /\ out_byte' = {}
    /\ out_valid' = FALSE /\ fault_reg' = FALSE /\ done_reg' = FALSE
    /\ a_shift' = {} /\ accumulator' = {}

\* An output byte is offered with the next edge.
Offer(byte) == out_byte' = byte /\ out_valid' = TRUE

TailLast == saved_byte \ {0} = {1}

MulBit(bit, last) ==
    /\ accumulator' = IF bit THEN Xor(accumulator, a_shift) ELSE accumulator
    /\ a_shift' = IF last THEN a_shift ELSE mul_by_x(a_shift)

RtlReceive(byte) ==
    /\ done_reg' = FALSE
    /\ CASE state = "IDLE" ->
              /\ byte_index' = 0
              /\ IF byte \in {XOR, MUL, SET}
                 THEN /\ state' = CASE byte = XOR -> "XOR_A" [] byte = MUL -> "MUL_A"
                                    [] byte = SET -> "SET_RX"
                      /\ fault_reg' = FALSE /\ UNCHANGED <<out_byte, out_valid>>
                 ELSE Offer(FaultByte) /\ fault_reg' = TRUE /\ UNCHANGED state
              /\ UNCHANGED <<saved_byte, mulVars>>
         [] state = "XOR_A" ->
              /\ saved_byte' = byte /\ state' = "XOR_B"
              /\ UNCHANGED <<byte_index, out_byte, out_valid, fault_reg, mulVars>>
         [] state = "XOR_B" ->
              /\ Offer(Xor(saved_byte, byte)) /\ state' = "XOR_A"
              /\ UNCHANGED <<byte_index, saved_byte, fault_reg, mulVars>>
         [] state = "SET_RX" ->
              Offer(byte) /\ UNCHANGED <<state, byte_index, saved_byte, fault_reg, mulVars>>
         [] state = "MUL_A" ->
              /\ a_shift' = shift_in_byte(a_shift, byte)
              /\ IF byte_index = WordBytes - 1
                 THEN byte_index' = 0 /\ state' = "MUL_B" /\ accumulator' = {}
                 ELSE byte_index' = byte_index + 1 /\ UNCHANGED <<state, accumulator>>
              /\ UNCHANGED <<saved_byte, out_byte, out_valid, fault_reg>>
         [] state = "MUL_B" ->
              /\ saved_byte' = Shift(byte, -1) \cup {ByteBits - 1} /\ state' = "MUL_BITS"
              /\ MulBit(0 \in byte, FALSE)
              /\ UNCHANGED <<byte_index, out_byte, out_valid, fault_reg>>

RtlLast == byte_index = WordBytes - 1

RtlTransmit ==
    /\ out_valid' = FALSE
    /\ IF state = "IDLE"
       THEN done_reg' = TRUE /\ fault_reg' = FALSE /\ byte_index' = 0 /\ UNCHANGED state
       ELSE /\ done_reg' = RtlLast
            /\ IF RtlLast THEN byte_index' = 0 /\ state' = "IDLE"
               ELSE byte_index' = byte_index + 1 /\ UNCHANGED state
            /\ UNCHANGED fault_reg
    /\ UNCHANGED <<saved_byte, out_byte, mulVars>>

TxSlotFree == ~out_valid

\* An edge on which no byte moves: MUL_BITS and MUL_TX go on by themselves.
RtlRun ==
    /\ done_reg' = FALSE /\ UNCHANGED fault_reg
    /\ CASE state = "MUL_BITS" ->
              /\ MulBit(0 \in saved_byte, TailLast /\ byte_index = WordBytes - 1)
              /\ IF ~TailLast
                 THEN saved_byte' = Shift(saved_byte, -1) /\ UNCHANGED <<state, byte_index>>
                 ELSE /\ IF byte_index = WordBytes - 1
                         THEN byte_index' = 0 /\ state' = "MUL_TX"
                         ELSE byte_index' = byte_index + 1 /\ state' = "MUL_B"
                      /\ UNCHANGED saved_byte
              /\ UNCHANGED <<out_byte, out_valid>>
         [] state = "MUL_TX" /\ TxSlotFree ->
              /\ Offer(LowByte(accumulator)) /\ accumulator' = Shift(accumulator, -ByteBits)
              /\ UNCHANGED <<state, byte_index, saved_byte, a_shift>>
         [] OTHER ->
              /\ byte_index' = IF state = "IDLE" THEN 0 ELSE byte_index
              /\ UNCHANGED <<state, saved_byte, out_byte, out_valid, mulVars>>
-----------------------------------------------------------------------------
(* DryRunBackend *)

ModelPins(ena, rst_n) ==
    [rx_ready |-> /\ ena /\ outgoing = <<>> /\ mul_bits_remaining = 0
                  /\ pending_mul_result = None,
     tx_valid |-> ena /\ outgoing # <<>> /\ ~mul_tx_bubble,
     tx_data |-> IF ena /\ outgoing # <<>> /\ ~mul_tx_bubble THEN Head(outgoing) ELSE {},
     busy |-> ena /\ (command # None \/ outgoing # <<>>),
     fault |-> ena /\ fault,
     done |-> ena /\ rst_n /\ done]

reset_state ==
    /\ command' = None /\ incoming' = <<>> /\ outgoing' = <<>>
    /\ responses_acked' = 0 /\ response_total' = 0
    /\ mul_bits_remaining' = 0 /\ pending_mul_result' = None /\ mul_tx_bubble' = FALSE
    /\ fault' = FALSE /\ done' = FALSE

MulBitCycles == ByteBits - 1

ModelReceive(byte) ==
    /\ done' = FALSE /\ mul_tx_bubble' = FALSE
    /\ IF command = None
       THEN /\ command' = <<byte>> /\ incoming' = <<>> /\ responses_acked' = 0
            /\ IF byte \in {XOR, MUL, SET}
               THEN response_total' = 0 /\ UNCHANGED <<outgoing, fault>>
               ELSE outgoing' = <<FaultByte>> /\ fault' = TRUE /\ response_total' = 1
            /\ UNCHANGED <<mul_bits_remaining, pending_mul_result>>
       ELSE LET data == Append(incoming, byte)
                full == Len(data) = 2 * WordBytes
                Answers(bytes) == outgoing' = bytes /\ response_total' = WordBytes
            IN  /\ \/ /\ command = <<SET>> /\ Answers(<<byte>>) /\ incoming' = data
                      /\ UNCHANGED <<mul_bits_remaining, pending_mul_result>>
                   \/ /\ command = <<XOR>> /\ incoming' = data
                      /\ IF Len(data) % 2 = 0 THEN Answers(<<Xor(Last(incoming), byte)>>)
                         ELSE UNCHANGED <<outgoing, response_total>>
                      /\ UNCHANGED <<mul_bits_remaining, pending_mul_result>>
                   \/ /\ command = <<MUL>>
                      /\ mul_bits_remaining' = IF Len(data) > WordBytes THEN MulBitCycles ELSE 0
                      /\ incoming' = IF full THEN <<>> ELSE data
                      /\ pending_mul_result' = IF full THEN execute(MUL, data) ELSE None
                      /\ response_total' = IF full THEN WordBytes ELSE response_total
                      /\ UNCHANGED outgoing
                /\ UNCHANGED <<command, responses_acked, fault>>

ModelTransmit ==
    LET last == responses_acked + 1 = response_total
    IN  /\ outgoing' = Tail(outgoing) /\ responses_acked' = responses_acked + 1
        /\ done' = last /\ command' = IF last THEN None ELSE command
        /\ fault' = (~last /\ fault)
        /\ mul_tx_bubble' = (~last /\ command = <<MUL>>)
        /\ UNCHANGED <<incoming, response_total, mul_bits_remaining, pending_mul_result>>

ModelRun ==
    /\ done' = FALSE /\ mul_tx_bubble' = FALSE
    /\ mul_bits_remaining' = IF mul_bits_remaining > 0 THEN mul_bits_remaining - 1 ELSE 0
    /\ IF mul_bits_remaining = 0 /\ pending_mul_result # None
       THEN outgoing' = pending_mul_result /\ pending_mul_result' = None
       ELSE UNCHANGED <<outgoing, pending_mul_result>>
    /\ UNCHANGED <<command, incoming, responses_acked, response_total, fault>>
-----------------------------------------------------------------------------
(* One clock edge: each side follows its own pins.  The wrapper ignores uio[6].     *)

RtlEdge(in) ==
    IF ~in.rst_n \/ ~in.ena THEN RtlReset
    ELSE IF in.rx_valid /\ RtlPins(TRUE, TRUE).rx_ready THEN RtlReceive(in.data)
    ELSE IF in.tx_ready /\ out_valid THEN RtlTransmit
    ELSE RtlRun

cycle(in) ==
    IF ~in.rst_n \/ ~in.ena THEN reset_state
    ELSE IF in.rx_valid /\ ModelPins(TRUE, TRUE).rx_ready THEN ModelReceive(in.data)
    ELSE IF in.tx_ready /\ ModelPins(TRUE, TRUE).tx_valid THEN ModelTransmit
    ELSE ModelRun

History(in) ==
    LET pins == RtlPins(in.ena, in.rst_n)
    IN  IF ~in.rst_n \/ ~in.ena THEN fed' = <<>> /\ got' = <<>>
        ELSE IF in.rx_valid /\ pins.rx_ready
        THEN IF state = "IDLE" THEN fed' = <<in.data>> /\ got' = <<>>
             ELSE fed' = Append(fed, in.data) /\ UNCHANGED got
        ELSE IF in.tx_ready /\ pins.tx_valid THEN got' = Append(got, out_byte) /\ UNCHANGED fed
        ELSE UNCHANGED <<fed, got>>

Edge(in) == RtlEdge(in) /\ cycle(in) /\ History(in)

Init ==
    /\ state = "IDLE" /\ byte_index = 0 /\ saved_byte = {} /\ out_byte = {}
    /\ out_valid = FALSE /\ fault_reg = FALSE /\ done_reg = FALSE
    /\ a_shift = {} /\ accumulator = {}
    /\ command = None /\ incoming = <<>> /\ outgoing = <<>>
    /\ responses_acked = 0 /\ response_total = 0 /\ mul_bits_remaining = 0
    /\ pending_mul_result = None /\ mul_tx_bubble = FALSE /\ fault = FALSE /\ done = FALSE
    /\ fed = <<>> /\ got = <<>>

\* Any host: bytes offered or not, taken or not, deselected or reset at any edge.
Next == \E in \in [data : HostBytes, rx_valid : BOOLEAN, tx_ready : BOOLEAN,
                   ena : BOOLEAN, rst_n : BOOLEAN] : Edge(in)

Spec == Init /\ [][Next]_vars
-----------------------------------------------------------------------------
(* Properties *)

\* Type correctness.
TypeOK ==
    /\ state \in Receiving \cup {"MUL_BITS", "MUL_TX"} /\ byte_index \in 0..(WordBytes - 1)
    /\ {saved_byte, out_byte} \subseteq Byte /\ {a_shift, accumulator} \subseteq SUBSET (0..(Width - 1))
    /\ {out_valid, fault_reg, done_reg, mul_tx_bubble, fault, done} \subseteq BOOLEAN
    /\ Len(incoming) <= 2 * WordBytes /\ responses_acked \in 0..WordBytes

\* The pin model and the RTL show the host the same pins on every edge, timing of
\* the multiplier and of its output bubbles included, whatever the host does.
PinsAgree == \A ena, rst_n \in BOOLEAN : RtlPins(ena, rst_n) = ModelPins(ena, rst_n)

\* DONE rises exactly when the answer to a command is complete, and then the answer
\* is the oracle's, however the bytes were stalled and whatever command, completed,
\* refused or cut off by reset or deselection, came before.
DoneMeansAnswered ==
    done_reg => LET opcode == Head(fed)
                IN  IF opcode \in {XOR, MUL, SET}
                    THEN /\ Len(fed) = 1 + WordBytes * (IF opcode = SET THEN 1 ELSE 2)
                         /\ got = execute(opcode, Tail(fed))
                    ELSE got = <<FaultByte>> /\ Len(fed) = 1

\* A byte offered to the host stays, unchanged, until the host takes it, the core is
\* deselected or reset (the assertion of LSC1UPinDriver.receive).
OfferStep ==
    out_valid => \/ out_valid' /\ out_byte' = out_byte
                 \/ ~out_valid' /\ (got' = Append(got, out_byte) \/ got' = <<>>)
=============================================================================
