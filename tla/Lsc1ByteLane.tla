---------------------------- MODULE Lsc1ByteLane ----------------------------
(***************************************************************************)
(* The byte lane under the frames: the endpoint's framing                  *)
(* (sim/lsc1_transaction.py, Lsc1Endpoint.step and _accept) driven one     *)
(* byte per clock edge by the host's drive().                              *)
(*                                                                         *)
(* A request is SOF, header bytes of which the last is the payload length, *)
(* the payload and a checksum byte.  What a handler answers is one         *)
(* response of ResponseBytes bytes marked with its outcome.  Stall         *)
(* patterns are edges on which nothing moves.  Between the two ends the    *)
(* lane may damage one byte of an exchange.                                *)
(***************************************************************************)
EXTENDS Integers, Sequences

CONSTANTS Byte,           \* byte values
          SOF,            \* SOF_REQUEST
          HeaderBytes,    \* REQUEST_HEADER_BYTES
          MaxPayload,     \* MAX_PAYLOAD_BYTES
          ResponseBytes,
          Checksum(_),    \* crc32 of a frame body
          Frames          \* requests as RequestFrame.encode lays them out

ASSUME LaneAssumption ==
    /\ SOF \in Byte
    /\ Byte \subseteq Nat
    /\ HeaderBytes \in Nat /\ HeaderBytes > 1
    /\ MaxPayload \in Nat
    /\ ResponseBytes \in Nat \ {0}

CrcBytes == 1

\* The checksum at the end is that of the rest.
IsIntact(bytes) ==
    bytes[Len(bytes)] = Checksum(SubSeq(bytes, 1, Len(bytes) - CrcBytes))

ASSUME FramesAssumption ==
    \A request \in Frames :
        /\ request \in Seq(Byte)
        /\ Len(request) > HeaderBytes
        /\ request[1] = SOF
        /\ request[HeaderBytes] <= MaxPayload
        /\ Len(request) = HeaderBytes + request[HeaderBytes] + CrcBytes
        /\ IsIntact(request)

\* What crc32 gives for one changed byte behind the header.
ASSUME ChecksumAssumption ==
    \A request \in Frames, other \in Byte :
        \A i \in (HeaderBytes + 1)..Len(request) :
            other # request[i] => ~IsIntact([request EXCEPT ![i] = other])

VARIABLES rx,         \* _rx: the frame being received
          expected,   \* _expected: its length once the header is in, or 0
          tx,         \* _tx: response bytes outstanding
          frame,      \* drive: the request of this exchange, or <<>>
          sent,       \* drive: bytes of it committed
          response,   \* drive: bytes collected
          damaged,    \* position of the byte the lane changed, or 0
          aligned,    \* the exchange began at a frame boundary
          dispatched  \* frames with a good checksum handled in this exchange

endpointVars == <<rx, expected, tx>>
driveVars    == <<frame, sent, response, damaged, aligned, dispatched>>
laneVars     == <<endpointVars, driveVars>>

Respond(outcome) == [i \in 1..ResponseBytes |-> outcome]

\* Mutant: the lane is not ready while it is busy receiving.
RxReadyIdle == tx = <<>> /\ rx = <<>>

\* rx_ready of pins(): the lane is half duplex.
RxReady == tx = <<>>

-----------------------------------------------------------------------------
(* The endpoint: _accept, one byte                                         *)

\* Outside a frame only SOF is taken; anything else is answered.
AcceptFirst(byte) ==
    /\ rx = <<>>
    /\ IF byte = SOF
       THEN rx' = <<byte>> /\ expected' = 0 /\ UNCHANGED tx
       ELSE tx' = Respond("BAD_SOF") /\ UNCHANGED <<rx, expected>>
    /\ UNCHANGED dispatched

\* The last header byte carries the payload length.
AcceptHeader(byte) ==
    /\ rx # <<>> /\ Len(rx) + 1 = HeaderBytes
    /\ IF byte > MaxPayload
       THEN tx' = Respond("BAD_LENGTH") /\ rx' = <<>> /\ UNCHANGED expected
       ELSE /\ rx' = Append(rx, byte)
            /\ expected' = HeaderBytes + byte + CrcBytes
            /\ UNCHANGED tx
    /\ UNCHANGED dispatched

AcceptBody(byte) ==
    /\ rx # <<>> /\ Len(rx) + 1 # HeaderBytes
    /\ Len(rx) + 1 # expected
    /\ rx' = Append(rx, byte)
    /\ UNCHANGED <<expected, tx, dispatched>>

\* Mutant: the checksum is not compared.
AcceptLastUnchecked(byte) ==
    LET bytes == Append(rx, byte)
    IN  /\ rx # <<>> /\ Len(bytes) # HeaderBytes
        /\ Len(bytes) = expected
        /\ rx' = <<>>
        /\ expected' = 0
        /\ tx' = Respond("handled")
        /\ dispatched' = Append(dispatched, bytes)

\* The frame is complete: _dispatch checks its CRC and answers it.
AcceptLast(byte) ==
    LET bytes == Append(rx, byte)
    IN  /\ rx # <<>> /\ Len(bytes) # HeaderBytes
        /\ Len(bytes) = expected
        /\ rx' = <<>>
        /\ expected' = 0
        /\ IF IsIntact(bytes)
           THEN tx' = Respond("handled") /\ dispatched' = Append(dispatched, bytes)
           ELSE tx' = Respond("BAD_CRC") /\ UNCHANGED dispatched

Accept(byte) ==
    AcceptFirst(byte) \/ AcceptHeader(byte) \/ AcceptBody(byte) \/ AcceptLast(byte)

-----------------------------------------------------------------------------
(* The host: drive()                                                       *)

Driving == frame # <<>>

StartExchange(request) ==
    /\ ~Driving
    /\ frame' = request
    /\ sent' = 0
    /\ response' = <<>>
    /\ damaged' = 0
    /\ aligned' = (rx = <<>>)
    /\ dispatched' = <<>>
    /\ UNCHANGED endpointVars

\* One edge with RX_VALID: the next byte, or what the lane made of it.
SendByte ==
    /\ Driving /\ sent < Len(frame) /\ RxReady
    /\ sent' = sent + 1
    /\ \E byte \in Byte :
          /\ byte # frame[sent + 1] => damaged = 0
          /\ damaged' = IF byte # frame[sent + 1] THEN sent + 1 ELSE damaged
          /\ Accept(byte)
    /\ UNCHANGED <<frame, response, aligned>>

TakeByte ==
    /\ Driving /\ tx # <<>>
    /\ response' = Append(response, Head(tx))
    /\ tx' = Tail(tx)
    /\ UNCHANGED <<rx, expected, frame, sent, damaged, aligned, dispatched>>

EndExchange ==
    /\ frame' = <<>>
    /\ sent' = 0
    /\ response' = <<>>
    /\ damaged' = 0
    /\ aligned' = FALSE
    /\ dispatched' = <<>>

\* drive() returns: everything sent, something received, nothing outstanding.
MayReturn == Driving /\ sent = Len(frame) /\ response # <<>> /\ tx = <<>>

ReturnResponse == MayReturn /\ EndExchange /\ UNCHANGED endpointVars

\* max_cycles: the endpoint waits for bytes the host will not send.
GiveUp ==
    /\ Driving /\ sent = Len(frame) /\ response = <<>> /\ tx = <<>>
    /\ EndExchange
    /\ UNCHANGED endpointVars

\* ABORT or reset_n on any edge, during an exchange (which the caller leaves)
\* or between two.
AbortPin ==
    /\ rx' = <<>> /\ tx' = <<>> /\ expected' = 0
    /\ EndExchange

LaneInit ==
    /\ rx = <<>> /\ expected = 0 /\ tx = <<>>
    /\ frame = <<>> /\ sent = 0 /\ response = <<>>
    /\ damaged = 0 /\ aligned = FALSE /\ dispatched = <<>>

DriveStep == SendByte \/ TakeByte \/ ReturnResponse \/ GiveUp

LaneNext ==
    \/ \E request \in Frames : StartExchange(request)
    \/ DriveStep
    \/ AbortPin

LaneSpec == LaneInit /\ [][LaneNext]_laneVars

\* drive() is a loop that the caller runs to its end: it takes every edge.
FairLaneSpec == LaneSpec /\ WF_laneVars(DriveStep)

-----------------------------------------------------------------------------
(* Properties                                                              *)

\* The receive buffer is a prefix of one frame and never longer than the
\* longest; its length is known exactly once the header is in, and a byte
\* short of it nothing is answered (_rx and _expected in _accept).
FramingState ==
    /\ rx # <<>> => rx[1] = SOF
    /\ IF Len(rx) < HeaderBytes THEN expected = 0
       ELSE /\ expected = HeaderBytes + rx[HeaderBytes] + CrcBytes
            /\ rx[HeaderBytes] <= MaxPayload
            /\ Len(rx) < expected

\* Half duplex: while a response is outstanding no frame is half received, so
\* the byte after a response always begins a frame (pins, _accept).
HalfDuplex == tx # <<>> => rx = <<>>

\* An undamaged exchange that began at a frame boundary hands the endpoint
\* exactly the frame the host sent, once, and collects exactly its response,
\* whatever exchanges, damage or aborts came before.
CleanExchange ==
    (MayReturn /\ aligned /\ damaged = 0) =>
        dispatched = <<frame>> /\ response = Respond("handled")

\* Damage behind the header never reaches a handler: it is answered BAD_CRC
\* and leaves the lane at a frame boundary.
DamageIsDetected ==
    (MayReturn /\ aligned /\ damaged > HeaderBytes) =>
        dispatched = <<>> /\ response = Respond("BAD_CRC") /\ rx = <<>>

\* A host that waits in vain (GiveUp) has sent a damaged frame or began
\* inside an older one: a clean exchange never runs into max_cycles.
OnlyDamageStalls ==
    (Driving /\ sent = Len(frame) /\ response = <<>> /\ tx = <<>>) =>
        ~aligned \/ damaged \in 1..HeaderBytes

\* What an exchange is worth: framing, half duplex, and what damage may do.
ExchangeIsSound ==
    FramingState /\ HalfDuplex /\ CleanExchange /\ DamageIsDetected /\ OnlyDamageStalls

\* Every exchange ends: neither side can be left waiting for the other to
\* move its byte first, however the frame was damaged.
ExchangeEnds == Driving ~> ~Driving

\* docs/LSC1_TRANSACTION_PROTOCOL.md, 15.3: when the length is too small,
\* "the trailing bytes are not a frame and are rejected as they arrive".
TrailingBytesRejected ==
    (/\ MayReturn /\ aligned
     /\ damaged = HeaderBytes
     /\ response[1] = "BAD_CRC") => rx = <<>>
=============================================================================
