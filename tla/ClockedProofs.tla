---------------------------- MODULE ClockedProofs ----------------------------
(***************************************************************************)
(* Proofs about the models that take one action per clock edge, each for   *)
(* every value of its constants:                                           *)
(*  - the byte lane (Lsc1ByteLane), for every set of frames, frame length  *)
(*    and response length;                                                 *)
(*  - the M2 scalar controller (M2Controller) against the scalar oracle,   *)
(*    for every field that FieldIsAField admits, memory and program;       *)
(*  - the UART bridge (UartBridge), for every pair of byte times, number   *)
(*    of operands and number of aborts.                                    *)
(***************************************************************************)
EXTENDS Lsc1ByteLane, M2Controller, UartBridge, Lsc1TransitionProofs, SequenceTheorems

-----------------------------------------------------------------------------
(* The byte lane                                                            *)

Outcome == {"handled", "BAD_SOF", "BAD_LENGTH", "BAD_CRC"}

LaneTypes ==
    /\ rx \in Seq(Byte)
    /\ expected \in Nat
    /\ tx \in Seq(Outcome)
    /\ frame \in Frames \cup {<<>>}
    /\ sent \in Nat
    /\ response \in Seq(Outcome)
    /\ damaged \in Nat
    /\ aligned \in BOOLEAN
    /\ dispatched \in Seq(Seq(Byte))

Framing == LaneTypes /\ FramingState /\ HalfDuplex

\* The exchange began at a frame boundary and its header arrived as sent.
Followed == Driving /\ aligned /\ (damaged = 0 \/ damaged > HeaderBytes)

\* While bytes remain to be sent, the receive buffer holds those sent so far,
\* one of them changed if the lane damaged it, and nothing was answered.
Sending ==
    /\ sent < Len(frame)
    /\ Len(rx) = sent
    /\ damaged <= sent
    /\ \A i \in 1..sent : (rx[i] # frame[i]) <=> (i = damaged)
    /\ tx = <<>> /\ response = <<>> /\ dispatched = <<>>

\* Afterwards the frame was dispatched, or refused if damaged, and its
\* response is split between the two ends.
Answer == IF damaged = 0 THEN "handled" ELSE "BAD_CRC"

Answered ==
    /\ sent = Len(frame)
    /\ rx = <<>>
    /\ dispatched = IF damaged = 0 THEN <<frame>> ELSE <<>>
    /\ Len(response) + Len(tx) = ResponseBytes
    /\ \A i \in 1..Len(response) : response[i] = Answer
    /\ \A i \in 1..Len(tx) : tx[i] = Answer

LaneInv ==
    /\ Framing
    /\ ~Driving => tx = <<>>
    /\ Followed => Sending \/ Answered

-----------------------------------------------------------------------------
\* A response has ResponseBytes bytes, all with the outcome.
LEMMA ResponseShape ==
    ASSUME NEW outcome \in Outcome
    PROVE  /\ Respond(outcome) \in Seq(Outcome)
           /\ Len(Respond(outcome)) = ResponseBytes
           /\ Respond(outcome) # <<>>
           /\ \A i \in 1..ResponseBytes : Respond(outcome)[i] = outcome
<1>1. ResponseBytes \in Nat /\ ResponseBytes > 0
  BY LaneAssumption
<1>2. Respond(outcome) \in [1..ResponseBytes -> Outcome]
  BY DEF Respond
<1>3. Respond(outcome) \in Seq(Outcome) /\ Len(Respond(outcome)) = ResponseBytes
  BY <1>1, <1>2
<1>4. \A i \in 1..ResponseBytes : Respond(outcome)[i] = outcome
  BY <1>1 DEF Respond
<1>5. Respond(outcome) # <<>>
  BY <1>1, <1>3, EmptySeq
<1> QED
  BY <1>3, <1>4, <1>5

\* An empty receive buffer with no length is a framing state.
LEMMA EmptyFraming ==
    /\ (rx = <<>> /\ expected = 0) => FramingState
    /\ (rx' = <<>> /\ expected' = 0) => FramingState'
<1>1. Len(<<>>) = 0 /\ 0 < HeaderBytes
  BY LaneAssumption
<1> QED
  BY <1>1 DEF FramingState

\* The framing facts hold before the first edge.
LEMMA InitFraming == LaneInit => Framing
<1> SUFFICES ASSUME LaneInit PROVE Framing
  OBVIOUS
<1>1. /\ <<>> \in Seq(Byte) /\ <<>> \in Seq(Outcome) /\ <<>> \in Seq(Seq(Byte))
  OBVIOUS
<1>2. aligned \in BOOLEAN
  BY Zenon DEF LaneInit
<1>3. LaneTypes
  BY <1>1, <1>2 DEF LaneInit, LaneTypes
<1>4. FramingState
  BY EmptyFraming DEF LaneInit
<1> QED
  BY <1>3, <1>4 DEF LaneInit, Framing, HalfDuplex

\* Taking one byte keeps the receive buffer a prefix of one frame.
LEMMA AcceptFraming ==
    ASSUME Framing, tx = <<>>, NEW byte \in Byte, Accept(byte)
    PROVE  /\ rx' \in Seq(Byte) /\ expected' \in Nat /\ tx' \in Seq(Outcome)
           /\ dispatched' \in Seq(Seq(Byte))
           /\ FramingState' /\ HalfDuplex'
<1> USE LaneAssumption DEF Framing, LaneTypes
<1>b. byte \in Nat
  OBVIOUS
<1>o. \A o \in Outcome : Respond(o) \in Seq(Outcome)
  BY ResponseShape
<1>1. CASE AcceptFirst(byte) /\ byte = SOF
  <2>1. rx' = <<SOF>> /\ expected' = 0 /\ tx' = tx /\ dispatched' = dispatched
    BY <1>1 DEF AcceptFirst
  <2>2. rx' \in Seq(Byte) /\ Len(rx') = 1 /\ rx'[1] = SOF
    BY <2>1
  <2> QED
    BY <2>1, <2>2 DEF FramingState, HalfDuplex
<1>2. CASE AcceptFirst(byte) /\ byte # SOF
  <2>1. rx' = rx /\ rx = <<>> /\ expected' = expected /\ tx' = Respond("BAD_SOF")
        /\ dispatched' = dispatched
    BY <1>2 DEF AcceptFirst
  <2> QED
    BY <2>1, <1>o DEF FramingState, HalfDuplex, Outcome
<1>3. CASE AcceptHeader(byte) /\ byte > MaxPayload
  <2>0. rx # <<>> /\ Len(rx) + 1 = HeaderBytes /\ rx' = <<>> /\ expected' = expected
        /\ tx' = Respond("BAD_LENGTH") /\ dispatched' = dispatched
    BY <1>3 DEF AcceptHeader
  <2>1. expected = 0
    BY <2>0 DEF FramingState
  <2> QED
    BY <2>0, <2>1, <1>o DEF FramingState, HalfDuplex, Outcome
<1>4. CASE AcceptHeader(byte) /\ ~(byte > MaxPayload)
  <2>0. rx # <<>> /\ Len(rx) + 1 = HeaderBytes /\ rx' = Append(rx, byte)
        /\ expected' = HeaderBytes + byte + CrcBytes /\ tx' = tx
        /\ dispatched' = dispatched
    BY <1>4 DEF AcceptHeader
  <2>1. /\ rx' \in Seq(Byte) /\ Len(rx') = HeaderBytes
        /\ rx'[HeaderBytes] = byte /\ rx'[1] = rx[1]
    BY <2>0, <1>b
  <2>2. rx[1] = SOF
    BY <2>0 DEF FramingState
  <2> QED
    BY <2>0, <2>1, <2>2, <1>b, <1>4 DEF FramingState, HalfDuplex, CrcBytes
<1>5. CASE AcceptBody(byte)
  <2>0. rx # <<>> /\ Len(rx) + 1 # HeaderBytes /\ Len(rx) + 1 # expected
        /\ rx' = Append(rx, byte) /\ expected' = expected /\ tx' = tx
        /\ dispatched' = dispatched
    BY <1>5 DEF AcceptBody
  <2>1. /\ rx' \in Seq(Byte) /\ Len(rx') = Len(rx) + 1 /\ Len(rx) \in Nat
        /\ \A i \in 1..Len(rx) : rx'[i] = rx[i]
    BY <2>0
  <2>2. rx[1] = SOF /\ Len(rx) >= 1
    BY <2>0 DEF FramingState
  <2> QED
    BY <2>0, <2>1, <2>2 DEF FramingState, HalfDuplex, CrcBytes
<1>6. CASE AcceptLast(byte)
  <2>1. rx' = <<>> /\ expected' = 0
    BY <1>6 DEF AcceptLast
  <2>2. Append(rx, byte) \in Seq(Byte)
    OBVIOUS
  <2>3. Append(dispatched, Append(rx, byte)) \in Seq(Seq(Byte))
    BY <2>2
  <2>4. /\ tx' = Respond("handled") \/ tx' = Respond("BAD_CRC")
        /\ \/ dispatched' = dispatched
           \/ dispatched' = Append(dispatched, Append(rx, byte))
    BY <1>6 DEF AcceptLast
  <2>7. dispatched' \in Seq(Seq(Byte))
    BY <2>3, <2>4
  <2>5. tx' \in Seq(Outcome)
    BY <2>4, <1>o DEF Outcome
  <2>6. FramingState' /\ HalfDuplex'
    BY <2>1, EmptyFraming DEF HalfDuplex
  <2> QED
    BY <2>1, <2>5, <2>6, <2>7
<1> QED
  BY <1>1, <1>2, <1>3, <1>4, <1>5, <1>6 DEF Accept

\* The framing facts are kept by every edge.
LEMMA NextFraming == Framing /\ [LaneNext]_laneVars => Framing'
<1> SUFFICES ASSUME Framing, [LaneNext]_laneVars PROVE Framing'
  OBVIOUS
<1> USE LaneAssumption
<1>1. ASSUME NEW request \in Frames, StartExchange(request) PROVE Framing'
  BY <1>1 DEF StartExchange, endpointVars, Framing, LaneTypes, FramingState, HalfDuplex
<1>2. CASE SendByte
  <2>1. PICK byte \in Byte : Accept(byte) /\ damaged' \in {damaged, sent + 1}
    BY <1>2 DEF SendByte
  <2>2. tx = <<>> /\ sent' = sent + 1 /\ UNCHANGED <<frame, response, aligned>>
    BY <1>2 DEF SendByte, RxReady
  <2>3. damaged' \in Nat /\ sent' \in Nat
    BY <2>1, <2>2 DEF Framing, LaneTypes
  <2> QED
    BY <2>1, <2>2, <2>3, AcceptFraming DEF Framing, LaneTypes
<1>3. CASE TakeByte
  <2>1. tx # <<>> /\ tx' = Tail(tx) /\ response' = Append(response, Head(tx))
        /\ UNCHANGED <<rx, expected, frame, sent, damaged, aligned, dispatched>>
    BY <1>3 DEF TakeByte
  <2>2. tx' \in Seq(Outcome) /\ response' \in Seq(Outcome) /\ rx = <<>>
    BY <2>1 DEF Framing, LaneTypes, HalfDuplex
  <2> QED
    BY <2>1, <2>2 DEF Framing, LaneTypes, FramingState, HalfDuplex
<1>4. CASE ReturnResponse \/ GiveUp
  <2>1. EndExchange /\ UNCHANGED endpointVars
    BY <1>4 DEF ReturnResponse, GiveUp
  <2>2. aligned' \in BOOLEAN
    BY <2>1, Zenon DEF EndExchange
  <2> QED
    BY <2>1, <2>2 DEF EndExchange, endpointVars, Framing, LaneTypes, FramingState,
                      HalfDuplex
<1>5. CASE AbortPin
  <2>1. EndExchange /\ rx' = <<>> /\ tx' = <<>> /\ expected' = 0
    BY <1>5 DEF AbortPin
  <2>2. aligned' \in BOOLEAN
    BY <2>1, Zenon DEF EndExchange
  <2>3. LaneTypes'
    BY <2>1, <2>2 DEF EndExchange, LaneTypes
  <2> QED
    BY <2>1, <2>3, EmptyFraming DEF Framing, HalfDuplex
<1>6. CASE UNCHANGED laneVars
  BY <1>6 DEF laneVars, endpointVars, driveVars, Framing, LaneTypes, FramingState,
              HalfDuplex
<1> QED
  BY <1>1, <1>2, <1>3, <1>4, <1>5, <1>6 DEF LaneNext, DriveStep

\* The receive buffer is always a proper prefix of one frame whose length is
\* known exactly once its header is in (_rx and _expected in _accept).
THEOREM FramingHolds == LaneSpec => []FramingState
<1>1. LaneSpec => []Framing
  BY InitFraming, NextFraming, PTL DEF LaneSpec
<1>2. Framing => FramingState
  BY DEF Framing
<1> QED
  BY <1>1, <1>2, PTL

\* While a response is outstanding no frame is half received (pins, _accept).
THEOREM HalfDuplexHolds == LaneSpec => []HalfDuplex
<1>1. LaneSpec => []Framing
  BY InitFraming, NextFraming, PTL DEF LaneSpec
<1>2. Framing => HalfDuplex
  BY DEF Framing
<1> QED
  BY <1>1, <1>2, PTL

-----------------------------------------------------------------------------
\* A frame received as sent is intact; one with one byte changed behind the
\* header is not.
LEMMA ReceivedBytes ==
    ASSUME NEW request \in Frames, NEW bytes \in Seq(Byte), NEW d \in Nat,
           Len(bytes) = Len(request),
           \A i \in 1..Len(request) : (bytes[i] # request[i]) <=> (i = d),
           d = 0 \/ (d > HeaderBytes /\ d <= Len(request))
    PROVE  IF d = 0 THEN bytes = request /\ IsIntact(bytes) ELSE ~IsIntact(bytes)
<1> USE LaneAssumption
<1>1. request \in Seq(Byte) /\ IsIntact(request)
  BY FramesAssumption
<1>2. CASE d = 0
  <2>1. \A i \in 1..Len(bytes) : bytes[i] = request[i]
    BY <1>1, <1>2
  <2>2. bytes = request
    BY <1>1, <2>1, SeqEqual
  <2> QED
    BY <1>1, <1>2, <2>2
<1>3. CASE d # 0
  <2>1. d \in (HeaderBytes + 1)..Len(request) /\ d \in 1..Len(request)
    BY <1>1, <1>3
  <2>2. bytes[d] \in Byte /\ bytes[d] # request[d]
    BY <1>1, <2>1, ElementOfSeq
  <2> DEFINE changed == [request EXCEPT ![d] = bytes[d]]
  <2>3. /\ changed \in Seq(Byte)
        /\ Len(changed) = Len(request)
        /\ \A j \in 1..Len(request) : changed[j] = IF j = d THEN bytes[d] ELSE request[j]
    BY <1>1, <2>1, <2>2, ExceptSeq
  <2>4. \A j \in 1..Len(bytes) : bytes[j] = changed[j]
    BY <2>3
  <2>5. bytes = changed
    BY <2>3, <2>4, SeqEqual
  <2>6. ~IsIntact(changed)
    BY <2>1, <2>2, ChecksumAssumption
  <2> QED
    BY <1>3, <2>5, <2>6
<1> QED
  BY <1>2, <1>3

\* While an aligned exchange is sending, the endpoint has received as many
\* bytes as were sent, and the next one keeps it so or completes the frame.
LEMMA SendInv ==
    ASSUME LaneInv, SendByte, Followed' PROVE Sending' \/ Answered'
<1> USE LaneAssumption
<1> DEFINE bytes(b) == Append(rx, b)
<1>1. PICK byte \in Byte :
        /\ byte # frame[sent + 1] => damaged = 0
        /\ damaged' = IF byte # frame[sent + 1] THEN sent + 1 ELSE damaged
        /\ Accept(byte)
  BY DEF SendByte
<1>2. /\ sent < Len(frame) /\ tx = <<>> /\ sent' = sent + 1
      /\ frame' = frame /\ response' = response /\ aligned' = aligned
  BY DEF SendByte, RxReady
<1>3. /\ rx \in Seq(Byte) /\ sent \in Nat /\ damaged \in Nat /\ FramingState
      /\ frame \in Frames \cup {<<>>} /\ expected \in Nat
  BY DEF LaneInv, Framing, LaneTypes
<1>4. Driving /\ aligned /\ (damaged' = 0 \/ damaged' > HeaderBytes)
  BY <1>2 DEF Followed, Driving
<1>5. /\ frame \in Frames /\ frame \in Seq(Byte) /\ Len(frame) \in Nat
      /\ Len(frame) > HeaderBytes /\ frame[1] = SOF
      /\ frame[HeaderBytes] <= MaxPayload /\ frame[HeaderBytes] \in Nat
      /\ Len(frame) = HeaderBytes + frame[HeaderBytes] + 1
  <2>1. frame \in Frames
    BY <1>3, <1>4 DEF Driving
  <2>2. /\ frame \in Seq(Byte) /\ Len(frame) > HeaderBytes /\ frame[1] = SOF
        /\ frame[HeaderBytes] <= MaxPayload
        /\ Len(frame) = HeaderBytes + frame[HeaderBytes] + 1
    BY <2>1, FramesAssumption DEF CrcBytes
  <2>3. Len(frame) \in Nat
    BY <2>2, LenProperties
  <2>4. HeaderBytes \in 1..Len(frame)
    BY <2>2, <2>3
  <2>5. frame[HeaderBytes] \in Byte
    BY <2>2, <2>4, ElementOfSeq
  <2> QED
    BY <2>1, <2>2, <2>3, <2>5
<1>6. Followed
  BY <1>1, <1>3, <1>4 DEF Followed
<1>7. Sending
  BY <1>2, <1>6 DEF LaneInv, Answered
<1>8. /\ Len(rx) = sent /\ damaged <= sent
      /\ \A i \in 1..sent : (rx[i] # frame[i]) <=> (i = damaged)
      /\ response = <<>> /\ dispatched = <<>>
  BY <1>7 DEF Sending
<1>9. /\ bytes(byte) \in Seq(Byte) /\ Len(bytes(byte)) = sent + 1
      /\ \A i \in 1..sent : bytes(byte)[i] = rx[i]
      /\ bytes(byte)[sent + 1] = byte
  BY <1>3, <1>8, AppendProperties
<1>10. damaged' \in Nat /\ damaged' <= sent + 1
  BY <1>1, <1>3, <1>8
<1>11. \A i \in 1..(sent + 1) : (bytes(byte)[i] # frame[i]) <=> (i = damaged')
  <2> SUFFICES ASSUME NEW i \in 1..(sent + 1)
               PROVE  (bytes(byte)[i] # frame[i]) <=> (i = damaged')
    OBVIOUS
  <2>1. CASE i = sent + 1
    BY <2>1, <1>1, <1>3, <1>8, <1>9
  <2>2. CASE i # sent + 1
    <3>1. i \in 1..sent
      BY <2>2, <1>3
    <3>2. (bytes(byte)[i] # frame[i]) <=> (i = damaged)
      BY <3>1, <1>8, <1>9
    <3>3. (i = damaged) <=> (i = damaged')
      BY <3>1, <1>1, <1>3
    <3> QED
      BY <3>2, <3>3, Zenon
  <2> QED
    BY <2>1, <2>2
\* Bytes of the header arrive as sent.
<1>12. sent + 1 <= HeaderBytes => byte = frame[sent + 1]
  BY <1>1, <1>3, <1>4
<1>13. Len(rx) >= HeaderBytes => expected = Len(frame)
  <2>1. SUFFICES ASSUME Len(rx) >= HeaderBytes PROVE expected = Len(frame)
    OBVIOUS
  <2>2. HeaderBytes \in 1..sent /\ HeaderBytes # damaged
    BY <2>1, <1>3, <1>6, <1>8 DEF Followed
  <2>3. rx[HeaderBytes] = frame[HeaderBytes]
    BY <2>2, <1>8
  <2> QED
    BY <2>1, <2>3, <1>3, <1>5, <1>8 DEF FramingState, CrcBytes
<1>14. ASSUME rx' = bytes(byte), sent + 1 < Len(frame), tx' = tx, dispatched' = dispatched
       PROVE  Sending'
  BY <1>14, <1>2, <1>8, <1>9, <1>10, <1>11 DEF Sending
<1>15. CASE AcceptFirst(byte)
  <2>1. rx = <<>> /\ sent = 0
    BY <1>15, <1>8 DEF AcceptFirst
  <2>2. byte = SOF
    BY <2>1, <1>5, <1>12
  <2>3. rx' = <<byte>> /\ tx' = tx /\ dispatched' = dispatched
    BY <2>2, <1>15 DEF AcceptFirst
  <2>4. rx' = bytes(byte)
    BY <2>1, <2>3
  <2> QED
    BY <1>14, <2>1, <2>3, <2>4, <1>5
<1>16. CASE AcceptHeader(byte)
  <2>1. sent + 1 = HeaderBytes
    BY <1>16, <1>8 DEF AcceptHeader
  <2>2. ~(byte > MaxPayload)
    BY <2>1, <1>5, <1>12
  <2>3. rx' = bytes(byte) /\ tx' = tx /\ dispatched' = dispatched
    BY <2>2, <1>16 DEF AcceptHeader
  <2> QED
    BY <1>14, <2>1, <2>3, <1>5
<1>17. CASE AcceptBody(byte)
  <2>1. /\ Len(rx) + 1 # HeaderBytes /\ Len(rx) + 1 # expected
        /\ rx' = bytes(byte) /\ tx' = tx /\ dispatched' = dispatched
    BY <1>17 DEF AcceptBody
  <2>2. sent + 1 # Len(frame)
    BY <2>1, <1>3, <1>5, <1>8, <1>13
  <2>3. sent + 1 < Len(frame)
    BY <2>2, <1>2, <1>3, <1>5
  <2> QED
    BY <1>14, <2>1, <2>3
<1>18. CASE AcceptLast(byte)
  <2>1. /\ Len(bytes(byte)) = expected /\ rx' = <<>>
        /\ IF IsIntact(bytes(byte))
           THEN tx' = Respond("handled") /\ dispatched' = Append(dispatched, bytes(byte))
           ELSE tx' = Respond("BAD_CRC") /\ dispatched' = dispatched
    BY <1>18 DEF AcceptLast
  <2>2. Len(rx) >= HeaderBytes
    BY <2>1, <1>3, <1>8, <1>9 DEF FramingState
  <2>3. sent + 1 = Len(frame)
    BY <2>1, <2>2, <1>9, <1>13
  <2>4. IF damaged' = 0 THEN bytes(byte) = frame /\ IsIntact(bytes(byte))
        ELSE ~IsIntact(bytes(byte))
    <3>1. \A i \in 1..Len(frame) : (bytes(byte)[i] # frame[i]) <=> (i = damaged')
      BY <2>3, <1>11
    <3>2. damaged' = 0 \/ (damaged' > HeaderBytes /\ damaged' <= Len(frame))
      BY <2>3, <1>4, <1>10
    <3>3. Len(bytes(byte)) = Len(frame)
      BY <2>3, <1>9
    <3> HIDE DEF bytes
    <3> QED
      BY <3>1, <3>2, <3>3, <1>5, <1>9, <1>10, ReceivedBytes
  <2>5. /\ tx' = Respond(Answer')
        /\ dispatched' = IF damaged' = 0 THEN <<frame>> ELSE <<>>
    <3>1. CASE damaged' = 0
      <4>1. tx' = Respond("handled") /\ dispatched' = Append(dispatched, frame)
        BY <3>1, <2>1, <2>4
      <4>2. dispatched' = <<frame>>
        BY <4>1, <1>8
      <4> QED
        BY <3>1, <4>1, <4>2 DEF Answer
    <3>2. CASE damaged' # 0
      BY <3>2, <2>1, <2>4, <1>8 DEF Answer
    <3> QED
      BY <3>1, <3>2
  <2>6. Answer' \in Outcome
    BY DEF Answer, Outcome
  <2>7. /\ Len(tx') = ResponseBytes /\ tx' \in Seq(Outcome)
        /\ \A i \in 1..ResponseBytes : tx'[i] = Answer'
    BY <2>5, <2>6, ResponseShape
  <2>8. response' = <<>> /\ Len(response') = 0
    BY <1>2, <1>8
  <2> QED
    BY <2>1, <2>3, <2>5, <2>7, <2>8, <1>2 DEF Answered
<1> QED
  BY <1>1, <1>15, <1>16, <1>17, <1>18 DEF Accept

\* A collected byte moves from the endpoint's end to the host's.
LEMMA TakeInv ==
    ASSUME LaneInv, TakeByte, Followed' PROVE Sending' \/ Answered'
<1>1. /\ Driving /\ tx # <<>> /\ tx' = Tail(tx) /\ response' = Append(response, Head(tx))
      /\ UNCHANGED <<rx, expected, frame, sent, damaged, aligned, dispatched>>
  BY DEF TakeByte
<1>2. Followed
  BY <1>1 DEF Followed, Driving
<1>3. Answered
  BY <1>1, <1>2 DEF LaneInv, Sending
<1>4. tx \in Seq(Outcome) /\ response \in Seq(Outcome) /\ Len(tx) \in Nat /\ Len(response) \in Nat
  BY DEF LaneInv, Framing, LaneTypes
<1>5. Len(tx) > 0
  BY <1>1, <1>4, EmptySeq
<1>6. Head(tx) = Answer /\ Head(tx) \in Outcome
  BY <1>3, <1>4, <1>5 DEF Answered
<1>7. /\ Len(tx') = Len(tx) - 1
      /\ \A i \in 1..Len(tx') : tx'[i] = tx[i + 1]
  BY <1>1, <1>4, HeadTailProperties
<1>8. /\ Len(response') = Len(response) + 1
      /\ \A i \in 1..Len(response) : response'[i] = response[i]
      /\ response'[Len(response) + 1] = Head(tx)
  BY <1>1, <1>4, <1>6, AppendProperties
<1>9. Answer' = Answer
  BY <1>1 DEF Answer
<1>10. \A i \in 1..Len(tx') : tx'[i] = Answer'
  <2> SUFFICES ASSUME NEW i \in 1..Len(tx') PROVE tx'[i] = Answer'
    OBVIOUS
  <2>1. i + 1 \in 1..Len(tx)
    BY <1>4, <1>7
  <2>2. tx[i + 1] = Answer
    BY <2>1, <1>3 DEF Answered
  <2> QED
    BY <2>2, <1>7, <1>9
<1>11. \A i \in 1..Len(response') : response'[i] = Answer'
  <2> SUFFICES ASSUME NEW i \in 1..Len(response') PROVE response'[i] = Answer'
    OBVIOUS
  <2>1. CASE i = Len(response) + 1
    BY <2>1, <1>6, <1>8, <1>9
  <2>2. CASE i # Len(response) + 1
    <3>1. i \in 1..Len(response)
      BY <2>2, <1>4, <1>8
    <3>2. response[i] = Answer
      BY <3>1, <1>3 DEF Answered
    <3> QED
      BY <3>1, <3>2, <1>8, <1>9
  <2> QED
    BY <2>1, <2>2
<1>12. Len(response') + Len(tx') = ResponseBytes
  BY <1>3, <1>4, <1>7, <1>8 DEF Answered
<1>13. /\ sent' = Len(frame') /\ rx' = <<>>
       /\ dispatched' = IF damaged' = 0 THEN <<frame'>> ELSE <<>>
  BY <1>1, <1>3 DEF Answered
<1> QED
  BY <1>10, <1>11, <1>12, <1>13 DEF Answered

\* The invariant of an exchange is inductive.
LEMMA NextLaneInv == LaneInv /\ [LaneNext]_laneVars => LaneInv'
<1> SUFFICES ASSUME LaneInv, [LaneNext]_laneVars PROVE LaneInv'
  OBVIOUS
<1>0. Framing'
  BY NextFraming DEF LaneInv
<1> SUFFICES /\ (~Driving)' => tx' = <<>>
             /\ Followed' => Sending' \/ Answered'
  BY <1>0 DEF LaneInv
<1>1. ASSUME NEW request \in Frames, StartExchange(request)
      PROVE  tx' = <<>> /\ (Followed' => Sending')
  <2>1. /\ tx' = <<>> /\ rx' = rx /\ frame' = request /\ sent' = 0 /\ response' = <<>>
        /\ damaged' = 0 /\ dispatched' = <<>> /\ aligned' = (rx = <<>>)
    BY <1>1 DEF StartExchange, endpointVars, LaneInv
  <2>2. Len(request) > 0
    <3>1. request \in Seq(Byte) /\ Len(request) > HeaderBytes
      BY FramesAssumption
    <3> QED
      BY <3>1, LaneAssumption
  <2>3. Followed' => rx' = <<>>
    BY <2>1, Zenon DEF Followed
  <2>4. rx' = <<>> => Len(rx') = 0
    OBVIOUS
  <2> QED
    BY <2>1, <2>2, <2>3, <2>4 DEF Sending
<1>2. CASE SendByte
  <2>1. Driving'
    BY <1>2 DEF SendByte, Driving
  <2> QED
    BY <1>2, <2>1, SendInv
<1>3. CASE TakeByte
  <2>1. Driving'
    BY <1>3 DEF TakeByte, Driving
  <2> QED
    BY <1>3, <2>1, TakeInv
<1>4. CASE ReturnResponse \/ GiveUp \/ AbortPin
  <2>1. frame' = <<>> /\ tx' = <<>>
    BY <1>4 DEF ReturnResponse, GiveUp, AbortPin, EndExchange, MayReturn, endpointVars
  <2> QED
    BY <2>1 DEF Followed, Driving
<1>5. CASE UNCHANGED laneVars
  <2>1. /\ rx' = rx /\ tx' = tx /\ frame' = frame /\ sent' = sent
        /\ response' = response /\ damaged' = damaged /\ aligned' = aligned
        /\ dispatched' = dispatched
    BY <1>5 DEF laneVars, endpointVars, driveVars
  <2> QED
    BY <2>1 DEF LaneInv, Followed, Driving, Sending, Answered, Answer
<1> QED
  BY <1>1, <1>2, <1>3, <1>4, <1>5 DEF LaneNext, DriveStep

\* The invariant holds of every behaviour of the lane.
LEMMA LaneInvariance == LaneSpec => []LaneInv
<1>1. LaneInit => LaneInv
  BY InitFraming DEF LaneInit, LaneInv, Followed, Driving
<1> QED
  BY <1>1, NextLaneInv, PTL DEF LaneSpec

\* Where drive() returns from an exchange that began at a frame boundary and
\* whose header was not damaged, the whole answer has been collected.
LEMMA ReturnedAnswer ==
    ASSUME LaneInv, MayReturn, Followed
    PROVE  /\ rx = <<>>
           /\ dispatched = IF damaged = 0 THEN <<frame>> ELSE <<>>
           /\ response = Respond(Answer)
<1>1. Answered /\ tx = <<>> /\ Len(tx) = 0
  BY DEF LaneInv, MayReturn, Sending
<1>2. Answer \in Outcome
  BY DEF Answer, Outcome
<1>3. response \in Seq(Outcome) /\ Len(response) \in Nat
  BY LenProperties DEF LaneInv, Framing, LaneTypes
<1>4. Len(response) = ResponseBytes
  BY <1>1, <1>3 DEF Answered
<1>5. \A i \in 1..Len(response) : response[i] = Respond(Answer)[i]
  BY <1>1, <1>2, <1>4, ResponseShape DEF Answered
<1>6. Respond(Answer) \in Seq(Outcome) /\ Len(Respond(Answer)) = ResponseBytes
  BY <1>2, ResponseShape
<1>7. response = Respond(Answer)
  <2> HIDE DEF Answer
  <2> QED
    BY <1>3, <1>4, <1>5, <1>6, SeqEqual
<1> QED
  BY <1>1, <1>7 DEF Answered

\* An undamaged exchange from a frame boundary hands over exactly the frame
\* sent and collects exactly its response (drive, _accept, _dispatch), for
\* every frame and whatever came before.
THEOREM CleanExchangeHolds == LaneSpec => []CleanExchange
<1>1. LaneInv => CleanExchange
  <2> SUFFICES ASSUME LaneInv, MayReturn, aligned, damaged = 0
               PROVE  dispatched = <<frame>> /\ response = Respond("handled")
    BY DEF CleanExchange
  <2>1. Followed
    BY DEF Followed, MayReturn
  <2> QED
    BY <2>1, ReturnedAnswer DEF Answer
<1> QED
  BY <1>1, LaneInvariance, PTL

\* Damage behind the header is answered BAD_CRC, reaches no handler and
\* leaves the lane at a frame boundary (_dispatch, the CRC check).
THEOREM DamageIsDetectedHolds == LaneSpec => []DamageIsDetected
<1>1. LaneInv => DamageIsDetected
  <2> SUFFICES ASSUME LaneInv, MayReturn, aligned, damaged > HeaderBytes
               PROVE  dispatched = <<>> /\ response = Respond("BAD_CRC") /\ rx = <<>>
    BY DEF DamageIsDetected
  <2>1. Followed
    BY DEF Followed, MayReturn
  <2>2. damaged # 0
    BY LaneAssumption DEF LaneInv, Framing, LaneTypes
  <2> QED
    BY <2>1, <2>2, ReturnedAnswer DEF Answer
<1> QED
  BY <1>1, LaneInvariance, PTL

\* drive() runs into max_cycles only when the header was damaged or the
\* exchange began inside an older frame.
THEOREM OnlyDamageStallsHolds == LaneSpec => []OnlyDamageStalls
<1>1. LaneInv => OnlyDamageStalls
  <2> SUFFICES ASSUME LaneInv, Driving, sent = Len(frame), response = <<>>, tx = <<>>,
                      aligned, ~(damaged \in 1..HeaderBytes)
               PROVE  FALSE
    BY Zenon DEF OnlyDamageStalls
  <2>1. damaged \in Nat
    BY DEF LaneInv, Framing, LaneTypes
  <2>2. Followed
    BY <2>1, LaneAssumption DEF Followed
  <2>3. Answered \/ Sending
    BY <2>2 DEF LaneInv
  <2>4. ~Sending
    <3>1. Len(frame) \in Nat
      BY DEF LaneInv, Framing, LaneTypes
    <3> QED
      BY <3>1 DEF Sending
  <2>5. Len(response) = 0 /\ Len(tx) = 0
    OBVIOUS
  <2> QED
    BY <2>3, <2>4, <2>5, LaneAssumption DEF Answered
<1> QED
  BY <1>1, LaneInvariance, PTL

\* The byte lane's safety in one statement: framing (_accept), half duplex (pins), and
\* what drive() returns after a clean, a damaged and a stalled exchange.
THEOREM ExchangeIsSoundHolds == LaneSpec => []ExchangeIsSound
<1>1. (FramingState /\ HalfDuplex /\ CleanExchange /\ DamageIsDetected /\ OnlyDamageStalls)
        => ExchangeIsSound
  BY DEF ExchangeIsSound
<1>2. QED
  BY <1>1, FramingHolds, HalfDuplexHolds, CleanExchangeHolds, DamageIsDetectedHolds,
     OnlyDamageStallsHolds, PTL

-----------------------------------------------------------------------------
(* The M2 controller                                                        *)

(* The field and the memory *)

Slot == {Unwritten} \cup {Written(word) : word \in Word}
CellMemory == [CellAddress -> Slot]

\* The sizes that M2Assumption gives: memory, last address, last pc.
LEMMA ControllerSizes ==
  /\ MEM_WORDS \in Nat /\ MEM_WORDS > 0 /\ AddressMax = MEM_WORDS - 1
  /\ PcMax \in Nat /\ PcMax >= MEM_WORDS - 1 /\ 0 \in CellAddress
BY M2Assumption DEF CellAddress

\* The empty polynomial is a word.
LEMMA ZeroIsAWord == Zero \in Word
BY DEF Zero, Word

\* The oracle's product is a commutative ring's.
LEMMA MultiplyType ==
  ASSUME NEW left \in Word, NEW right \in Word
  PROVE  multiply(left, right) \in Word
BY OracleMultipliesAlike, MulType

\* The word that a back-solve of MUL fills in, times the known operand, is the result.
LEMMA BackSolve ==
  ASSUME NEW known \in Word \ {Zero}, NEW result \in Word
  PROVE  /\ inverse(known) \in Word
         /\ multiply(result, inverse(known)) \in Word
         /\ multiply(multiply(result, inverse(known)), known) = result
         /\ multiply(known, multiply(result, inverse(known))) = result
<1>1. inverse(known) \in Word /\ multiply(known, inverse(known)) = One
  BY FieldIsAField
<1>2. One \in Word
  BY FieldAssumption DEF One, Word
<1> DEFINE i == inverse(known)
<1> HIDE DEF i
<1>3. i \in Word /\ field_mul(known, i) = One
  BY <1>1, OracleMultipliesAlike DEF i
<1>4. field_mul(result, i) \in Word
  BY <1>3, MulType
<1>5. field_mul(i, known) = One
  BY <1>3, MultiplicationCommutes
<1>6. field_mul(field_mul(result, i), known) = field_mul(result, One)
  BY <1>3, <1>5, MulAssociates
<1>7. field_mul(result, One) = result
  BY <1>2, MulOne, MultiplicationCommutes
<1>8. field_mul(known, field_mul(result, i)) = result
  BY <1>4, <1>6, <1>7, MultiplicationCommutes
<1> QED
  BY <1>3, <1>4, <1>6, <1>7, <1>8, OracleMultipliesAlike DEF i

\* The word that a back-solve of XOR fills in, with the known operand, is the result.
LEMMA XorSolve ==
  ASSUME NEW known, NEW result
  PROVE  Xor(Xor(result, known), known) = result /\ Xor(known, Xor(result, known)) = result
BY DEF Xor

\* A cell is Unwritten or holds a word.
LEMMA SlotFacts ==
  ASSUME NEW cells \in CellMemory, NEW a \in CellAddress
  PROVE  /\ cells[a].value \in Word
         /\ cells[a].present => cells[a] = Written(cells[a].value)
         /\ ~cells[a].present => cells[a] = Unwritten
         /\ cells[a].present \in BOOLEAN
<1>1. cells[a] \in Slot
  BY DEF CellMemory
<1>2. CASE cells[a] = Unwritten
  BY <1>2, ZeroIsAWord DEF Unwritten
<1>3. CASE \E word \in Word : cells[a] = Written(word)
  BY <1>3 DEF Written
<1> QED
  BY <1>1, <1>2, <1>3 DEF Slot

\* What write_once writes: one cell, now present, and no other.
LEMMA WriteFacts ==
  ASSUME NEW cells \in CellMemory, NEW a \in CellAddress, NEW word \in Word
  PROVE  /\ write_once(cells, a, word) \in CellMemory
         /\ write_once(cells, a, word)[a] = Written(word)
         /\ \A b \in CellAddress : b # a => write_once(cells, a, word)[b] = cells[b]
         /\ Written(word).present /\ Written(word).value = word
BY DEF write_once, CellMemory, Slot, Written

\* Writing what is there writes nothing.
LEMMA WriteAgain ==
  ASSUME NEW cells \in CellMemory, NEW a \in CellAddress, NEW word, cells[a] = Written(word)
  PROVE  write_once(cells, a, word) = cells
BY DEF write_once, CellMemory

\* Cells that are written stay.
KeepsWritten(old, new) == \A a \in CellAddress : old[a].present => new[a] = old[a]

\* A write that the write-once rule allows loses nothing written.
LEMMA WriteKeeps ==
  ASSUME NEW cells \in CellMemory, NEW a \in CellAddress, NEW word \in Word,
         CanWrite(cells, a, word)
  PROVE  KeepsWritten(cells, write_once(cells, a, word))
<1> SUFFICES ASSUME NEW b \in CellAddress, cells[b].present
             PROVE  write_once(cells, a, word)[b] = cells[b]
  BY DEF KeepsWritten
<1>1. CASE b = a
  <2>1. cells[a] = Written(cells[a].value) /\ cells[a].value = word
    BY <1>1, SlotFacts DEF CanWrite
  <2> QED
    BY <1>1, <2>1, WriteFacts
<1>2. CASE b # a
  BY <1>2, WriteFacts
<1> QED
  BY <1>1, <1>2

-----------------------------------------------------------------------------
(* The oracle's step *)

\* An instruction by its kind: its operands, and the constant of SET.
LEMMA Operation ==
  ASSUME NEW op \in Operations
  PROVE  /\ op.kind \in {"Set", "Xor", "Mul", "Jump"} /\ op.kind # "Deref"
         /\ op.kind = "Set" => DOMAIN op.offsets = 1..1 /\ op.constant \in Word
         /\ op.kind # "Set" => DOMAIN op.offsets = 1..3
         /\ \A i \in DOMAIN op.offsets : op.offsets[i] \in Nat
<1>1. IsOperation(op)
  BY M2Assumption
<1>2. CASE op.kind = "Set"
  <2>1. op.offsets \in [1..1 -> Nat]
    BY <1>1, <1>2, Zenon DEF IsOperation
  <2> QED
    BY <1>1, <1>2, <2>1 DEF IsOperation
<1>3. CASE op.kind # "Set"
  <2>1. op.offsets \in [1..3 -> Nat]
    BY <1>1, <1>3, Zenon DEF IsOperation
  <2> QED
    BY <1>1, <1>3, <2>1 DEF IsOperation
<1> QED
  BY <1>2, <1>3

\* An operand that is not outside is a cell.
LEMMA AtType ==
  ASSUME NEW op \in Operations, TypeOK, ~Outside(op), NEW i \in DOMAIN op.offsets
  PROVE  At(op, i) \in CellAddress /\ fp + op.offsets[i] = At(op, i)
<1>1. fp \in Nat /\ op.offsets[i] \in Nat
  BY Operation, ControllerSizes DEF TypeOK, CellAddress
<1>2. ~(fp + op.offsets[i] >= MEM_WORDS)
  BY DEF Outside
<1> QED
  BY <1>1, <1>2, ControllerSizes DEF At, CellAddress

\* An operand outside the memory is one the oracle refuses (its address overflow).
LEMMA OutsideFaults ==
  ASSUME NEW op \in Operations, TypeOK, Outside(op)
  PROVE  step(op, memory, pc, fp) = Faulted
<1>1. PICK i \in DOMAIN op.offsets : fp + op.offsets[i] >= MEM_WORDS
  BY DEF Outside
<1>2. fp \in Nat /\ op.offsets[i] \in Nat /\ op.kind # "Deref"
  BY Operation, ControllerSizes DEF TypeOK, CellAddress
<1>3. fp + op.offsets[i] > AddressMax
  BY <1>1, <1>2, ControllerSizes
<1>4. i \in LocalOperands(op)
  BY <1>1, <1>2, Zenon DEF LocalOperands
<1> QED
  BY <1>3, <1>4, Zenon DEF step

\* With all operands inside, the oracle's step is the rule of the kind.
LEMMA InsideSteps ==
  ASSUME NEW op \in Operations, TypeOK, ~Outside(op)
  PROVE  /\ op.kind = "Set" =>
              step(op, memory, pc, fp) = StoreAndAdvance(memory, pc, fp, At(op, 1), op.constant)
         /\ op.kind \in {"Xor", "Mul"} =>
              step(op, memory, pc, fp)
                = StepBinary(memory, pc, fp, At(op, 1), At(op, 2), At(op, 3), op.kind = "Mul")
         /\ op.kind = "Jump" =>
              step(op, memory, pc, fp)
                = StepJump(memory, pc, fp, At(op, 1), At(op, 2), At(op, 3))
<1>1. LocalOperands(op) = DOMAIN op.offsets
  BY Operation, Zenon DEF LocalOperands
<1>2. \A i \in LocalOperands(op) : ~(fp + op.offsets[i] > AddressMax)
  <2>1. ASSUME NEW i \in DOMAIN op.offsets PROVE ~(fp + op.offsets[i] > AddressMax)
    <3>1. At(op, i) \in CellAddress /\ fp + op.offsets[i] = At(op, i)
      BY AtType
    <3> QED
      BY <3>1, ControllerSizes DEF CellAddress
  <2> QED
    BY <1>1, <2>1
<1>4. "Set" # "Xor" /\ "Set" # "Mul" /\ "Set" # "Jump" /\ "Xor" # "Mul" /\ "Xor" # "Jump" /\ "Mul" # "Jump"
      /\ "Deref" # "Jump" /\ "Deref" # "Set" /\ "Deref" # "Xor" /\ "Deref" # "Mul"
  OBVIOUS
<1>5. CASE op.kind = "Set"
  BY <1>2, <1>4, <1>5, Zenon DEF step, At
<1>6. CASE op.kind \in {"Xor", "Mul"}
  <2>1. op.kind # "Set"
    BY <1>6
  <2> QED
    BY <1>2, <1>6, <2>1, Zenon DEF step, At
<1>8. CASE op.kind = "Jump"
  <2>1. op.kind # "Set" /\ op.kind \notin {"Xor", "Mul"} /\ op.kind # "Deref"
    BY <1>8
  <2> QED
    BY <1>2, <2>1, Zenon DEF step, At
<1> QED
  BY <1>4, <1>5, <1>6, <1>8, Operation, Zenon

-----------------------------------------------------------------------------
(* XOR and MUL *)

KnownCell(op) == IF memory[At(op, 1)].present THEN At(op, 1) ELSE At(op, 2)
MissingCell(op) == IF memory[At(op, 1)].present THEN At(op, 2) ELSE At(op, 1)
FillsOne(op) == Fills(At(op, 1), At(op, 2), At(op, 3))

\* What the two operands give, and what the missing one must be.
Combined(op) ==
    IF op.kind = "Mul" THEN multiply(read(memory, At(op, 1)), read(memory, At(op, 2)))
    ELSE Xor(read(memory, At(op, 1)), read(memory, At(op, 2)))
Filler(op) ==
    IF op.kind = "Mul"
    THEN multiply(read(memory, At(op, 3)), inverse(read(memory, KnownCell(op))))
    ELSE Xor(read(memory, At(op, 3)), read(memory, KnownCell(op)))
Filled(op) == write_once(memory, MissingCell(op), Filler(op))

\* The suspension for the host's inverse.
Suspends(op) ==
    /\ state' = "INV" /\ retired' = FALSE
    /\ pending' = [missing |-> MissingCell(op), address |-> At(op, 3),
                   result |-> read(memory, At(op, 3)), operand |-> read(memory, KnownCell(op))]
    /\ UNCHANGED <<memory, pc, fp, fault>>

\* The ways IssueBinary can go.
LEMMA ControllerBinary ==
  ASSUME NEW op, IssueBinary(op), op.kind \in {"Xor", "Mul"}
  PROVE  \/ Outside(op) /\ ToFault
         \/ AtEnd /\ ToFault
         \/ /\ ~Outside(op) /\ ~AtEnd /\ ~FillsOne(op)
            /\ \/ ~CanWrite(memory, At(op, 3), Combined(op)) /\ ToFault
               \/ /\ CanWrite(memory, At(op, 3), Combined(op))
                  /\ Retire(write_once(memory, At(op, 3), Combined(op)), pc + 1, fp)
         \/ /\ ~Outside(op) /\ ~AtEnd /\ FillsOne(op) /\ op.kind = "Xor"
            /\ Retire(Filled(op), pc + 1, fp)
         \/ /\ ~Outside(op) /\ ~AtEnd /\ FillsOne(op) /\ op.kind = "Mul"
            /\ \/ read(memory, KnownCell(op)) = Zero /\ ToFault
               \/ read(memory, KnownCell(op)) # Zero /\ Suspends(op)
<1>1. op.kind = "Xor" <=> op.kind # "Mul"
  OBVIOUS
<1>2. CASE Outside(op) \/ AtEnd
  BY <1>2, Zenon DEF IssueBinary
<1>3. CASE ~(Outside(op) \/ AtEnd) /\ ~FillsOne(op)
  <2>1. Combined(op) = IF op.kind = "Xor" THEN Xor(read(memory, At(op, 1)), read(memory, At(op, 2)))
                       ELSE multiply(read(memory, At(op, 1)), read(memory, At(op, 2)))
    BY <1>1 DEF Combined
  <2> QED
    BY <1>3, <2>1, Zenon DEF IssueBinary, FillsOne
<1>4. CASE ~(Outside(op) \/ AtEnd) /\ FillsOne(op) /\ op.kind = "Xor"
  <2>1. Filler(op) = Xor(read(memory, At(op, 3)), read(memory, KnownCell(op)))
    BY <1>1, <1>4 DEF Filler
  <2> QED
    BY <1>4, <2>1, Zenon DEF IssueBinary, FillsOne, Filled, KnownCell, MissingCell
<1>5. CASE ~(Outside(op) \/ AtEnd) /\ FillsOne(op) /\ op.kind # "Xor"
  BY <1>1, <1>5, Zenon DEF IssueBinary, FillsOne, KnownCell, MissingCell, Divisor, Suspends
<1> QED
  BY <1>1, <1>2, <1>3, <1>4, <1>5, Zenon

\* The cells of a back-solve.
LEMMA BackSolveCells ==
  ASSUME NEW op \in Operations, TypeOK, ~Outside(op), op.kind \in {"Xor", "Mul"}
  PROVE  /\ \A i \in 1..3 : At(op, i) \in CellAddress
         /\ KnownCell(op) \in CellAddress /\ MissingCell(op) \in CellAddress
         /\ memory \in CellMemory
         /\ FillsOne(op) <=> BackSolves(memory, At(op, 1), At(op, 2), At(op, 3))
         /\ FillsOne(op) => /\ ~memory[MissingCell(op)].present /\ memory[KnownCell(op)].present
                              /\ memory[At(op, 3)].present
                              /\ MissingCell(op) # KnownCell(op) /\ MissingCell(op) # At(op, 3)
<1>1. DOMAIN op.offsets = 1..3
  BY Operation
<1>2. \A i \in 1..3 : At(op, i) \in CellAddress
  BY <1>1, AtType
<1>3. memory \in CellMemory
  BY DEF TypeOK, CellMemory, Slot
<1>4. KnownCell(op) \in {At(op, 1), At(op, 2)} /\ MissingCell(op) \in {At(op, 1), At(op, 2)}
  BY Zenon DEF KnownCell, MissingCell
<1>5. /\ FillsOne(op) <=> BackSolves(memory, At(op, 1), At(op, 2), At(op, 3))
      /\ FillsOne(op) => /\ memory[At(op, 3)].present
                         /\ memory[At(op, 1)].present <=> ~memory[At(op, 2)].present
  <2>1. \A i \in 1..3 : memory[At(op, i)].present \in BOOLEAN
    BY <1>2, <1>3, SlotFacts
  <2>2. memory[At(op, 1)].present \in BOOLEAN /\ memory[At(op, 2)].present \in BOOLEAN
    BY <2>1
  <2>3. ASSUME NEW p \in BOOLEAN, NEW q \in BOOLEAN
        PROVE  ((p # q) <=> ((~p) # (~q))) /\ ((p # q) => (p <=> ~q))
    <3>1. CASE p = TRUE
      BY <3>1, Zenon
    <3>2. CASE p = FALSE
      BY <3>2, Zenon
    <3> QED
      BY <3>1, <3>2
  <2> QED
    BY <2>2, <2>3, Zenon DEF FillsOne, Fills, BackSolves
<1>6. FillsOne(op) => ~memory[MissingCell(op)].present /\ memory[KnownCell(op)].present
  BY <1>5, Zenon DEF KnownCell, MissingCell
<1>7. FillsOne(op) => MissingCell(op) # KnownCell(op) /\ MissingCell(op) # At(op, 3)
  BY <1>5, <1>6, Zenon
<1> QED
  BY <1>2, <1>3, <1>4, <1>5, <1>6, <1>7

\* The oracle's way with the same operands: after a back-solve its store of the result
\* writes what is already there.
LEMMA OracleBinaryStep ==
  ASSUME NEW op \in Operations, TypeOK, ~Outside(op), op.kind \in {"Xor", "Mul"}
  PROVE  /\ ~FillsOne(op) =>
              step(op, memory, pc, fp) = StoreAndAdvance(memory, pc, fp, At(op, 3), Combined(op))
         /\ FillsOne(op) /\ op.kind = "Mul" /\ read(memory, KnownCell(op)) = Zero =>
              step(op, memory, pc, fp) = Faulted
         /\ FillsOne(op) /\ (op.kind = "Mul" => read(memory, KnownCell(op)) # Zero) =>
              /\ step(op, memory, pc, fp) = Stepped(Filled(op), pc + 1, fp)
              /\ Filler(op) \in Word
<1> DEFINE a == At(op, 1)
           b == At(op, 2)
           c == At(op, 3)
<1>1. step(op, memory, pc, fp) = OracleBinary(memory, pc, fp, a, b, c, op.kind)
  BY InsideSteps, Zenon DEF OracleBinary
<1>2. FillsOne(op) <=> BackSolves(memory, a, b, c)
  BY BackSolveCells
<1>3. /\ KnownCell(op) = IF ~memory[a].present THEN b ELSE a
      /\ MissingCell(op) = IF ~memory[a].present THEN a ELSE b
  BY Zenon DEF KnownCell, MissingCell
<1> DEFINE k == read(memory, KnownCell(op))
           r == read(memory, c)
           result == IF op.kind = "Mul" THEN multiply(read(Filled(op), a), read(Filled(op), b))
                     ELSE Xor(read(Filled(op), a), read(Filled(op), b))
<1>4. /\ k = memory[IF ~memory[a].present THEN b ELSE a].value
      /\ Filler(op) = IF op.kind = "Mul" THEN multiply(memory[c].value, inverse(k))
                      ELSE Xor(memory[c].value, k)
      /\ Combined(op) = IF op.kind = "Mul" THEN multiply(memory[a].value, memory[b].value)
                        ELSE Xor(memory[a].value, memory[b].value)
      /\ Filled(op) = write_once(memory, MissingCell(op), Filler(op))
      /\ result = IF op.kind = "Mul" THEN multiply(Filled(op)[a].value, Filled(op)[b].value)
                  ELSE Xor(Filled(op)[a].value, Filled(op)[b].value)
  BY <1>3, Zenon DEF Filler, Combined, Filled, read
<1>5. /\ ~BackSolves(memory, a, b, c) =>
             OracleBinary(memory, pc, fp, a, b, c, op.kind)
               = StoreAndAdvance(memory, pc, fp, c, Combined(op))
      /\ BackSolves(memory, a, b, c) /\ op.kind = "Mul" /\ k = Zero =>
             OracleBinary(memory, pc, fp, a, b, c, op.kind) = Faulted
      /\ BackSolves(memory, a, b, c) /\ (op.kind = "Mul" => k # Zero) =>
             OracleBinary(memory, pc, fp, a, b, c, op.kind)
               = StoreAndAdvance(Filled(op), pc, fp, c, result)
  <2>1. ASSUME NEW m, NEW n, NEW f, NEW d, NEW v, NEW e,
               m = (IF ~memory[a].present THEN a ELSE b),
               n = memory[IF ~memory[a].present THEN b ELSE a].value,
               f = (IF op.kind = "Mul" THEN multiply(memory[c].value, inverse(n))
                    ELSE Xor(memory[c].value, n)),
               d = write_once(memory, m, f),
               v = (IF op.kind = "Mul" THEN multiply(memory[a].value, memory[b].value)
                    ELSE Xor(memory[a].value, memory[b].value)),
               e = (IF op.kind = "Mul" THEN multiply(d[a].value, d[b].value)
                    ELSE Xor(d[a].value, d[b].value))
        PROVE  /\ ~BackSolves(memory, a, b, c) =>
                    OracleBinary(memory, pc, fp, a, b, c, op.kind)
                      = StoreAndAdvance(memory, pc, fp, c, v)
               /\ BackSolves(memory, a, b, c) /\ op.kind = "Mul" /\ n = Zero =>
                    OracleBinary(memory, pc, fp, a, b, c, op.kind) = Faulted
               /\ BackSolves(memory, a, b, c) /\ (op.kind = "Mul" => n # Zero) =>
                    OracleBinary(memory, pc, fp, a, b, c, op.kind)
                      = StoreAndAdvance(d, pc, fp, c, e)
    <3> HIDE DEF a, b, c
    <3> QED
      BY <2>1, OracleBinaryShape
  <2> HIDE DEF a, b, c, k, result
  <2> QED
    BY <1>3, <1>4, <2>1
<1>6. /\ ~FillsOne(op) =>
              step(op, memory, pc, fp) = StoreAndAdvance(memory, pc, fp, At(op, 3), Combined(op))
      /\ FillsOne(op) /\ op.kind = "Mul" /\ k = Zero => step(op, memory, pc, fp) = Faulted
      /\ FillsOne(op) /\ (op.kind = "Mul" => k # Zero) =>
         step(op, memory, pc, fp) = StoreAndAdvance(Filled(op), pc, fp, c, result)
  <2> HIDE DEF k, result
  <2> QED
    BY <1>1, <1>2, <1>5, Zenon
<1>7. ASSUME FillsOne(op), op.kind = "Mul" => read(memory, KnownCell(op)) # Zero
      PROVE  /\ step(op, memory, pc, fp) = Stepped(Filled(op), pc + 1, fp)
             /\ Filler(op) \in Word
  <2>0. /\ KnownCell(op) \in CellAddress /\ MissingCell(op) \in CellAddress /\ c \in CellAddress
        /\ memory \in CellMemory /\ memory[c].present
        /\ MissingCell(op) # KnownCell(op) /\ MissingCell(op) # c
    BY <1>7, BackSolveCells
  <2>1. k \in Word /\ r \in Word /\ memory[c] = Written(r)
    BY <2>0, SlotFacts DEF read
  <2>2. Filler(op) = IF op.kind = "Mul" THEN multiply(r, inverse(k)) ELSE Xor(r, k)
    BY Zenon DEF Filler
  <2> HIDE DEF k, r
  <2>3. Filler(op) \in Word
    BY <1>7, <2>1, <2>2, BackSolve, XorType DEF k
  <2>4. read(Filled(op), MissingCell(op)) = Filler(op) /\ read(Filled(op), KnownCell(op)) = k
        /\ Filled(op)[c] = Written(r) /\ Filled(op) \in CellMemory
    <3>1. /\ Filled(op) \in CellMemory
          /\ Filled(op)[MissingCell(op)] = Written(Filler(op))
          /\ \A cell \in CellAddress : cell # MissingCell(op) => Filled(op)[cell] = memory[cell]
          /\ Written(Filler(op)).value = Filler(op)
      BY <2>0, <2>3, WriteFacts DEF Filled
    <3>2. Filled(op)[KnownCell(op)] = memory[KnownCell(op)] /\ Filled(op)[c] = memory[c]
      BY <2>0, <3>1
    <3> QED
      BY <2>1, <3>1, <3>2, Zenon DEF read, k
  <2>5. result = r
    <3>1. CASE op.kind = "Mul"
      <4>1. /\ Filler(op) = multiply(r, inverse(k)) /\ k \in Word \ {Zero}
        BY <1>7, <2>1, <2>2, <3>1 DEF k
      <4>2. multiply(Filler(op), k) = r /\ multiply(k, Filler(op)) = r
        BY <2>1, <4>1, BackSolve
      <4> QED
        BY <1>3, <2>4, <3>1, <4>2, Zenon
    <3>2. CASE op.kind # "Mul"
      <4>1. Xor(Filler(op), k) = r /\ Xor(k, Filler(op)) = r
        BY <2>2, <3>2, XorSolve
      <4> QED
        BY <1>3, <2>4, <3>2, <4>1, Zenon
    <3> QED
      BY <3>1, <3>2
  <2>6. Written(r).value = r
    BY DEF Written
  <2>7. CanWrite(Filled(op), c, r)
    BY <2>4, <2>6, Zenon DEF CanWrite
  <2>8. write_once(Filled(op), c, r) = Filled(op)
    BY <2>0, <2>4, WriteAgain
  <2>9. step(op, memory, pc, fp) = StoreAndAdvance(Filled(op), pc, fp, c, result)
    BY <1>6, <1>7, Zenon DEF k
  <2> HIDE DEF result
  <2>10. step(op, memory, pc, fp) = StoreAndAdvance(Filled(op), pc, fp, c, r)
    BY <2>5, <2>9, Zenon
  <2> QED
    BY <2>3, <2>7, <2>8, <2>10, Zenon DEF StoreAndAdvance
<1> QED
  BY <1>6, <1>7, Zenon

-----------------------------------------------------------------------------
(* An instruction *)

\* The oracle refuses, or its pc is past the end.
Refuses(answer) == answer.ok => answer.pc > PcMax

\* The instruction is refused by both, done alike by both, or suspended.
Ends(cells, nextPc, nextFp, answer) ==
    /\ Retire(cells, nextPc, nextFp) /\ answer = Stepped(cells, nextPc, nextFp)
    /\ cells \in CellMemory /\ KeepsWritten(memory, cells)
    /\ nextPc \in 0..PcMax /\ nextFp \in CellAddress
Waits(op, answer) ==
    /\ Suspends(op) /\ answer = Stepped(Filled(op), pc + 1, fp) /\ pc < PcMax
    /\ op.kind = "Mul" /\ ~Outside(op) /\ FillsOne(op) /\ read(memory, KnownCell(op)) # Zero
Alike(op, answer) ==
    \/ ToFault /\ Refuses(answer)
    \/ \E cells, nextPc, nextFp : Ends(cells, nextPc, nextFp, answer)
    \/ Waits(op, answer)

\* A faulted step is a refusal.
LEMMA FaultedRefuses == Refuses(Faulted)
BY DEF Refuses, Faulted

\* At the last pc the oracle has no pc to go on to (checked_add).
LEMMA PastTheEnd ==
  ASSUME NEW cells, NEW nextFp, pc = PcMax
  PROVE  Refuses(Stepped(cells, pc + 1, nextFp))
BY ControllerSizes DEF Refuses, Stepped

\* A store of one word, as SET and a binary rule without a back-solve do it.
LEMMA StoreAlike ==
  ASSUME TypeOK, NEW op, NEW a \in CellAddress, NEW word \in Word,
         \/ AtEnd /\ ToFault
         \/ ~CanWrite(memory, a, word) /\ ToFault
         \/ /\ ~AtEnd /\ CanWrite(memory, a, word)
            /\ Retire(write_once(memory, a, word), pc + 1, fp)
  PROVE  Alike(op, StoreAndAdvance(memory, pc, fp, a, word))
<1>0. pc \in 0..PcMax /\ fp \in CellAddress /\ memory \in CellMemory /\ PcMax \in Nat
  BY ControllerSizes DEF TypeOK, CellMemory, Slot
<1>1. CASE AtEnd /\ ToFault
  <2>1. \/ StoreAndAdvance(memory, pc, fp, a, word) = Faulted
        \/ StoreAndAdvance(memory, pc, fp, a, word)
             = Stepped(write_once(memory, a, word), pc + 1, fp)
    BY Zenon DEF StoreAndAdvance
  <2>2. Refuses(StoreAndAdvance(memory, pc, fp, a, word))
    BY <1>1, <2>1, FaultedRefuses, PastTheEnd DEF AtEnd
  <2> QED
    BY <1>1, <2>2, Zenon DEF Alike
<1>2. CASE ~CanWrite(memory, a, word) /\ ToFault
  <2>1. StoreAndAdvance(memory, pc, fp, a, word) = Faulted
    BY <1>2, Zenon DEF StoreAndAdvance
  <2> QED
    BY <1>2, <2>1, FaultedRefuses, Zenon DEF Alike
<1>3. CASE /\ ~AtEnd /\ CanWrite(memory, a, word)
           /\ Retire(write_once(memory, a, word), pc + 1, fp)
  <2>1. StoreAndAdvance(memory, pc, fp, a, word) = Stepped(write_once(memory, a, word), pc + 1, fp)
    BY <1>3, Zenon DEF StoreAndAdvance
  <2>2. write_once(memory, a, word) \in CellMemory /\ KeepsWritten(memory, write_once(memory, a, word))
    BY <1>0, <1>3, WriteFacts, WriteKeeps
  <2>3. pc + 1 \in 0..PcMax
    BY <1>0, <1>3 DEF AtEnd
  <2>4. Ends(write_once(memory, a, word), pc + 1, fp, StoreAndAdvance(memory, pc, fp, a, word))
    BY <1>0, <1>3, <2>1, <2>2, <2>3, Zenon DEF Ends
  <2> QED
    BY <2>4, Zenon DEF Alike
<1> QED
  BY <1>1, <1>2, <1>3

\* SET: the controller does as the oracle does.
LEMMA SetAlike ==
  ASSUME TypeOK, NEW op \in Operations, op.kind = "Set", IssueSet(op)
  PROVE  Alike(op, step(op, memory, pc, fp))
<1>1. CASE Outside(op)
  <2>1. ToFault
    BY <1>1, Zenon DEF IssueSet
  <2> QED
    BY <1>1, <2>1, OutsideFaults, FaultedRefuses, Zenon DEF Alike
<1>2. CASE ~Outside(op)
  <2>1. At(op, 1) \in CellAddress /\ op.constant \in Word
    <3>1. 1 \in DOMAIN op.offsets /\ op.constant \in Word
      BY Operation
    <3> QED
      BY <1>2, <3>1, AtType
  <2>2. step(op, memory, pc, fp) = StoreAndAdvance(memory, pc, fp, At(op, 1), op.constant)
    BY <1>2, InsideSteps
  <2>3. \/ AtEnd /\ ToFault
        \/ ~CanWrite(memory, At(op, 1), op.constant) /\ ToFault
        \/ /\ ~AtEnd /\ CanWrite(memory, At(op, 1), op.constant)
           /\ Retire(write_once(memory, At(op, 1), op.constant), pc + 1, fp)
    BY <1>2, Zenon DEF IssueSet
  <2>4. Alike(op, StoreAndAdvance(memory, pc, fp, At(op, 1), op.constant))
    <3> DEFINE a == At(op, 1)
               word == op.constant
    <3> HIDE DEF a, word
    <3>1. a \in CellAddress /\ word \in Word
      BY <2>1 DEF a, word
    <3>2. \/ AtEnd /\ ToFault
          \/ ~CanWrite(memory, a, word) /\ ToFault
          \/ /\ ~AtEnd /\ CanWrite(memory, a, word)
             /\ Retire(write_once(memory, a, word), pc + 1, fp)
      BY <2>3, Zenon DEF a, word
    <3>3. Alike(op, StoreAndAdvance(memory, pc, fp, a, word))
      BY <3>1, <3>2, StoreAlike
    <3> QED
      BY <3>3, Zenon DEF a, word
  <2> QED
    BY <2>2, <2>4, Zenon
<1> QED
  BY <1>1, <1>2

\* The operands of XOR and MUL combine to a word.
LEMMA CombinedType ==
  ASSUME TypeOK, NEW op \in Operations, op.kind \in {"Xor", "Mul"}, ~Outside(op)
  PROVE  Combined(op) \in Word
<1>1. memory \in CellMemory /\ At(op, 1) \in CellAddress /\ At(op, 2) \in CellAddress
  BY BackSolveCells
<1>2. read(memory, At(op, 1)) \in Word /\ read(memory, At(op, 2)) \in Word
  BY <1>1, SlotFacts DEF read
<1>3. CASE op.kind = "Mul"
  BY <1>2, <1>3, MultiplyType DEF Combined
<1>4. CASE op.kind # "Mul"
  BY <1>2, <1>4, XorType DEF Combined
<1> QED
  BY <1>3, <1>4

\* XOR and MUL: the controller does as the oracle does, or suspends for the inverse
\* with which it will.
LEMMA BinaryAlike ==
  ASSUME TypeOK, NEW op \in Operations, op.kind \in {"Xor", "Mul"}, IssueBinary(op)
  PROVE  Alike(op, step(op, memory, pc, fp))
<1> DEFINE answer == step(op, memory, pc, fp)
<1>0. pc \in 0..PcMax /\ fp \in CellAddress /\ memory \in CellMemory /\ PcMax \in Nat
  BY ControllerSizes DEF TypeOK, CellMemory, Slot
<1>1. CASE Outside(op)
  <2>1. ToFault
    BY <1>1, ControllerBinary
  <2> QED
    BY <1>1, <2>1, OutsideFaults, FaultedRefuses, Zenon DEF Alike
<1>2. CASE ~Outside(op) /\ ~FillsOne(op)
  <2> DEFINE a == At(op, 3)
             word == Combined(op)
  <2>1. answer = StoreAndAdvance(memory, pc, fp, a, word)
    BY <1>2, OracleBinaryStep
  <2>2. a \in CellAddress /\ word \in Word
    BY <1>2, BackSolveCells, CombinedType
  <2>3. \/ AtEnd /\ ToFault
        \/ ~CanWrite(memory, a, word) /\ ToFault
        \/ /\ ~AtEnd /\ CanWrite(memory, a, word)
           /\ Retire(write_once(memory, a, word), pc + 1, fp)
    <3> HIDE DEF a, word
    <3> QED
      BY <1>2, ControllerBinary DEF a, word
  <2>4. Alike(op, StoreAndAdvance(memory, pc, fp, a, word))
    <3> HIDE DEF a, word, answer
    <3> QED
      BY <2>2, <2>3, StoreAlike
  <2> QED
    BY <2>1, <2>4, Zenon
<1>3. CASE ~Outside(op) /\ FillsOne(op) /\ op.kind = "Mul" /\ read(memory, KnownCell(op)) = Zero
  <2>1. ToFault /\ answer = Faulted
    BY <1>3, ControllerBinary, OracleBinaryStep
  <2> QED
    BY <2>1, FaultedRefuses, Zenon DEF Alike
<1>4. CASE /\ ~Outside(op) /\ FillsOne(op)
           /\ (op.kind = "Mul" => read(memory, KnownCell(op)) # Zero)
  <2>1. answer = Stepped(Filled(op), pc + 1, fp) /\ Filler(op) \in Word
    BY <1>4, OracleBinaryStep
  <2>2. CASE AtEnd /\ ToFault
    BY <2>1, <2>2, PastTheEnd, Zenon DEF AtEnd, Alike
  <2>3. CASE ~AtEnd /\ op.kind = "Xor" /\ Retire(Filled(op), pc + 1, fp)
    <3>1. MissingCell(op) \in CellAddress /\ ~memory[MissingCell(op)].present
      BY <1>4, BackSolveCells
    <3>2. Filled(op) \in CellMemory /\ KeepsWritten(memory, Filled(op))
      BY <1>0, <2>1, <3>1, WriteFacts, WriteKeeps DEF Filled, CanWrite
    <3>3. pc + 1 \in 0..PcMax
      BY <1>0, <2>3 DEF AtEnd
    <3>4. Ends(Filled(op), pc + 1, fp, answer)
      BY <1>0, <2>1, <2>3, <3>2, <3>3, Zenon DEF Ends
    <3> QED
      BY <3>4, Zenon DEF Alike
  <2>4. CASE ~AtEnd /\ op.kind = "Mul" /\ Suspends(op)
    <3>1. pc < PcMax
      BY <1>0, <2>4 DEF AtEnd
    <3> QED
      BY <1>4, <2>1, <2>4, <3>1, Zenon DEF Alike, Waits
  <2> QED
    BY <1>4, <2>2, <2>3, <2>4, ControllerBinary, Zenon
<1> QED
  BY <1>1, <1>2, <1>3, <1>4

\* A value below the order of g has one index, so both searches find the same.
LEMMA ReverseAgrees ==
  ASSUME NEW value, Preimages(value) # {}
  PROVE  /\ reverse_g(value) = reverse(value) /\ reverse(value) \in CellAddress
         /\ reverse(value) \in 0..PcMax
<1>1. PICK i : i \in Preimages(value)
  OBVIOUS
<1>2. Preimages(value) \subseteq CellAddress
  BY DEF Preimages, CellAddress, MEM_WORDS
<1>3. \A j \in Preimages(value) : j = i
  <2>1. ASSUME NEW j \in Preimages(value) PROVE j = i
    <3>1. encode(i) = value /\ encode(j) = value
      BY <1>1 DEF Preimages
    <3> QED
      BY <1>1, <1>2, <3>1, FieldIsAField
  <2> QED
    BY <2>1
<1>4. i \in CellAddress /\ i \in Nat /\ i <= i
  BY <1>1, <1>2, ControllerSizes DEF CellAddress
<1>5. reverse(value) = i
  <2>1. \A j \in Preimages(value) : i <= j
    BY <1>3, <1>4, Zenon
  <2>2. reverse(value) \in Preimages(value)
    BY <1>1, <2>1, Zenon DEF reverse
  <2> QED
    BY <1>3, <2>2
<1>6. reverse_g(value) = i
  <2>1. \A j \in Preimages(value) : j <= i
    BY <1>3, <1>4, Zenon
  <2>2. reverse_g(value) \in Preimages(value)
    BY <1>1, <2>1, Zenon DEF reverse_g
  <2> QED
    BY <1>3, <2>2
<1>7. CellAddress \subseteq 0..PcMax
  BY ControllerSizes DEF CellAddress
<1> QED
  BY <1>4, <1>5, <1>6, <1>7

\* JUMP: the controller does as the oracle does.
LEMMA JumpAlike ==
  ASSUME TypeOK, NEW op \in Operations, op.kind = "Jump", IssueJump(op)
  PROVE  Alike(op, step(op, memory, pc, fp))
<1> DEFINE answer == step(op, memory, pc, fp)
           target == read(memory, At(op, 2))
           base  == read(memory, At(op, 3))
<1>0. pc \in 0..PcMax /\ fp \in CellAddress /\ memory \in CellMemory /\ PcMax \in Nat
  BY ControllerSizes DEF TypeOK, CellMemory, Slot
<1>1. CASE Outside(op)
  <2>1. ToFault
    BY <1>1, Zenon DEF IssueJump
  <2> QED
    BY <1>1, <2>1, OutsideFaults, FaultedRefuses, Zenon DEF Alike
<1>2. ~Outside(op) => answer = StepJump(memory, pc, fp, At(op, 1), At(op, 2), At(op, 3))
  BY InsideSteps
<1>3. KeepsWritten(memory, memory)
  BY DEF KeepsWritten
<1>4. CASE ~Outside(op) /\ read(memory, At(op, 1)) = Zero
  <2>1. answer = Stepped(memory, pc + 1, fp)
    BY <1>2, <1>4, Zenon DEF StepJump
  <2>2. CASE AtEnd /\ ToFault
    BY <2>1, <2>2, PastTheEnd, Zenon DEF AtEnd, Alike
  <2>3. CASE ~AtEnd /\ Retire(memory, pc + 1, fp)
    <3>1. pc + 1 \in 0..PcMax
      BY <1>0, <2>3 DEF AtEnd
    <3>2. Ends(memory, pc + 1, fp, answer)
      BY <1>0, <1>3, <2>1, <2>3, <3>1, Zenon DEF Ends
    <3> QED
      BY <3>2, Zenon DEF Alike
  <2> QED
    BY <1>4, <2>2, <2>3, Zenon DEF IssueJump
<1>5. CASE /\ ~Outside(op) /\ read(memory, At(op, 1)) # Zero
           /\ Preimages(target) = {} \/ Preimages(base) = {}
  <2>1. answer = Faulted
    BY <1>2, <1>5, Zenon DEF StepJump
  <2>2. ToFault
    BY <1>5, Zenon DEF IssueJump
  <2> QED
    BY <2>1, <2>2, FaultedRefuses, Zenon DEF Alike
<1>6. CASE /\ ~Outside(op) /\ read(memory, At(op, 1)) # Zero
           /\ Preimages(target) # {} /\ Preimages(base) # {}
  <2>1. answer = Stepped(memory, reverse(target), reverse(base))
    BY <1>2, <1>6, Zenon DEF StepJump
  <2>2. Retire(memory, reverse_g(target), reverse_g(base))
    BY <1>6, Zenon DEF IssueJump
  <2>3. /\ reverse_g(target) = reverse(target) /\ reverse(target) \in 0..PcMax
        /\ reverse_g(base) = reverse(base) /\ reverse(base) \in CellAddress
    <3> HIDE DEF target, base
    <3> QED
      BY <1>6, ReverseAgrees
  <2>4. Ends(memory, reverse(target), reverse(base), answer)
    BY <1>0, <1>3, <2>1, <2>2, <2>3, Zenon DEF Ends
  <2> QED
    BY <2>4, Zenon DEF Alike
<1> QED
  BY <1>1, <1>4, <1>5, <1>6

\* Whatever instruction is issued.
LEMMA IssueAlike ==
  ASSUME TypeOK, NEW op \in Operations, Issue(op)
  PROVE  /\ state = "IDLE" /\ expect' = step(op, memory, pc, fp) /\ honest'
         /\ Alike(op, step(op, memory, pc, fp))
<1>1. op.kind \in {"Set", "Xor", "Mul", "Jump"}
  BY Operation
<1>2. "Set" # "Xor" /\ "Set" # "Mul" /\ "Set" # "Jump" /\ "Xor" # "Jump" /\ "Mul" # "Jump"
  OBVIOUS
<1>3. state = "IDLE" /\ expect' = step(op, memory, pc, fp) /\ honest'
  BY Zenon DEF Issue
<1>4. CASE op.kind = "Set"
  <2>1. IssueSet(op)
    BY <1>2, <1>4, Zenon DEF Issue
  <2> QED
    BY <1>3, <1>4, <2>1, SetAlike
<1>5. CASE op.kind \in {"Xor", "Mul"}
  <2>1. IssueBinary(op)
    BY <1>2, <1>5, Zenon DEF Issue
  <2> QED
    BY <1>3, <1>5, <2>1, BinaryAlike
<1>6. CASE op.kind = "Jump"
  <2>1. IssueJump(op)
    BY <1>2, <1>6, Zenon DEF Issue
  <2> QED
    BY <1>3, <1>6, <2>1, JumpAlike
<1> QED
  BY <1>1, <1>4, <1>5, <1>6

-----------------------------------------------------------------------------
(* The invariant *)

\* A suspension already knows what the oracle makes of its instruction, and has room to
\* advance.
SolvedCells == write_once(memory, pending.missing, multiply(pending.result, inverse(pending.operand)))
Suspended == state = "INV" => pc < PcMax /\ expect = Stepped(SolvedCells, pc + 1, fp)

M2Inv ==
    /\ TypeOK /\ AgreesWithOracle /\ SuspensionIsFresh /\ Suspended
    /\ fault => state = "FAULT"

\* What one edge does to the cells: they stay, and a fault stops it.
Lasting ==
    /\ KeepsWritten(memory, memory')
    /\ fault => fault' /\ UNCHANGED <<memory, pc, fp>>

\* Which is what WrittenStep says of it.
LEMMA LastingIsWritten ==
  ASSUME Lasting PROVE WrittenStep
BY Zenon DEF Lasting, WrittenStep, KeepsWritten

\* A fault keeps the invariant, if the oracle refuses too or gives no answer.
LEMMA FaultKeeps ==
  ASSUME TypeOK, ToFault, expect' = None \/ Refuses(expect') \/ honest' = FALSE
  PROVE  M2Inv' /\ Lasting
<1>1. TypeOK'
  BY DEF TypeOK, ToFault
<1>2. state' = "FAULT" /\ fault' /\ KeepsWritten(memory, memory')
  BY Zenon DEF ToFault, KeepsWritten
<1>3. SuspensionIsFresh' /\ Suspended'
  BY <1>2 DEF SuspensionIsFresh, Suspended
<1>4. AgreesWithOracle'
  <2>1. CASE Refuses(expect')
    <3>1. ~Oracle.ok'
      BY <2>1 DEF Oracle, Refuses, Faulted
    <3> QED
      BY <1>2, <3>1, Zenon DEF AgreesWithOracle
  <2>2. CASE expect' = None \/ honest' = FALSE
    BY <2>2, Zenon DEF AgreesWithOracle
  <2> QED
    BY <2>1, <2>2
<1> QED
  BY <1>1, <1>2, <1>3, <1>4, Zenon DEF M2Inv, Lasting, ToFault

\* So does an instruction retired as the oracle does it.
LEMMA RetireKeeps ==
  ASSUME TypeOK, fault => state = "FAULT", state # "FAULT",
         NEW cells, NEW nextPc, NEW nextFp,
         Retire(cells, nextPc, nextFp), cells \in CellMemory, KeepsWritten(memory, cells),
         nextPc \in 0..PcMax, nextFp \in CellAddress,
         honest' => expect' = Stepped(cells, nextPc, nextFp)
  PROVE  M2Inv' /\ Lasting
<1>1. TypeOK'
  BY DEF TypeOK, Retire, CellMemory, Slot
<1>2. state' = "IDLE" /\ memory' = cells /\ pc' = nextPc /\ fp' = nextFp /\ retired' /\ ~fault' /\ ~fault
  BY DEF Retire
<1>3. SuspensionIsFresh' /\ Suspended'
  BY <1>2 DEF SuspensionIsFresh, Suspended
<1>4. AgreesWithOracle'
  <2>1. ASSUME honest'
        PROVE Oracle' = expect' /\ <<memory', pc', fp'>> = <<expect'.memory, expect'.pc, expect'.fp>>
    <3>1. /\ expect'.memory = cells /\ expect'.pc = nextPc /\ expect'.fp = nextFp
      BY <2>1 DEF Stepped
    <3>2. ~(nextPc > PcMax)
      BY ControllerSizes
    <3> QED
      BY <1>2, <3>1, <3>2, Zenon DEF Oracle
  <2>2. ASSUME honest' PROVE expect'.ok
    BY <2>2 DEF Stepped
  <2> QED
    BY <1>2, <2>1, <2>2, Zenon DEF AgreesWithOracle
<1> QED
  BY <1>1, <1>2, <1>3, <1>4, Zenon DEF M2Inv, Lasting

\* And an edge that only waits, with nothing to agree on.
LEMMA StillKeeps ==
  ASSUME M2Inv, UNCHANGED <<state, memory, pc, fp, pending, fault>>, retired' = FALSE,
         (expect' = None /\ state # "INV") \/ (UNCHANGED expect /\ state = "INV")
  PROVE  M2Inv' /\ Lasting
<1>1. TypeOK'
  BY DEF M2Inv, TypeOK
<1>2. SuspensionIsFresh' /\ Suspended' /\ (fault' => state' = "FAULT")
  BY DEF M2Inv, SuspensionIsFresh, Suspended, SolvedCells
<1>3. AgreesWithOracle'
  BY Zenon DEF AgreesWithOracle
<1>4. KeepsWritten(memory, memory')
  BY DEF KeepsWritten
<1> QED
  BY <1>1, <1>2, <1>3, <1>4, Zenon DEF M2Inv, Lasting

\* The registers of a reset are typed.
LEMMA StartTypes ==
  /\ [a \in CellAddress |-> Unwritten] \in CellMemory
  /\ NoPending \in [missing : CellAddress, address : CellAddress, result : Word, operand : Word]
<1>1. Unwritten \in Slot
  BY DEF Slot
<1>2. [a \in CellAddress |-> Unwritten] \in CellMemory
  BY <1>1 DEF CellMemory
<1> QED
  BY <1>2, ControllerSizes, ZeroIsAWord DEF NoPending

\* A reset gives the invariant.
LEMMA StartKeeps ==
  ASSUME state' = "IDLE", memory' = [a \in CellAddress |-> Unwritten], pc' = 0, fp' = 0,
         pending' = NoPending, retired' = FALSE, fault' = FALSE, expect' = None
  PROVE  M2Inv'
<1> DEFINE empty == [a \in CellAddress |-> Unwritten]
<1>0. empty \in CellMemory /\ memory' = empty
  BY StartTypes
<1> HIDE DEF empty
<1>4. state' \in {"IDLE", "INV", "FAULT", "HALT"} /\ retired' \in BOOLEAN /\ fault' \in BOOLEAN
  BY Zenon
<1>5. pc' \in 0..PcMax /\ fp' \in CellAddress
  BY ControllerSizes
<1>6. memory' \in [CellAddress -> {Unwritten} \cup {Written(w) : w \in Word}]
  BY <1>0 DEF CellMemory, Slot
<1>7. pending' \in [missing : CellAddress, address : CellAddress, result : Word, operand : Word]
  BY StartTypes
<1>1. TypeOK'
  BY <1>4, <1>5, <1>6, <1>7, Zenon DEF TypeOK
<1>2. SuspensionIsFresh' /\ Suspended'
  BY DEF SuspensionIsFresh, Suspended
<1>3. AgreesWithOracle'
  BY Zenon DEF AgreesWithOracle
<1> QED
  BY <1>1, <1>2, <1>3, Zenon DEF M2Inv

\* The initial state has it.
LEMMA StartsAlike ==
  ASSUME Init PROVE M2Inv
<1> DEFINE empty == [a \in CellAddress |-> Unwritten]
<1>0. empty \in CellMemory /\ memory = empty
  BY StartTypes DEF Init
<1>9. /\ state = "IDLE" /\ pc = 0 /\ fp = 0 /\ pending = NoPending
      /\ retired = FALSE /\ fault = FALSE
  BY DEF Init
<1> HIDE DEF empty
<1>4. state \in {"IDLE", "INV", "FAULT", "HALT"} /\ retired \in BOOLEAN /\ fault \in BOOLEAN
  BY <1>9, Zenon
<1>5. pc \in 0..PcMax /\ fp \in CellAddress
  BY <1>9, ControllerSizes
<1>6. memory \in [CellAddress -> {Unwritten} \cup {Written(w) : w \in Word}]
  BY <1>0 DEF CellMemory, Slot
<1>7. pending \in [missing : CellAddress, address : CellAddress, result : Word, operand : Word]
  BY <1>9, StartTypes
<1>1. TypeOK
  BY <1>4, <1>5, <1>6, <1>7, Zenon DEF TypeOK
<1>2. SuspensionIsFresh /\ Suspended
  BY DEF SuspensionIsFresh, Suspended, Init
<1>3. AgreesWithOracle
  BY Zenon DEF AgreesWithOracle, Init
<1>8. fault = FALSE
  BY Zenon DEF Init
<1> QED
  BY <1>1, <1>2, <1>3, <1>8, Zenon DEF M2Inv

\* A load keeps it.
LEMMA LoadKeeps ==
  ASSUME M2Inv, NEW a \in 0..MEM_WORDS, NEW value \in LoadValues, Load(a, value)
  PROVE  M2Inv' /\ Lasting
<1> DEFINE refused == \/ LoadRefused \/ a >= MEM_WORDS
                      \/ (memory[a].present /\ memory[a].value # value)
<1>1. CASE refused
  <2>1. ToFault /\ expect' = None
    BY <1>1, Zenon DEF Load
  <2> QED
    BY <2>1, FaultKeeps DEF M2Inv
<1>2. CASE ~refused
  <2>1. /\ state = "IDLE" /\ a \in CellAddress /\ value \in Word /\ memory \in CellMemory
        /\ CanWrite(memory, a, value)
    BY <1>2, M2Assumption, ControllerSizes
    DEF LoadRefused, CellAddress, CanWrite, M2Inv, TypeOK, CellMemory, Slot
  <2>2. /\ memory' = write_once(memory, a, value) /\ retired' = FALSE
        /\ UNCHANGED <<state, pc, fp, pending, fault>> /\ expect' = None
    BY <1>2, Zenon DEF Load
  <2>3. write_once(memory, a, value) \in CellMemory /\ KeepsWritten(memory, write_once(memory, a, value))
    BY <2>1, WriteFacts, WriteKeeps
  <2>4. TypeOK'
    BY <2>1, <2>2, <2>3 DEF M2Inv, TypeOK, CellMemory, Slot
  <2>5. SuspensionIsFresh' /\ Suspended'
    BY <2>1, <2>2 DEF SuspensionIsFresh, Suspended
  <2>6. AgreesWithOracle'
    BY <2>2, Zenon DEF AgreesWithOracle
  <2>7. ~fault /\ ~fault'
    BY <2>1, <2>2 DEF M2Inv
  <2> QED
    BY <2>2, <2>3, <2>4, <2>5, <2>6, <2>7, Zenon DEF M2Inv, Lasting
<1> QED
  BY <1>1, <1>2

\* The inverse, right or wrong, keeps it: what was read before the suspension still
\* stands, so that both writes succeed.
LEMMA InverseKeeps ==
  ASSUME M2Inv, NEW value \in Word, TakeInverse(value)
  PROVE  M2Inv' /\ Lasting
<1> DEFINE missing == multiply(pending.result, value)
           cells   == write_once(write_once(memory, pending.missing, missing),
                                 pending.address, pending.result)
<1>0. /\ TypeOK /\ memory \in CellMemory /\ state = "INV" /\ (fault => state = "FAULT")
      /\ pending.missing \in CellAddress /\ pending.address \in CellAddress
      /\ pending.result \in Word /\ missing \in Word
      /\ pc \in 0..PcMax /\ fp \in CellAddress
  <2>1. pending.result \in Word
    BY DEF M2Inv, TypeOK
  <2>2. missing \in Word
    BY <2>1, MultiplyType
  <2> QED
    BY <2>1, <2>2 DEF M2Inv, TypeOK, CellMemory, Slot, TakeInverse
<1>1. /\ ~memory[pending.missing].present /\ memory[pending.address] = Written(pending.result)
      /\ pc < PcMax /\ expect = Stepped(SolvedCells, pc + 1, fp)
      /\ expect' = expect /\ honest' = (value = inverse(pending.operand))
  BY <1>0, Zenon DEF M2Inv, SuspensionIsFresh, Suspended, TakeInverse
<1>2. ~SolvedConflict(missing)
  <2>1. Written(pending.result).value = pending.result
    BY DEF Written
  <2> QED
    BY <1>1, <2>1, Zenon DEF SolvedConflict, CanWrite
<1>3. Retire(cells, pc + 1, fp)
  BY <1>2, Zenon DEF TakeInverse
<1>4. cells = write_once(memory, pending.missing, missing)
  <2> DEFINE filled == write_once(memory, pending.missing, missing)
  <2>1. pending.address # pending.missing
    <3>1. Written(pending.result).present
      BY DEF Written
    <3> QED
      BY <1>1, <3>1, Zenon
  <2>2. filled \in CellMemory /\ filled[pending.address] = Written(pending.result)
    <3>1. /\ filled \in CellMemory
          /\ \A b \in CellAddress : b # pending.missing => filled[b] = memory[b]
      <4>1. ASSUME NEW a \in CellAddress, NEW word \in Word
            PROVE  /\ write_once(memory, a, word) \in CellMemory
                   /\ \A b \in CellAddress : b # a => write_once(memory, a, word)[b] = memory[b]
        BY <1>0, WriteFacts
      <4> HIDE DEF missing
      <4> QED
        BY <1>0, <4>1, Zenon
    <3> HIDE DEF filled
    <3> QED
      BY <1>0, <1>1, <2>1, <3>1
  <2> HIDE DEF filled
  <2> QED
    BY <1>0, <2>2, WriteAgain DEF filled
<1>5. cells \in CellMemory /\ KeepsWritten(memory, cells)
  <2> HIDE DEF missing, cells
  <2>1. CanWrite(memory, pending.missing, missing)
    BY <1>1, Zenon DEF CanWrite
  <2> QED
    BY <1>0, <1>4, <2>1, WriteFacts, WriteKeeps
<1>6. honest' => expect' = Stepped(cells, pc + 1, fp)
  BY <1>1, <1>4, Zenon DEF SolvedCells
<1>7. pc + 1 \in 0..PcMax
  BY <1>0, <1>1, ControllerSizes
<1> HIDE DEF cells
<1> QED
  BY <1>0, <1>3, <1>5, <1>6, <1>7, RetireKeeps

\* An instruction keeps it.
LEMMA IssueKeeps ==
  ASSUME M2Inv, NEW op \in Operations, Issue(op)
  PROVE  M2Inv' /\ Lasting
<1> DEFINE answer == step(op, memory, pc, fp)
<1>0. /\ TypeOK /\ memory \in CellMemory /\ state = "IDLE" /\ (fault => state = "FAULT") /\ ~fault
      /\ expect' = answer /\ honest' /\ Alike(op, answer)
  <2>1. TypeOK /\ memory \in CellMemory /\ (fault => state = "FAULT")
    BY DEF M2Inv, TypeOK, CellMemory, Slot
  <2> HIDE DEF answer
  <2>2. state = "IDLE" /\ expect' = answer /\ honest' /\ Alike(op, answer)
    BY <2>1, IssueAlike DEF answer
  <2> QED
    BY <2>1, <2>2
<1> HIDE DEF answer
<1>1. CASE ToFault /\ Refuses(answer)
  <2>1. Refuses(expect')
    BY <1>0, <1>1, Zenon
  <2> QED
    BY <1>0, <1>1, <2>1, FaultKeeps
<1>2. ASSUME NEW cells, NEW nextPc, NEW nextFp, Ends(cells, nextPc, nextFp, answer)
      PROVE  M2Inv' /\ Lasting
  BY <1>0, <1>2, RetireKeeps DEF Ends
<1>3. CASE Waits(op, answer)
  <2>1. /\ Suspends(op) /\ answer = Stepped(Filled(op), pc + 1, fp) /\ pc < PcMax
        /\ op.kind = "Mul" /\ ~Outside(op) /\ FillsOne(op) /\ read(memory, KnownCell(op)) # Zero
    BY <1>3, Zenon DEF Waits
  <2>2. /\ At(op, 3) \in CellAddress /\ KnownCell(op) \in CellAddress /\ MissingCell(op) \in CellAddress
        /\ ~memory[MissingCell(op)].present /\ memory[KnownCell(op)].present
        /\ memory[At(op, 3)].present
    <3>1. op.kind \in {"Xor", "Mul"} /\ 3 \in 1..3
      BY <2>1
    <3> QED
      BY <1>0, <2>1, <3>1, BackSolveCells
  <2>3. /\ memory[At(op, 3)] = Written(read(memory, At(op, 3))) /\ read(memory, At(op, 3)) \in Word
        /\ memory[KnownCell(op)] = Written(read(memory, KnownCell(op)))
        /\ read(memory, KnownCell(op)) \in Word
    BY <1>0, <2>2, SlotFacts DEF read
  <2>4. /\ state' = "INV" /\ retired' = FALSE /\ UNCHANGED <<memory, pc, fp, fault>>
        /\ pending'.missing = MissingCell(op) /\ pending'.address = At(op, 3)
        /\ pending'.result = read(memory, At(op, 3)) /\ pending'.operand = read(memory, KnownCell(op))
        /\ pending' \in [missing : CellAddress, address : CellAddress, result : Word, operand : Word]
    BY <2>1, <2>2, <2>3 DEF Suspends
  <2>5. TypeOK'
    BY <1>0, <2>4 DEF TypeOK
  <2>6. SuspensionIsFresh'
    BY <2>1, <2>2, <2>3, <2>4, Zenon DEF SuspensionIsFresh
  <2>7. Suspended'
    <3>1. SolvedCells' = Filled(op)
      BY <2>1, <2>4, Zenon DEF SolvedCells, Filled, Filler
    <3> QED
      BY <1>0, <2>1, <2>4, <3>1, Zenon DEF Suspended
  <2>8. AgreesWithOracle'
    BY <2>4, Zenon DEF AgreesWithOracle
  <2>9. KeepsWritten(memory, memory')
    BY <2>4, Zenon DEF KeepsWritten
  <2> QED
    BY <1>0, <2>4, <2>5, <2>6, <2>7, <2>8, <2>9, Zenon DEF M2Inv, Lasting
<1> QED
  BY <1>0, <1>1, <1>2, <1>3, Zenon DEF Alike

\* HALT keeps it.
LEMMA HaltKeeps ==
  ASSUME M2Inv, Halt
  PROVE  M2Inv' /\ Lasting
<1>1. TypeOK /\ state = "IDLE" /\ expect' = None /\ ~fault
  BY DEF M2Inv, Halt
<1>2. CASE fp # 0
  <2>1. ToFault
    BY <1>2, Zenon DEF Halt
  <2> QED
    BY <1>1, <2>1, FaultKeeps
<1>3. CASE fp = 0
  <2>1. state' = "HALT" /\ retired' = TRUE /\ UNCHANGED <<memory, pc, fp, pending, fault>>
    BY <1>3, Zenon DEF Halt
  <2>2. TypeOK'
    BY <1>1, <2>1 DEF TypeOK
  <2>3. SuspensionIsFresh' /\ Suspended'
    BY <2>1 DEF SuspensionIsFresh, Suspended
  <2>4. AgreesWithOracle' /\ KeepsWritten(memory, memory')
    BY <1>1, <2>1, Zenon DEF AgreesWithOracle, KeepsWritten
  <2> QED
    BY <1>1, <2>1, <2>2, <2>3, <2>4, Zenon DEF M2Inv, Lasting
<1> QED
  BY <1>2, <1>3

\* Every edge keeps it, and what is written.
LEMMA M2Step ==
  ASSUME M2Inv, [Next]_vars
  PROVE  M2Inv' /\ (WrittenStep \/ UNCHANGED vars)
<1>1. CASE Reset
  <2>1. M2Inv'
    BY <1>1, StartKeeps DEF Reset
  <2> QED
    BY <1>1, <2>1, Zenon DEF WrittenStep
<1>2. CASE Idle
  BY <1>2, StillKeeps, LastingIsWritten DEF Idle
<1>3. ASSUME NEW a \in 0..MEM_WORDS, NEW value \in LoadValues, Load(a, value)
      PROVE  M2Inv' /\ WrittenStep
  BY <1>3, LoadKeeps, LastingIsWritten
<1>4. CASE Await
  BY <1>4, StillKeeps, LastingIsWritten DEF Await
<1>5. ASSUME NEW value \in Word, TakeInverse(value)
      PROVE  M2Inv' /\ WrittenStep
  BY <1>5, InverseKeeps, LastingIsWritten
<1>6. ASSUME NEW op \in Operations, Issue(op)
      PROVE  M2Inv' /\ WrittenStep
  BY <1>6, IssueKeeps, LastingIsWritten
<1>7. CASE Halt
  BY <1>7, HaltKeeps, LastingIsWritten
<1>8. CASE UnknownOp
  <2>1. TypeOK
    BY DEF M2Inv
  <2> QED
    BY <1>8, <2>1, FaultKeeps, LastingIsWritten DEF UnknownOp
<1>9. CASE UNCHANGED vars
  <2>1. TypeOK'
    BY <1>9 DEF M2Inv, TypeOK, vars
  <2>2. SuspensionIsFresh' /\ Suspended' /\ (fault' => state' = "FAULT")
    BY <1>9 DEF M2Inv, SuspensionIsFresh, Suspended, SolvedCells, vars
  <2>3. AgreesWithOracle'
    BY <1>9 DEF M2Inv, AgreesWithOracle, Oracle, vars
  <2> QED
    BY <1>9, <2>1, <2>2, <2>3, Zenon DEF M2Inv
<1> QED
  BY <1>1, <1>2, <1>3, <1>4, <1>5, <1>6, <1>7, <1>8, <1>9, Zenon DEF Next

\* An instruction the controller retires leaves the memory, pc and fp that the oracle's
\* step computes, and one it refuses the oracle refuses, suspended for an inverse or not;
\* at a suspension nothing that was read is stale.
THEOREM ControllerStaysTheOracle == Spec => []ControllerIsTheOracle
<1>1. Init => M2Inv
  BY StartsAlike
<1>2. M2Inv /\ [Next]_vars => M2Inv'
  BY M2Step
<1>3. M2Inv => ControllerIsTheOracle
  BY Zenon DEF M2Inv, ControllerIsTheOracle
<1> QED
  BY <1>1, <1>2, <1>3, PTL DEF Spec

\* No edge but a reset changes a written cell, whatever inverse the host gives, and
\* nothing moves after a fault.
THEOREM WrittenStaysWritten == Spec => [][WrittenStep]_vars
<1>1. Init => M2Inv
  BY StartsAlike
<1>2. M2Inv /\ [Next]_vars => M2Inv'
  BY M2Step
<1>3. M2Inv /\ [Next]_vars => [WrittenStep]_vars
  BY M2Step
<1> QED
  BY <1>1, <1>2, <1>3, PTL DEF Spec

-----------------------------------------------------------------------------
(* The UART bridge                                                          *)

\* Clocks until the serialiser has sent all that it holds.
Owed == tx_left + (IF tx_full THEN TxTime + 1 ELSE 0)

\* Position of the last byte on the line.
Last == IF next = 0 THEN Operands ELSE next - 1

\* The byte is the next one of the core's command, and the line follows it.
InStep(byte) ==
    byte = [epoch |-> core_epoch, position |-> count] /\ next = After(count) /\ epoch = core_epoch

BridgeTypes ==
    /\ gap \in 0..(RxTime - 1) /\ next \in 0..Operands /\ epoch \in 0..MaxAborts
    /\ tx_left \in 0..TxTime /\ count \in 0..Operands /\ core_epoch \in Int

\* Where the last event is: on the pins, in the buffer, and in the core, each for
\* one clock.
Places ==
    /\ pulse # NoByte => gap = RxTime - 1
    /\ rx_full => gap = RxTime - 2 /\ ~abort_q
    /\ abort_q => gap = RxTime - 2
    /\ core_out # NoByte => gap = RxTime - 3

Sequence ==
    /\ rx_accept => InStep(pulse)
    /\ rx_full => InStep(rx_data_q)
    /\ (pulse = ABORT \/ abort_q) => next = 0 /\ epoch = core_epoch + 1
    /\ (pulse = NoByte /\ ~rx_full /\ ~abort_q) => next = count /\ epoch = core_epoch

\* How far the way back lags: a clock for every operand of the command so far.
Drift ==
    /\ Owed <= Last + 4 + gap
    /\ (rx_accept /\ count > 0) => Owed <= count + 2
    /\ (rx_full /\ count > 0) => Owed <= count + 1
    /\ core_out # NoByte => Owed <= Last /\ Last > 0

BridgeInv == BridgeTypes /\ Places /\ Sequence /\ Drift /\ NoOverrun

\* What BridgeAssumption says of the times.
LEMMA BridgeTimes ==
  /\ RxTime \in Nat /\ TxTime \in Nat /\ Operands \in Nat /\ MaxAborts \in Nat
  /\ RxTime > 3 /\ TxTime <= RxTime /\ Operands > 0 /\ Operands <= TxTime
BY BridgeAssumption

\* A byte is not one of the two marks.
LEMMA BytesAreBytes ==
  /\ NoByte # ABORT
  /\ \A e \in 0..MaxAborts, p \in 0..Operands :
       [epoch |-> e, position |-> p] # NoByte /\ [epoch |-> e, position |-> p] # ABORT
BY BridgeAssumption, Zenon


\* What a clock does, register by register.
LEMMA BridgeClock ==
  ASSUME BridgeNext
  PROVE  /\ abort_q' => pulse = ABORT
         /\ pulse = ABORT => abort_q'
         /\ rx_full' => ~abort_q /\ (rx_accept \/ (rx_full /\ ~rx_core_fire))
         /\ rx_accept /\ ~abort_q => rx_full' /\ rx_data_q' = pulse
         /\ ~rx_accept /\ rx_full' => rx_data_q' = rx_data_q
         /\ rx_overrun' => rx_overrun \/ (rx_accept /\ rx_full)
         /\ core_out' # NoByte => ~abort_q /\ \/ rx_core_fire /\ count # 0
                                              \/ ~rx_core_fire /\ core_out # NoByte /\ tx_full
         /\ abort_q => count' = 0 /\ core_epoch' = core_epoch + 1
         /\ ~abort_q => core_epoch' = core_epoch
         /\ ~abort_q /\ rx_core_fire => count' = After(count)
         /\ ~abort_q /\ ~rx_core_fire => count' = count
         /\ tx_full' => ~abort_q /\ (tx_core_fire \/ (tx_full /\ tx_left # 0))
         /\ tx_full /\ tx_left = 0 => tx_left' = TxTime
         /\ ~(tx_full /\ tx_left = 0) => tx_left' = IF tx_left > 0 THEN tx_left - 1 ELSE 0
BY Zenon DEF BridgeNext, HostToCore, Core, CoreToHost, RxHeld, rx_core_fire, core_rx_ready, tx_core_fire,
   core_tx_ready, tx_uart_fire

\* What a clock does on the line.
LEMMA LineClock ==
  ASSUME BridgeNext, gap \in Nat
  PROVE  /\ gap > 0 => gap' = gap - 1 /\ next' = next /\ pulse' = NoByte
         /\ gap = 0 => \/ gap' = 0 /\ next' = next /\ pulse' = NoByte
                       \/ /\ gap' = RxTime - 1 /\ next' = After(next)
                          /\ pulse' = [epoch |-> epoch, position |-> next]
                       \/ gap' = RxTime - 1 /\ next' = 0 /\ pulse' = ABORT
<1>1. CASE gap > 0
  <2>1. gap # 0
    BY <1>1
  <2> QED
    BY <1>1, <2>1, Zenon DEF BridgeNext, Line
<1>2. CASE gap = 0
  <2>1. ~(gap > 0)
    BY <1>2
  <2> QED
    BY <1>2, <2>1, Zenon DEF BridgeNext, Line
<1> QED
  BY <1>1, <1>2

\* The position before a position is one.
LEMMA LastPosition ==
  ASSUME NEW position \in 0..Operands
  PROVE  /\ (IF position = 0 THEN Operands ELSE position - 1) >= 0
         /\ (IF position = 0 THEN Operands ELSE position - 1) \in Int
         /\ (IF position = 0 THEN Operands ELSE position - 1) \in 0..Operands
<1>1. CASE position = 0
  BY <1>1, BridgeTimes
<1>2. CASE position # 0
  BY <1>2, BridgeTimes
<1> QED
  BY <1>1, <1>2

\* A clock keeps the registers typed.
LEMMA TypesStep ==
  ASSUME BridgeInv, BridgeNext
  PROVE  BridgeTypes'
<1> USE BridgeTimes
<1>1. gap' \in 0..(RxTime - 1) /\ next' \in 0..Operands /\ epoch' \in 0..MaxAborts
  BY DEF BridgeInv, BridgeTypes, BridgeNext, Line, After
<1>2. tx_left' \in 0..TxTime
  BY BridgeClock DEF BridgeInv, BridgeTypes
<1>3. count' \in 0..Operands /\ core_epoch' \in Int
  BY BridgeClock DEF BridgeInv, BridgeTypes, After
<1> QED
  BY <1>1, <1>2, <1>3 DEF BridgeTypes

\* The serialiser's debt falls by a clock, but for an echo that it is given.
LEMMA OwedStep ==
  ASSUME BridgeInv, BridgeNext
  PROVE  /\ core_out = NoByte => Owed' <= Owed /\ (Owed > 0 => Owed' < Owed)
         /\ core_out # NoByte => Owed' <= Last + TxTime /\ ~tx_full /\ ~abort_q
<1> USE BridgeTimes
<1>1. tx_left \in 0..TxTime
  BY DEF BridgeInv, BridgeTypes
<1>2. ASSUME core_out = NoByte PROVE Owed' <= Owed /\ (Owed > 0 => Owed' < Owed)
  <2>1. tx_full' => tx_full /\ tx_left # 0
    BY <1>2, BridgeClock DEF tx_core_fire
  <2>2. CASE tx_full /\ tx_left = 0
    BY <1>1, <2>1, <2>2, BridgeClock DEF Owed
  <2>3. CASE ~(tx_full /\ tx_left = 0)
    BY <1>1, <2>1, <2>3, BridgeClock DEF Owed
  <2> QED
    BY <2>2, <2>3
<1>3. ASSUME core_out # NoByte PROVE Owed' <= Last + TxTime /\ ~tx_full /\ ~abort_q
  <2>1. gap = RxTime - 3 /\ Owed <= Last /\ Last > 0 /\ Last <= Operands /\ Last \in Int
    BY <1>3 DEF BridgeInv, BridgeTypes, Places, Drift, Last
  <2>2. ~tx_full
    BY <1>1, <2>1 DEF Owed
  <2>3. ~abort_q
    BY <2>1 DEF BridgeInv, Places
  <2>4. tx_left' = IF tx_left > 0 THEN tx_left - 1 ELSE 0
    BY <2>2, BridgeClock
  <2> QED
    BY <1>1, <2>1, <2>2, <2>3, <2>4 DEF Owed
<1> QED
  BY <1>2, <1>3, Zenon

\* A clock keeps the invariant.
LEMMA BridgeInvStep ==
  ASSUME BridgeInv, BridgeNext
  PROVE  BridgeInv'
<1> USE BridgeTimes
<1>1. BridgeTypes'
  BY TypesStep
<1>2. Places'
  <2>1. pulse' # NoByte => gap = 0 /\ gap' = RxTime - 1
    BY Zenon DEF BridgeNext, Line
  <2>2. gap > 0 => gap' = gap - 1
    BY DEF BridgeNext, Line, BridgeInv, BridgeTypes
  <2>3. pulse = ABORT => ~rx_accept
    BY DEF rx_accept
  <2>4. rx_full => rx_core_fire
    BY DEF BridgeInv, BridgeTypes, Places, rx_core_fire, core_rx_ready
  <2>5. core_out # NoByte => ~tx_full
    BY OwedStep
  <2>6. rx_full' => rx_accept /\ ~abort_q'
    BY <2>3, <2>4, BridgeClock, Zenon
  <2>7. core_out' # NoByte => rx_full
    BY <2>5, BridgeClock DEF rx_core_fire
  <2>8. gap \in Int /\ (rx_accept => gap = RxTime - 1) /\ (pulse = ABORT => gap = RxTime - 1) /\ (rx_full => gap = RxTime - 2)
    BY BytesAreBytes DEF BridgeInv, BridgeTypes, Places, rx_accept
  <2> QED
    BY <2>1, <2>2, <2>6, <2>7, <2>8, BridgeClock DEF Places
<1>3. Sequence'
  <2> QED
  BY BytesAreBytes, BridgeClock DEF BridgeInv, BridgeTypes, Places, Sequence, InStep, BridgeNext, Line,
         rx_core_fire, rx_accept, core_rx_ready, After
<1>4. Drift'
  <2>1. gap \in Int /\ next \in 0..Operands /\ count \in 0..Operands /\ next' \in 0..Operands
        /\ count' \in 0..Operands /\ tx_left \in 0..TxTime /\ tx_left' \in 0..TxTime
    BY <1>1 DEF BridgeInv, BridgeTypes
  <2>2. Owed \in Nat /\ Owed' \in Nat
    <3>1. ASSUME NEW left \in 0..TxTime, NEW full
          PROVE  left + (IF full THEN TxTime + 1 ELSE 0) \in Nat
      <4>1. CASE full
        BY <4>1
      <4>2. CASE ~full
        BY <4>2
      <4> QED
        BY <4>1, <4>2
    <3> QED
      BY <2>1, <3>1, Zenon DEF Owed
  <2>3. Owed <= Last + 4 + gap /\ Last \in 0..Operands
    BY <2>1 DEF BridgeInv, Drift, Last
  <2>4. ASSUME rx_accept' PROVE count' > 0 => Owed' <= count' + 2
    <3>1. gap = 0 /\ next' = After(next) /\ pulse'.position = next
      BY <2>1, <2>4, LineClock DEF rx_accept, BridgeInv, BridgeTypes
    <3>2. core_out = NoByte
      BY <3>1 DEF BridgeInv, Places
    <3>3. count' = next
      <4>1. pulse'.position = count'
        BY <1>3, <2>4 DEF Sequence, InStep
      <4> QED
        BY <3>1, <4>1
    <3> QED
      BY <2>1, <2>2, <2>3, <3>1, <3>2, <3>3, OwedStep DEF Last
  <2>5. ASSUME rx_full' PROVE count' > 0 => Owed' <= count' + 1
    <3>1. rx_accept
      BY <2>5, BridgeClock, OwedStep DEF BridgeInv, BridgeTypes, Places, rx_core_fire, core_rx_ready
    <3>2. core_out = NoByte /\ ~abort_q /\ ~rx_full
      BY <3>1 DEF BridgeInv, Places, rx_accept
    <3>3. count' = count
      BY <3>2, BridgeClock DEF rx_core_fire
    <3> QED
      BY <2>1, <2>2, <3>1, <3>2, <3>3, OwedStep DEF BridgeInv, Drift
  <2>6. ASSUME core_out' # NoByte PROVE Owed' <= Last' /\ Last' > 0
    <3>1. rx_full /\ count # 0 /\ core_out = NoByte
      BY <2>6, BridgeClock, OwedStep DEF rx_core_fire, core_rx_ready
    <3>2. next = After(count) /\ next' = next
      BY <2>1, <3>1 DEF BridgeInv, Places, Sequence, InStep, BridgeNext, Line
    <3>3. Last' = count
      BY <2>1, <3>1, <3>2 DEF Last, After
    <3> QED
      BY <2>1, <2>2, <3>1, <3>3, OwedStep DEF BridgeInv, Drift
  <2>7. Owed' <= Last' + 4 + gap'
    <3>1. CASE core_out # NoByte
      <4>1. gap = RxTime - 3 /\ gap' = gap - 1 /\ next' = next
        BY <3>1, <2>1 DEF BridgeInv, Places, BridgeNext, Line
      <4> QED
        BY <2>2, <2>3, <3>1, <4>1, OwedStep DEF Last
    <3>2. CASE core_out = NoByte
      <4>1. CASE gap > 0
        <5>1. gap' = gap - 1 /\ next' = next
          BY <4>1, <2>1 DEF BridgeNext, Line
        <5>2. Last' = Last
          BY <5>1 DEF Last
        <5> QED
          BY <2>1, <2>2, <2>3, <3>2, <4>1, <5>1, <5>2, OwedStep
      <4>2. CASE gap = 0 /\ gap' = gap /\ next' = next
        <5>1. Last' = Last
          BY <4>2 DEF Last
        <5> QED
          BY <2>1, <2>2, <2>3, <3>2, <4>2, <5>1, OwedStep
      <4>3. CASE gap = 0 /\ gap' = RxTime - 1
        <5>1. Last' >= 0 /\ Last' \in Int
          BY <2>1, LastPosition, Zenon DEF Last
        <5>2. Owed <= RxTime + 4
          BY <2>2, <2>3, <4>3
        <5>3. Owed' <= RxTime + 3
          BY <2>2, <3>2, <5>2, OwedStep
        <5>4. Last' + 4 + gap' = Last' + RxTime + 3
          BY <4>3, <5>1
        <5> QED
          BY <2>2, <5>1, <5>3, <5>4
      <4> QED
        BY <2>1, <4>1, <4>2, <4>3 DEF BridgeNext, Line, BridgeInv, BridgeTypes
    <3> QED
      BY <3>1, <3>2
  <2> QED
    BY <2>4, <2>5, <2>6, <2>7 DEF Drift
<1>5. NoOverrun'
  BY BridgeClock DEF BridgeInv, BridgeTypes, Places, NoOverrun, rx_accept
<1> QED
  BY <1>1, <1>2, <1>3, <1>4, <1>5 DEF BridgeInv

\* While the core holds an echo out, the buffer behind it is empty.
LEMMA Roomy == (BridgeInv /\ core_out # NoByte => ~tx_full)'
<1>1. ASSUME NEW left \in 0..TxTime, NEW full, NEW last \in 0..Operands,
             left + (IF full THEN TxTime + 1 ELSE 0) <= last
      PROVE  ~full
  <2>1. SUFFICES ASSUME full PROVE FALSE
    OBVIOUS
  <2> QED
    BY <1>1, <2>1, BridgeTimes
<1>2. BridgeInv' /\ (core_out # NoByte)' => Last' \in 0..Operands
  BY LastPosition, Zenon DEF BridgeInv, BridgeTypes, Last
<1> QED
  BY <1>1, <1>2, Zenon DEF BridgeInv, BridgeTypes, Drift, Owed

\* The invariant holds at every clock.
LEMMA BridgeStaysInv == BridgeSpec => []BridgeInv
<1>1. BridgeInit => BridgeInv
  BY BridgeTimes, BytesAreBytes DEF BridgeInit, BridgeInv, BridgeTypes, Places, Sequence, Drift, NoOverrun, InStep,
     rx_accept, Owed, Last
<1>2. BridgeInv /\ [BridgeNext]_bridgeVars => BridgeInv'
  <2>1. ASSUME BridgeInv, UNCHANGED bridgeVars PROVE BridgeInv'
    BY <2>1, Zenon DEF bridgeVars, BridgeInv, BridgeTypes, Places, Sequence, Drift, NoOverrun, InStep,
       rx_accept, Owed, Last
  <2> QED
    BY <2>1, BridgeInvStep
<1> QED
  BY <1>1, <1>2, PTL DEF BridgeSpec

\* No byte is lost between the pins and the core: the receive buffer is never overrun,
\* and every byte the core takes is the next one of its command.
THEOREM BridgeStaysInStep == BridgeSpec => []BridgeInStep
<1>1. BridgeInv => BridgeInStep
  BY DEF BridgeInv, Sequence, InStep, BridgeInStep, CoreInStep, rx_core_fire
<1> QED
  BY <1>1, BridgeStaysInv, PTL

-----------------------------------------------------------------------------
(* The order of the echoes *)

\* The echo after another one: the next of its command, or the first of a later one.
Follows(byte, before) ==
    \/ before = NoByte
    \/ byte.epoch > before.epoch /\ byte.position = 1
    \/ /\ byte.epoch = before.epoch
       /\ byte.position = IF before.position = Operands THEN 1 ELSE before.position + 1

\* The echo that the core's next one comes after.
Trails(byte, core, position) ==
    \/ byte = NoByte
    \/ byte.epoch < core /\ position <= 1
    \/ byte.epoch = core /\ byte.position = IF position <= 1 THEN Operands ELSE position - 1

Seen(byte) == byte = NoByte \/ (byte.epoch \in Int /\ byte.epoch <= core_epoch)

\* An echo that the serialiser has not had.
Due(byte) == Seen(byte) /\ Trails(byte, core_epoch, count) /\ Follows(byte, loaded)

EchoInv ==
    /\ core_out # NoByte => Due(core_out)
    /\ tx_full => Due(tx_data_q)
    /\ core_out = NoByte /\ ~tx_full => Trails(loaded, core_epoch, count)
    /\ Seen(loaded)

\* The core's echo follows the byte that its sequence has come to.
LEMMA EchoFollows ==
  ASSUME NEW byte, NEW before, NEW core \in Int, NEW position \in 1..Operands,
         Trails(before, core, position), byte.epoch = core, byte.position = position
  PROVE  Follows(byte, before)
<1>1. CASE before = NoByte
  BY <1>1 DEF Follows
<1>2. CASE before.epoch < core /\ position <= 1
  BY <1>2 DEF Follows
<1>3. CASE before.epoch = core /\ before.position = IF position <= 1 THEN Operands ELSE position - 1
  <2>1. CASE position <= 1
    BY <1>3, <2>1, BridgeTimes DEF Follows
  <2>2. CASE ~(position <= 1)
    BY <1>3, <2>2, BridgeTimes DEF Follows
  <2> QED
    BY <2>1, <2>2
<1> QED
  BY <1>1, <1>2, <1>3 DEF Trails

\* It is then the byte that the next one follows.
LEMMA EchoEnds ==
  ASSUME NEW byte, NEW core, NEW position \in 1..Operands,
         byte.epoch = core, byte.position = position
  PROVE  Trails(byte, core, After(position))
<1>1. CASE position = Operands
  BY <1>1, BridgeTimes DEF Trails, After
<1>2. CASE position # Operands
  BY <1>2, BridgeTimes DEF Trails, After
<1> QED
  BY <1>1, <1>2

\* A clock keeps that.
LEMMA EchoInvStep ==
  ASSUME BridgeInv, BridgeInv', EchoInv, BridgeNext
  PROVE  EchoInv'
<1> USE BridgeTimes
<1>0. count \in 0..Operands /\ core_epoch \in Int
  BY DEF BridgeInv, BridgeTypes
<1>1. loaded' = IF tx_full /\ tx_left = 0 THEN tx_data_q ELSE loaded
  BY Zenon DEF BridgeNext, CoreToHost, tx_uart_fire
<1>2. CASE abort_q
  <2>1. core_out' = NoByte /\ ~tx_full' /\ count' = 0 /\ core_epoch' = core_epoch + 1
    BY <1>2, BridgeClock, Zenon DEF BridgeNext, Core
  <2>2. Seen(loaded')
    BY <1>1, Zenon DEF EchoInv, Due
  <2>3. Seen(loaded)' /\ Trails(loaded, core_epoch, count)'
    BY <1>0, <2>1, <2>2 DEF Seen, Trails
  <2> QED
    BY <2>1, <2>3, Zenon DEF EchoInv
<1>3. CASE ~abort_q /\ rx_core_fire /\ count # 0
  <2>1. core_out = NoByte /\ core_out' = rx_data_q /\ core_epoch' = core_epoch /\ count' = After(count)
    BY <1>3, Zenon DEF BridgeNext, Core, rx_core_fire, core_rx_ready
  <2>2. rx_data_q.epoch = core_epoch /\ rx_data_q.position = count
    BY <1>3 DEF BridgeInv, Sequence, InStep, rx_core_fire
  <2>3. ~tx_full'
    <3>1. core_out' # NoByte
      BY <1>3, <2>1, BytesAreBytes DEF BridgeInv, BridgeTypes, Sequence, InStep, rx_core_fire
    <3> QED
      BY <3>1, Roomy
  <2>4. tx_full => tx_left = 0
    BY <1>3, <2>1, <2>3, Zenon DEF BridgeNext, CoreToHost, tx_core_fire, tx_uart_fire
  <2>5. Trails(loaded', core_epoch, count) /\ Seen(loaded')
    BY <1>1, <2>1, <2>4, Zenon DEF EchoInv, Due
  <2>6. Follows(core_out', loaded')
    BY <1>0, <1>3, <2>1, <2>2, <2>5, EchoFollows
  <2>7. Trails(core_out', core_epoch, After(count))
    BY <1>0, <1>3, <2>1, <2>2, EchoEnds
  <2>8. Seen(core_out')
    BY <1>0, <2>1, <2>2 DEF Seen
  <2>9. Due(core_out)' /\ Seen(loaded)'
    BY <2>1, <2>5, <2>6, <2>7, <2>8, Zenon DEF Due, Seen
  <2>10. core_out' # NoByte
    BY <1>3, <2>1, BytesAreBytes DEF BridgeInv, BridgeTypes, Sequence, InStep, rx_core_fire
  <2> QED
    BY <2>3, <2>9, <2>10, Zenon DEF EchoInv
<1>4. CASE ~abort_q /\ ~(rx_core_fire /\ count # 0)
  <2>1. core_epoch' = core_epoch
    BY <1>4, BridgeClock
  <2>2. \A byte : Trails(byte, core_epoch, count) => Trails(byte, core_epoch', count')
    <3>1. count' = count \/ (count = 0 /\ count' = 1)
      BY <1>4, <1>0, BridgeClock DEF After
    <3> QED
      BY <2>1, <3>1 DEF Trails
  <2>3. \A byte : Seen(byte) => Seen(byte)'
    BY <2>1, Zenon DEF Seen
  <2>4. CASE core_out # NoByte
    <3>1. ~tx_full /\ core_out' = NoByte /\ tx_full' /\ tx_data_q' = core_out
      BY <1>4, <2>4, OwedStep, Zenon DEF BridgeNext, Core, CoreToHost, tx_core_fire, core_tx_ready, rx_core_fire, core_rx_ready
    <3>2. loaded' = loaded
      BY <1>1, <3>1
    <3> QED
      BY <2>2, <2>3, <2>4, <3>1, <3>2, Zenon DEF EchoInv, Due
  <2>5. CASE core_out = NoByte
    <3>1. core_out' = NoByte
      BY <1>4, <2>5, Zenon DEF BridgeNext, Core, tx_core_fire
    <3>2. tx_full' <=> (tx_full /\ tx_left # 0)
      BY <1>4, <2>5, Zenon DEF BridgeNext, CoreToHost, tx_core_fire, tx_uart_fire
    <3>3. tx_full' => tx_data_q' = tx_data_q
      BY <1>4, <2>5, Zenon DEF BridgeNext, CoreToHost, tx_core_fire
    <3>4. tx_full' => loaded' = loaded
      BY <1>1, <3>2
    <3>5. ~tx_full' => Trails(loaded', core_epoch, count)
      BY <1>1, <2>5, <3>2, Zenon DEF EchoInv, Due
    <3>6. Seen(loaded')
      BY <1>1, Zenon DEF EchoInv, Due
    <3> QED
      BY <2>2, <2>3, <2>5, <3>1, <3>2, <3>3, <3>4, <3>5, <3>6, Zenon DEF EchoInv, Due
  <2> QED
    BY <2>4, <2>5
<1> QED
  BY <1>2, <1>3, <1>4

\* No echo is lost, repeated or out of order on its way to the serialiser: each is the
\* next of its command, or the first of a later one.
THEOREM EchoesInOrder == BridgeSpec => [][EchoStep]_bridgeVars
<1>1. BridgeInit => EchoInv
  BY DEF BridgeInit, EchoInv, Seen, Trails
<1>2. BridgeInv /\ BridgeInv' /\ EchoInv /\ [BridgeNext]_bridgeVars => EchoInv'
  <2>1. ASSUME EchoInv, UNCHANGED bridgeVars PROVE EchoInv'
    BY <2>1, Zenon DEF bridgeVars, EchoInv, Due, Seen
  <2> QED
    BY <2>1, EchoInvStep
<1>3. EchoInv /\ [BridgeNext]_bridgeVars => [EchoStep]_bridgeVars
  BY Zenon DEF EchoInv, Due, Follows, EchoStep, tx_uart_fire
<1>4. BridgeInv /\ EchoInv /\ [BridgeNext]_bridgeVars => [EchoStep]_bridgeVars
  BY <1>3
<1> QED
  BY <1>1, <1>2, <1>3, BridgeStaysInv, PTL DEF BridgeSpec
=============================================================================
