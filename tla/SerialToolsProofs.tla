------------------------- MODULE SerialToolsProofs -------------------------
(***************************************************************************)
(* Proofs about the host tools on a serial port: the exchanges of the      *)
(* MinCore driver and the record of its main() (MinCoreUart), the runs of  *)
(* the packet tool over one line (PacketRun), and those of the ULX3S tool  *)
(* on one board (Ulx3sUart).                                               *)
(***************************************************************************)
EXTENDS MCSerialTools, TLAPS

-----------------------------------------------------------------------------
(* The MinCore driver: bytes by their origin, and the invariant. *)

\* Bytes by their origin.
Fresh == {b \in Byte : b.exchange # 0}

\* Bytes that answer exchange m.
Own(m) == {b \in Byte : b.exchange = m}

\* A request byte on its way to the device.
WireByte == [exchange : Nat \ {0}, op : Operations, index : Nat \ {0}]

\* The device: the exchange it serves, the bytes it waits for and those it still owes.
Device == [exchange : Nat, op : Operations, needs : Nat, owes : Nat]

\* Where exchange() is: before its request, after its answer, or from the request on.
Draining == phase \in {"drain_count", "drain_read"}
Extra == phase \in {"extra_count", "extra_read"}
Asking == phase \in {"write", "flush", "read"} \/ Extra

\* What a running call has read or written, what of the request has left the driver, the
\* bytes of an answer that have come in, and the request bytes the device has taken.
Got == IF call = None THEN <<>> ELSE call.got
Sent == offset + (IF call # None /\ phase = "write" THEN call.moved ELSE 0)
Seen == Len(rxbuf) + Len(Got) + Len(response) + Len(drained)
Told == taken + Sent - Len(wire)

\* The driver's own state has its type, and response never exceeds what was asked for.
StateTyped ==
    /\ usable \in BOOLEAN /\ phase \in Phases /\ op \in Operations /\ n \in 0..MaxExchanges
    /\ offset \in 0..RequestLength[op] /\ expired \in BOOLEAN
    /\ response \in Seq(Byte) /\ drained \in Seq(Byte)
    /\ Len(response) <= response_length[op]

\* The state of the port and the device has its type; a device at work knows for whom.
PortTyped ==
    /\ wire \in Seq(WireByte) /\ taken \in 0..Len(wire) /\ noise \in Nat
    /\ rxbuf \in Seq(Byte) /\ device \in Device
    /\ device.needs + device.owes > 0 => device.exchange # 0

\* The running call is exchange()'s own, begun where exchange() stands, and asks for no
\* more than what is missing.
CallInStep ==
    /\ phase = "idle" => call = None
    /\ call # None =>
        /\ call \in CallRecord /\ call.phase = phase /\ call.exchange = n
        /\ call.first = offset + 1 /\ call.moved <= call.want
        /\ phase = "read" => call.want = response_length[op] - Len(response)
        /\ phase = "write" => call.want = RequestLength[op] - offset
        /\ Len(call.got) = IF phase \in Reads THEN call.moved ELSE 0

\* _usable is withdrawn for as long as an exchange runs.
Withdrawn == phase # "idle" => ~usable /\ n > 0

\* A call that was abandoned at its deadline runs beside no other: the driver is idle and
\* no longer usable, and what an abandoned write puts on the wire comes after all the rest.
AbandonedAlone ==
    abandoned # None =>
        /\ abandoned \in CallRecord /\ phase = "idle" /\ ~usable /\ abandoned.exchange <= n
        /\ abandoned.phase = "write" =>
            \A i \in 1..Len(wire) :
                \/ wire[i].exchange < abandoned.exchange
                \/ /\ wire[i].exchange = abandoned.exchange
                   /\ wire[i].index < abandoned.first + abandoned.moved

\* Which of the driver's variables are set in which phase of exchange().
PhaseInStep ==
    /\ Draining => offset = 0 /\ response = <<>>
    /\ phase \in {"write", "flush"} => response = <<>>
    /\ phase \in {"write", "flush", "read"} => drained = <<>>
    /\ phase \in {"flush", "read"} \/ Extra => offset = RequestLength[op]
    /\ phase = "flush" => response_length[op] = 0
    /\ phase = "read" => response_length[op] > 0
    /\ Extra => Len(response) = response_length[op]

\* Request bytes are on the wire in the order of exchanges and of their indices, the
\* running exchange's no further than it has sent.
WireOrdered ==
    /\ \A i \in 1..Len(wire) : wire[i].exchange <= n
    /\ \A i, j \in 1..Len(wire) :
         i < j => \/ wire[i].exchange < wire[j].exchange
                  \/ wire[i].exchange = wire[j].exchange /\ wire[i].index < wire[j].index
    /\ phase # "idle" => \A i \in 1..Len(wire) : wire[i].exchange = n => wire[i].index <= Sent

\* After the drain the driver holds no byte that was in the port when it was opened.
AllFresh ==
    Asking => rxbuf \in Seq(Fresh) /\ Got \in Seq(Fresh) /\ response \in Seq(Fresh) /\ drained \in Seq(Fresh)

\* Without line noise, what it holds after the drain answers the running exchange.
AllOwn ==
    noise = 0 /\ Asking =>
      rxbuf \in Seq(Own(n)) /\ Got \in Seq(Own(n)) /\ response \in Seq(Own(n)) /\ drained \in Seq(Own(n))

\* Without noise, nothing is under way when an exchange begins or drains.
QuietBefore ==
    noise = 0 /\ ((usable /\ phase = "idle") \/ Draining) =>
        device.needs = 0 /\ device.owes = 0 /\ taken = Len(wire)

\* Without noise, every byte of the running exchange is accounted for: sent bytes are on
\* the wire or with the device, and the device answers the whole request with exactly its
\* response length, of which the driver has seen the rest.
Accounted ==
    noise = 0 /\ Asking =>
        /\ Told >= 0
        /\ \A i \in 1..Len(wire) : i > Len(wire) - Sent => wire[i].exchange = n /\ wire[i].op = op
        /\ Told = 0 => device.needs = 0 /\ device.owes = 0
        /\ Told > 0 => device.exchange = n /\ device.op = op
        /\ Told > 0 /\ Told < RequestLength[op] => device.needs = RequestLength[op] - Told /\ device.owes = 0
        /\ Told < RequestLength[op] => Seen = 0
        /\ Told = RequestLength[op] => device.needs = 0 /\ device.owes + Seen = response_length[op]
        /\ Extra /\ response_length[op] = 0 => taken = Len(wire)

\* The last outcome is of this exchange or an earlier one; an accepted answer is its own,
\* and the driver is usable again exactly by accepting.
OutcomeInStep ==
    /\ outcome.exchange \in 0..n
    /\ outcome.observed \in Seq(Fresh)
    /\ outcome.accepted /\ noise = 0 => outcome.observed \in Seq(Own(outcome.exchange))
    /\ outcome.accepted /\ outcome.exchange = n => usable /\ phase = "idle"

\* The inductive invariant of the driver.
DriverInv == /\ StateTyped /\ PortTyped /\ CallInStep /\ Withdrawn /\ AbandonedAlone /\ PhaseInStep
       /\ WireOrdered /\ AllFresh /\ AllOwn /\ QuietBefore /\ Accounted /\ OutcomeInStep

-----------------------------------------------------------------------------
\* The sets of bytes by their origin, and what is in them.
LEMMA ByteFacts ==
    /\ Fresh \subseteq Byte
    /\ \A m : Own(m) \subseteq Byte
    /\ \A m \in Int, g \in BOOLEAN : [exchange |-> m, good |-> g] \in Own(m)
    /\ \A m \in Int, g \in BOOLEAN : m # 0 => [exchange |-> m, good |-> g] \in Fresh
    /\ \A b \in Fresh : b.exchange # 0
    /\ \A m : \A b \in Own(m) : b.exchange = m
<1>1. \A m \in Int, g \in BOOLEAN : [exchange |-> m, good |-> g] \in Byte
  BY Zenon DEF Byte
<1>2. \A m, g : [exchange |-> m, good |-> g].exchange = m
  BY Zenon
<1> QED BY <1>1, <1>2, Zenon DEF Fresh, Own

\* What the proofs use of sequences: appending, joining, taking the head, their lengths.
LEMMA SeqFacts ==
  ASSUME NEW S
  PROVE  /\ <<>> \in Seq(S)
         /\ \A s \in Seq(S), x \in S : Append(s, x) \in Seq(S) /\ Len(Append(s, x)) = Len(s) + 1
         /\ \A s, t \in Seq(S) : s \o t \in Seq(S) /\ Len(s \o t) = Len(s) + Len(t)
         /\ \A s \in Seq(S) : s # <<>> => /\ Head(s) \in S /\ Tail(s) \in Seq(S)
                                          /\ Len(Tail(s)) = Len(s) - 1
         /\ \A s \in Seq(S) : Len(s) \in Nat /\ DOMAIN s = 1..Len(s) /\ (Len(s) = 0 => s = <<>>)
         /\ \A s \in Seq(S) : \A i \in 1..Len(s) : s[i] \in S
  OBVIOUS

\* The empty sequence has length 0.
LEMMA LenEmpty == Len(<<>>) = 0
  OBVIOUS

\* A sequence over a set is one over every larger set.
LEMMA SeqMonotone ==
  ASSUME NEW S, NEW T, S \subseteq T PROVE Seq(S) \subseteq Seq(T)
  OBVIOUS

\* The invariant implies what the run checks.
LEMMA DriverInvImplies == DriverInv => ExchangeIsOwn
<1> SUFFICES ASSUME DriverInv PROVE ExchangeIsOwn
  OBVIOUS
<1> USE DEF DriverInv
<1>1. TypeOK
  BY DEF TypeOK, StateTyped, PortTyped, CallInStep
<1>2. AcceptedIsOwnReply
  BY ByteFacts, SeqFacts DEF AcceptedIsOwnReply, OutcomeInStep
<1>3. AbandonedCallIsAlone
  BY DEF AbandonedCallIsAlone, AbandonedAlone, CallInStep
<1>4. RequestSentOnce
  BY DEF RequestSentOnce, WireOrdered, PortTyped
<1>5. AcceptedRequestLeft
  BY DEF AcceptedRequestLeft, OutcomeInStep, QuietBefore, PortTyped
<1>6. ObservedIsNotStale
  BY ByteFacts, SeqFacts DEF ObservedIsNotStale, OutcomeInStep
<1> QED BY <1>1, <1>2, <1>3, <1>4, <1>5, <1>6 DEF ExchangeIsOwn

\* The driver on a port with stale bytes in it satisfies the invariant.
LEMMA DriverInitInv == Init => DriverInv
<1> SUFFICES ASSUME Init PROVE DriverInv
  OBVIOUS
<1>1. /\ usable = TRUE /\ phase = "idle" /\ op = Status /\ n = 0 /\ offset = 0
      /\ response = <<>> /\ drained = <<>> /\ expired = FALSE /\ call = None
      /\ wire = <<>> /\ taken = 0 /\ noise = 0 /\ abandoned = None
      /\ device = [exchange |-> 0, op |-> Status, needs |-> 0, owes |-> 0]
  BY DEF Init
<1>2. rxbuf \in Seq(Byte)
  <2> DEFINE b == [exchange |-> 0, good |-> FALSE]
  <2>1. \E stale \in 0..MaxStale : rxbuf = [i \in 1..stale |-> b]
    BY Zenon DEF Init
  <2>2. \A m \in Int, g \in BOOLEAN : [exchange |-> m, good |-> g] \in Byte
    BY Zenon DEF Byte
  <2>3. b \in Byte
    <3>1. 0 \in Int /\ FALSE \in BOOLEAN
      OBVIOUS
    <3> QED BY <2>2, <3>1, Zenon
  <2> HIDE DEF b
  <2> QED BY <2>1, <2>3, MinCoreAssumption
<1>3. StateTyped
  <2>1. /\ usable \in BOOLEAN /\ expired \in BOOLEAN /\ phase \in Phases
    BY <1>1 DEF Phases
  <2>3. n \in 0..MaxExchanges
    BY <1>1, MinCoreAssumption
  <2>2. /\ op \in Operations /\ offset \in 0..RequestLength[op] /\ Len(response) <= response_length[op]
    BY <1>1, MinCoreAssumption
  <2> QED BY <1>1, <2>1, <2>2, <2>3, SeqFacts DEF StateTyped
<1>4. PortTyped
  BY <1>1, <1>2, MinCoreAssumption DEF PortTyped, Device
<1>5. OutcomeInStep
  <2>1. ~outcome.accepted
    BY Zenon DEF Init
  <2>2. outcome.exchange = 0 /\ outcome.observed = <<>>
    BY Zenon DEF Init
  <2> QED BY <1>1, <2>1, <2>2, SeqFacts DEF OutcomeInStep
<1>6. /\ CallInStep /\ Withdrawn /\ AbandonedAlone /\ PhaseInStep /\ WireOrdered /\ AllFresh
      /\ AllOwn /\ QuietBefore /\ Accounted
  BY <1>1 DEF CallInStep, Withdrawn, AbandonedAlone, PhaseInStep, WireOrdered, AllFresh, AllOwn,
         QuietBefore, Accounted, Draining, Extra, Asking
<1> QED BY <1>2, <1>3, <1>4, <1>5, <1>6 DEF DriverInv
-----------------------------------------------------------------------------
\* Requests are not empty, and lengths and bounds are natural numbers.
LEMMA ConstantFacts ==
    /\ \A o \in Operations : RequestLength[o] \in Nat /\ RequestLength[o] > 0 /\ response_length[o] \in Nat
    /\ MaxExchanges \in Nat /\ MaxNoise \in Nat
  BY MinCoreAssumption

\* The deadline of an exchange passes.
LEMMA ExpireStep == DriverInv /\ Expire => DriverInv'
<1> SUFFICES ASSUME DriverInv, Expire PROVE DriverInv'
  OBVIOUS
<1>1. /\ UNCHANGED <<usable, phase, op, n, offset, response, drained, call, outcome, abandoned>>
      /\ UNCHANGED <<wire, taken, device, rxbuf, noise>>
  BY DEF Expire, port
<1>2. expired' \in BOOLEAN
  BY DEF Expire
<1>3. StateTyped'
  BY <1>1, <1>2 DEF DriverInv, StateTyped
<1>4. PortTyped' /\ CallInStep' /\ Withdrawn' /\ AbandonedAlone' /\ PhaseInStep' /\ OutcomeInStep'
  BY <1>1 DEF DriverInv, PortTyped, CallInStep, Withdrawn, AbandonedAlone, PhaseInStep, OutcomeInStep,
              Draining, Extra
<1>5. WireOrdered' /\ AllFresh' /\ AllOwn' /\ QuietBefore' /\ Accounted'
  BY <1>1 DEF DriverInv, WireOrdered, AllFresh, AllOwn, QuietBefore, Accounted, Draining, Extra, Asking,
              Got, Sent, Seen, Told
<1> QED BY <1>3, <1>4, <1>5 DEF DriverInv

\* _call: a worker thread begins a port operation.
LEMMA StartCallStep == DriverInv /\ StartCall => DriverInv'
<1> SUFFICES ASSUME DriverInv, StartCall PROVE DriverInv'
  OBVIOUS
<1>1. /\ UNCHANGED <<usable, phase, op, n, offset, response, drained, expired, outcome, abandoned>>
      /\ UNCHANGED <<wire, taken, device, rxbuf, noise>>
      /\ phase # "idle" /\ call = None
  BY DEF StartCall, port
<1>2. abandoned = None /\ n > 0
  BY <1>1 DEF DriverInv, AbandonedAlone, Withdrawn
<1>3. /\ call'.phase = phase /\ call'.moved = 0 /\ call'.got = <<>> /\ call'.first = offset + 1
      /\ call'.exchange = n
      /\ phase = "read" => call'.want = response_length[op] - Len(response)
      /\ phase = "write" => call'.want = RequestLength[op] - offset
      /\ call'.want \in Nat /\ call' \in CallRecord
  <2> DEFINE w == IF phase = "read" THEN response_length[op] - Len(response)
                  ELSE IF phase = "write" THEN RequestLength[op] - offset ELSE Len(rxbuf)
  <2>1. w \in Nat
    BY ConstantFacts DEF DriverInv, StateTyped, PortTyped
  <2>2. call' = [phase |-> phase, moved |-> 0, got |-> <<>>, first |-> offset + 1, exchange |-> n,
                 want |-> w]
    BY DEF StartCall
  <2>3. offset + 1 \in Nat \ {0} /\ n \in Nat \ {0} /\ <<>> \in Seq(Byte) /\ phase \in Phases
    BY <1>2, ConstantFacts DEF DriverInv, StateTyped
  <2> HIDE DEF w
  <2>4. call' \in CallRecord
    BY <2>1, <2>2, <2>3 DEF CallRecord
  <2> QED BY <2>1, <2>2, <2>4 DEF w
<1>4. StateTyped' /\ PortTyped' /\ Withdrawn' /\ AbandonedAlone' /\ PhaseInStep' /\ OutcomeInStep'
  BY <1>1, <1>2 DEF DriverInv, StateTyped, PortTyped, Withdrawn, AbandonedAlone, PhaseInStep, OutcomeInStep,
              Draining, Extra
<1>5. CallInStep'
  BY <1>1, <1>3, LenEmpty DEF CallInStep
<1>6. Sent' = Sent /\ Len(Got') = 0 /\ Len(Got) = 0 /\ Got' = <<>>
  BY <1>1, <1>3, LenEmpty DEF Got, Sent, DriverInv, StateTyped
<1>7. Seen' = Seen /\ Told' = Told
  BY <1>1, <1>6 DEF Seen, Told
<1>8. WireOrdered' /\ AllFresh' /\ AllOwn' /\ QuietBefore'
  BY <1>1, <1>6, SeqFacts DEF DriverInv, WireOrdered, AllFresh, AllOwn, QuietBefore, Draining, Extra, Asking
<1>9. Accounted'
  BY <1>1, <1>6, <1>7 DEF DriverInv, Accounted, Extra, Asking
<1> QED BY <1>4, <1>5, <1>8, <1>9 DEF DriverInv

\* An exchange ends without success, waited for or given up.
LEMMA EndingStep ==
  ASSUME DriverInv, phase # "idle", phase' = "idle", call' = None,
         UNCHANGED <<usable, op, n, offset, drained, expired>>, UNCHANGED port,
         response' \in Seq(Byte), Len(response') <= response_length[op],
         outcome'.exchange = n, outcome'.observed \in Seq(Fresh), ~outcome'.accepted,
         AbandonedAlone'
  PROVE  DriverInv'
<1>1. ~usable' /\ UNCHANGED <<wire, taken, device, rxbuf, noise>>
  BY DEF DriverInv, Withdrawn, port
<1>2. StateTyped'
  BY DEF DriverInv, StateTyped, Phases
<1>3. PortTyped' /\ CallInStep' /\ Withdrawn'
  BY <1>1 DEF DriverInv, PortTyped, CallInStep, Withdrawn
<1>4. PhaseInStep' /\ AllFresh' /\ AllOwn' /\ QuietBefore' /\ Accounted'
  BY <1>1 DEF PhaseInStep, AllFresh, AllOwn, QuietBefore, Accounted, Draining, Extra, Asking
<1>5. WireOrdered'
  BY <1>1 DEF DriverInv, WireOrdered
<1>6. OutcomeInStep'
  BY DEF OutcomeInStep, DriverInv, StateTyped
<1> QED BY <1>2, <1>3, <1>4, <1>5, <1>6 DEF DriverInv

\* What an error reports was received in this exchange.
LEMMA ObservedIsFresh == DriverInv /\ phase # "idle" => Observed \in Seq(Fresh)
<1> SUFFICES ASSUME DriverInv, phase # "idle" PROVE Observed \in Seq(Fresh)
  OBVIOUS
<1>1. CASE Draining
  BY <1>1, SeqFacts DEF Observed, Draining
<1>2. CASE ~Draining
  <2>1. response \in Seq(Fresh) /\ drained \in Seq(Fresh)
    BY <1>2 DEF DriverInv, StateTyped, AllFresh, Asking, Extra, Draining, Phases, Drains
  <2>2. Observed = response \o drained
    BY <1>2 DEF Observed, Draining
  <2> QED BY <2>1, <2>2, SeqFacts
<1> QED BY <1>1, <1>2

\* While an exchange is under way nobody has been abandoned.
LEMMA NobodyAbandoned == DriverInv /\ phase # "idle" => abandoned = None
  BY DEF DriverInv, AbandonedAlone

\* An exchange that raises ends without an accepted answer.
LEMMA RaiseStep ==
  ASSUME DriverInv, phase # "idle", NEW kind, Raise(kind), UNCHANGED port, AbandonedAlone'
  PROVE  DriverInv'
<1>1. /\ phase' = "idle" /\ call' = None
      /\ UNCHANGED <<usable, op, n, offset, drained, expired>> /\ response' = response
  BY DEF Raise
<1>2. outcome'.exchange = n /\ outcome'.observed = Observed /\ ~outcome'.accepted
  BY Zenon DEF Raise, Finished
<1> QED BY <1>1, <1>2, ObservedIsFresh, EndingStep DEF DriverInv, StateTyped

\* _budget: no time is left for the next call.
LEMMA NoBudgetStep == DriverInv /\ NoBudget => DriverInv'
<1> SUFFICES ASSUME DriverInv, NoBudget PROVE DriverInv'
  OBVIOUS
<1>1. phase # "idle" /\ Raise("TransportTimeout") /\ UNCHANGED port /\ abandoned' = abandoned
  BY DEF NoBudget
<1>2. AbandonedAlone'
  BY <1>1, NobodyAbandoned DEF AbandonedAlone
<1> QED BY <1>1, <1>2, RaiseStep

\* A port operation raises.
LEMMA CallFailsStep == DriverInv /\ CallFails => DriverInv'
<1> SUFFICES ASSUME DriverInv, CallFails PROVE DriverInv'
  OBVIOUS
<1>1. phase # "idle" /\ Raise("TransportFailure") /\ UNCHANGED port /\ abandoned' = abandoned
  BY DEF CallFails, DriverInv, CallInStep
<1>2. AbandonedAlone'
  BY <1>1, NobodyAbandoned DEF AbandonedAlone
<1> QED BY <1>1, <1>2, RaiseStep

\* _call: the worker is not done at the deadline, and is left running.
LEMMA AbandonCallStep == DriverInv /\ AbandonCall => DriverInv'
<1> SUFFICES ASSUME DriverInv, AbandonCall PROVE DriverInv'
  OBVIOUS
<1>1. phase # "idle" /\ Raise("TransportTimeout") /\ UNCHANGED port /\ abandoned' = call /\ call # None
  BY DEF AbandonCall, DriverInv, CallInStep
<1>2. /\ phase' = "idle" /\ ~usable' /\ n' = n /\ wire' = wire
      /\ call \in CallRecord /\ call.exchange = n /\ n \in Nat
  BY <1>1, ConstantFacts DEF Raise, port, DriverInv, CallInStep, Withdrawn, StateTyped
<1>3. ASSUME call.phase = "write", NEW i \in 1..Len(wire)
      PROVE  wire[i].exchange < n \/ (wire[i].exchange = n /\ wire[i].index < call.first + call.moved)
  <2>1. /\ wire[i].exchange <= n /\ (wire[i].exchange = n => wire[i].index <= Sent)
        /\ wire[i].exchange \in Nat /\ wire[i].index \in Nat
    <3>1. wire[i] \in WireByte
      BY SeqFacts DEF DriverInv, PortTyped
    <3>2. wire[i].exchange \in Nat /\ wire[i].index \in Nat
      BY <3>1 DEF WireByte
    <3> QED BY <1>1, <3>2 DEF DriverInv, WireOrdered
  <2>2. Sent = offset + call.moved /\ call.first = offset + 1 /\ offset \in Nat /\ call.moved \in Nat
    BY <1>1, <1>3, ConstantFacts DEF Sent, DriverInv, CallInStep, StateTyped, CallRecord
  <2> QED BY <1>2, <2>1, <2>2
<1>4. AbandonedAlone'
  BY <1>1, <1>2, <1>3 DEF AbandonedAlone
<1> QED BY <1>1, <1>4, RaiseStep
-----------------------------------------------------------------------------
\* A call that has moved one more byte is the same call otherwise.
LEMMA MovedFacts ==
  ASSUME NEW c \in CallRecord, rxbuf \in Seq(Byte), c.phase \in Reads => rxbuf # <<>>
  PROVE  /\ Moved(c) \in CallRecord
         /\ Moved(c).phase = c.phase /\ Moved(c).first = c.first /\ Moved(c).exchange = c.exchange
         /\ Moved(c).want = c.want /\ Moved(c).moved = c.moved + 1
         /\ c.phase \in Reads => Moved(c).got = Append(c.got, Head(rxbuf))
         /\ c.phase \notin Reads => Moved(c).got = c.got
<1> DEFINE g == IF c.phase \in Reads THEN Append(c.got, Head(rxbuf)) ELSE c.got
<1>1. g \in Seq(Byte)
  BY SeqFacts DEF CallRecord
<1>2. Moved(c) = [c EXCEPT !.moved = @ + 1, !.got = g]
  BY DEF Moved
<1> HIDE DEF g
<1>3. Moved(c) \in CallRecord
  <2>1. c.moved + 1 \in Nat
    BY DEF CallRecord
  <2>2. Moved(c) = [phase |-> c.phase, moved |-> c.moved + 1, got |-> g, first |-> c.first,
                    exchange |-> c.exchange, want |-> c.want]
    BY <1>2 DEF CallRecord
  <2> QED BY <1>1, <2>1, <2>2 DEF CallRecord
<1>4. /\ Moved(c).phase = c.phase /\ Moved(c).first = c.first /\ Moved(c).exchange = c.exchange
      /\ Moved(c).want = c.want /\ Moved(c).moved = c.moved + 1 /\ Moved(c).got = g
  BY <1>1, <1>2 DEF CallRecord
<1> QED BY <1>3, <1>4 DEF g

\* What any running call, waited for or not, can do to the port.
LEMMA ProgressCases ==
  ASSUME DriverInv, NEW c \in CallRecord, Progress(c)
  PROVE  /\ UNCHANGED <<taken, device, noise>> /\ c.moved + 1 <= c.want
         /\ \/ /\ c.phase \in Reads /\ rxbuf # <<>> /\ rxbuf' = Tail(rxbuf) /\ wire' = wire
            \/ /\ c.phase = "write" /\ rxbuf' = rxbuf
               /\ wire' = Append(wire, [exchange |-> c.exchange, op |-> op,
                                        index |-> c.first + c.moved])
  BY DEF Progress, CallRecord
-----------------------------------------------------------------------------
\* The types of what is on the wire.
LEMMA WireFacts ==
  ASSUME DriverInv
  PROVE  \A i \in 1..Len(wire) : /\ wire[i] \in WireByte
                                 /\ wire[i].exchange \in Nat \ {0} /\ wire[i].op \in Operations
                                 /\ wire[i].index \in Nat \ {0}
<1>1. \A i \in 1..Len(wire) : wire[i] \in WireByte
  BY SeqFacts DEF DriverInv, PortTyped
<1> QED BY <1>1 DEF WireByte

\* A byte written is the last one on the wire.
LEMMA WireGrows ==
  ASSUME wire \in Seq(WireByte), NEW w, w \in WireByte, wire' = Append(wire, w)
  PROVE  /\ wire' \in Seq(WireByte) /\ Len(wire) \in Nat /\ Len(wire') = Len(wire) + 1
         /\ \A i \in 1..Len(wire) : wire'[i] = wire[i]
         /\ wire'[Len(wire) + 1] = w
  OBVIOUS

\* A running read takes a byte from the port's buffer.
LEMMA CallReadsStep ==
  ASSUME DriverInv, CallProgresses, call.phase \in Reads
  PROVE  DriverInv'
<1>1. /\ UNCHANGED <<usable, phase, op, n, offset, response, drained, expired, outcome, abandoned>>
      /\ call # None /\ phase # "idle" /\ Progress(call) /\ call' = Moved(call)
      /\ call \in CallRecord /\ call.phase = phase
  BY DEF CallProgresses, DriverInv, CallInStep
<1>2. /\ UNCHANGED <<taken, device, noise, wire>> /\ call.moved + 1 <= call.want
      /\ rxbuf # <<>> /\ rxbuf' = Tail(rxbuf)
  BY <1>1, ProgressCases DEF Reads
<1>3. abandoned = None
  BY <1>1, NobodyAbandoned
<1>4. rxbuf \in Seq(Byte)
  BY DEF DriverInv, PortTyped
<1>5. /\ call' \in CallRecord /\ call' # None /\ call'.phase = phase /\ call'.first = call.first
      /\ call'.exchange = call.exchange /\ call'.want = call.want /\ call'.moved = call.moved + 1
      /\ call'.got = Append(call.got, Head(rxbuf))
  BY <1>1, <1>2, <1>4, MovedFacts, CallAssumption
<1>6. /\ call.got \in Seq(Byte) /\ Len(call.got) \in Nat /\ Len(call'.got) = Len(call.got) + 1
      /\ rxbuf' \in Seq(Byte) /\ Len(rxbuf) \in Nat /\ Len(rxbuf') = Len(rxbuf) - 1
  <2>1. call.got \in Seq(Byte)
    BY <1>1 DEF CallRecord
  <2> QED BY <2>1, <1>2, <1>4, <1>5, SeqFacts
<1>7. StateTyped' /\ PortTyped' /\ Withdrawn' /\ AbandonedAlone' /\ PhaseInStep' /\ OutcomeInStep'
  BY <1>1, <1>2, <1>3, <1>6 DEF DriverInv, StateTyped, PortTyped, Withdrawn, AbandonedAlone, PhaseInStep,
       OutcomeInStep, Draining, Extra
<1>8. CallInStep'
  <2>1. call.moved \in Nat
    BY <1>1 DEF CallRecord
  <2> QED BY <1>1, <1>2, <1>5, <1>6, <2>1 DEF CallInStep, DriverInv
<1>9. /\ Sent' = Sent /\ Got = call.got /\ Got' = call'.got
  BY <1>1, <1>5 DEF Sent, Got, Reads
<1>10. Seen' = Seen /\ Told' = Told
  <2>1. Len(response) \in Nat /\ Len(drained) \in Nat
    BY SeqFacts DEF DriverInv, StateTyped
  <2>2. Len(Got) = Len(call.got) /\ Len(Got') = Len(call.got) + 1
    BY <1>6, <1>9
  <2>3. Seen' = Seen
    BY <1>1, <1>2, <1>6, <2>1, <2>2 DEF Seen
  <2> QED BY <1>1, <1>2, <1>9, <2>3 DEF Told
<1>11. WireOrdered' /\ QuietBefore'
  BY <1>1, <1>2, <1>9 DEF DriverInv, WireOrdered, QuietBefore, Draining
<1>12. ASSUME NEW S, rxbuf \in Seq(S), Got \in Seq(S) PROVE rxbuf' \in Seq(S) /\ Got' \in Seq(S)
  BY <1>12, <1>2, <1>5, <1>9, SeqFacts
<1>13. AllFresh'
  BY <1>1, <1>12 DEF AllFresh, DriverInv, Asking, Extra
<1>14. AllOwn'
  BY <1>1, <1>2, <1>12 DEF AllOwn, DriverInv, Asking, Extra
<1>15. Accounted'
  BY <1>1, <1>2, <1>9, <1>10 DEF Accounted, DriverInv, Asking, Extra
<1> QED BY <1>7, <1>8, <1>11, <1>13, <1>14, <1>15 DEF DriverInv

\* A running write puts the next request byte on the wire.
LEMMA CallWritesStep ==
  ASSUME DriverInv, CallProgresses, call.phase \notin Reads
  PROVE  DriverInv'
<1>1. /\ UNCHANGED <<usable, phase, op, n, offset, response, drained, expired, outcome, abandoned>>
      /\ call # None /\ phase # "idle" /\ Progress(call) /\ call' = Moved(call)
      /\ call \in CallRecord /\ call.phase = phase
      /\ call.exchange = n /\ call.first = offset + 1
  BY DEF CallProgresses, DriverInv, CallInStep
<1> DEFINE w == [exchange |-> n, op |-> op, index |-> offset + 1 + call.moved]
<1>2. /\ UNCHANGED <<taken, device, noise, rxbuf>> /\ call.moved + 1 <= call.want
      /\ phase = "write" /\ wire' = Append(wire, w)
  BY <1>1, ProgressCases DEF Reads
<1>3. abandoned = None
  BY <1>1, NobodyAbandoned
<1>4. rxbuf \in Seq(Byte) /\ Len(rxbuf) \in Nat
  BY SeqFacts DEF DriverInv, PortTyped
<1>5. /\ call' \in CallRecord /\ call' # None /\ call'.phase = phase /\ call'.first = call.first
      /\ call'.exchange = call.exchange /\ call'.want = call.want /\ call'.moved = call.moved + 1
      /\ call'.got = call.got
  BY <1>1, <1>4, MovedFacts, CallAssumption
<1>6. call.moved \in Nat /\ offset \in Nat /\ n \in Nat \ {0} /\ op \in Operations
  BY <1>1, ConstantFacts DEF CallRecord, DriverInv, StateTyped, Withdrawn
<1>7. w \in WireByte
  BY <1>6 DEF WireByte
<1>8. w.exchange = n /\ w.op = op /\ w.index = offset + 1 + call.moved
  OBVIOUS
<1> HIDE DEF w
<1>9. /\ wire' \in Seq(WireByte) /\ Len(wire) \in Nat /\ Len(wire') = Len(wire) + 1
      /\ \A i \in 1..Len(wire) : wire'[i] = wire[i]
      /\ wire'[Len(wire) + 1] = w
  BY <1>2, <1>7, WireGrows DEF DriverInv, PortTyped
<1>10. StateTyped' /\ Withdrawn' /\ AbandonedAlone' /\ PhaseInStep' /\ OutcomeInStep' /\ QuietBefore'
  BY <1>1, <1>2, <1>3 DEF DriverInv, StateTyped, Withdrawn, AbandonedAlone, PhaseInStep, OutcomeInStep,
       QuietBefore, Draining, Extra
<1>11. PortTyped'
  BY <1>2, <1>9 DEF DriverInv, PortTyped
<1>12. CallInStep'
  BY <1>1, <1>2, <1>5, <1>6 DEF CallInStep, DriverInv
<1>13. Sent = offset + call.moved /\ Sent' = Sent + 1 /\ Got = call.got /\ Got' = call.got
  BY <1>1, <1>2, <1>5, <1>6 DEF Sent, Got
<1>14. Seen' = Seen /\ Told' = Told
  <2>1. Seen' = Seen
    BY <1>1, <1>2, <1>13 DEF Seen
  <2>2. taken \in Nat /\ Sent \in Nat
    BY <1>6, <1>9, <1>13 DEF DriverInv, PortTyped
  <2> QED BY <1>2, <1>9, <1>13, <2>1, <2>2 DEF Told
<1>15. WireOrdered'
  <2>1. \A i \in 1..Len(wire) : /\ wire[i].exchange \in Nat /\ wire[i].index \in Nat
                                /\ wire[i].exchange <= n
                                /\ wire[i].exchange = n => wire[i].index <= Sent
    BY <1>1, WireFacts DEF DriverInv, WireOrdered
  <2>2. \A i \in 1..Len(wire') : i \in 1..Len(wire) \/ i = Len(wire) + 1
    BY <1>9
  <2>3. \A i \in 1..Len(wire') : wire'[i].exchange <= n'
    BY <1>1, <1>6, <1>8, <1>9, <2>1, <2>2
  <2>4. \A i \in 1..Len(wire') : wire'[i].exchange = n' => wire'[i].index <= Sent'
    <3>1. Sent \in Nat /\ Sent' = offset + call.moved + 1
      BY <1>6, <1>13
    <3>2. ASSUME NEW i \in 1..Len(wire), wire'[i].exchange = n' PROVE wire'[i].index <= Sent'
      BY <3>1, <3>2, <1>1, <1>9, <1>13, <2>1
    <3>3. wire'[Len(wire) + 1].index <= Sent'
      BY <3>1, <1>6, <1>8, <1>9
    <3> QED BY <3>2, <3>3, <2>2
  <2>5. ASSUME NEW i \in 1..Len(wire'), NEW j \in 1..Len(wire'), i < j
        PROVE  \/ wire'[i].exchange < wire'[j].exchange
               \/ wire'[i].exchange = wire'[j].exchange /\ wire'[i].index < wire'[j].index
    <3>1. CASE j \in 1..Len(wire)
      <4>1. i \in 1..Len(wire)
        BY <2>5, <3>1, <1>9
      <4> QED BY <4>1, <3>1, <2>5, <1>9 DEF DriverInv, WireOrdered
    <3>2. CASE j = Len(wire) + 1
      <4>1. i \in 1..Len(wire)
        BY <2>5, <3>2, <1>9
      <4>2. wire'[j].exchange = n /\ wire'[j].index = Sent + 1 /\ wire'[i] = wire[i] /\ Sent \in Nat
        <5>1. wire'[j] = w /\ wire'[i] = wire[i]
          BY <4>1, <3>2, <1>9
        <5>2. Sent \in Nat /\ offset + 1 + call.moved = Sent + 1
          BY <1>6, <1>13
        <5> QED BY <5>1, <5>2, <1>8
      <4> QED BY <4>1, <4>2, <2>1, <1>6
    <3> QED BY <3>1, <3>2, <2>2
  <2> QED BY <2>3, <2>4, <2>5 DEF WireOrdered
<1>16. AllFresh' /\ AllOwn'
  BY <1>1, <1>2, <1>13 DEF AllFresh, AllOwn, DriverInv, Asking, Extra
<1>17. Accounted'
  <2>1. \A i \in 1..Len(wire') : i > Len(wire') - Sent' =>
            (i \in 1..Len(wire) /\ i > Len(wire) - Sent) \/ i = Len(wire) + 1
    BY <1>6, <1>9, <1>13
  <2> SUFFICES ASSUME noise = 0, Asking PROVE Accounted'
    BY <1>1, <1>2 DEF Accounted, Asking, Extra
  <2>2. \A i \in 1..Len(wire') : i > Len(wire') - Sent' => wire'[i].exchange = n /\ wire'[i].op = op
    BY <2>1, <1>8, <1>9 DEF DriverInv, Accounted
  <2> QED BY <2>2, <1>1, <1>2, <1>14 DEF Accounted, DriverInv, Extra
<1> QED BY <1>10, <1>11, <1>12, <1>15, <1>16, <1>17 DEF DriverInv

\* A running call moves a byte.
LEMMA CallProgressesStep == DriverInv /\ CallProgresses => DriverInv'
  BY CallReadsStep, CallWritesStep
-----------------------------------------------------------------------------
\* A call returns and the exchange goes on.
LEMMA ReturnStep ==
  ASSUME DriverInv, call # None, call' = None, UNCHANGED <<usable, op, n, expired, outcome>>,
         UNCHANGED port, abandoned' = abandoned,
         phase' \in Phases, phase' # "idle", Draining' => Draining,
         offset' \in 0..RequestLength[op], offset' = Sent,
         response' \in Seq(Byte), drained' \in Seq(Byte), Len(response') <= response_length[op],
         PhaseInStep',
         AllFresh', AllOwn', Accounted'
  PROVE  DriverInv'
<1>1. UNCHANGED <<wire, taken, device, rxbuf, noise>>
  BY DEF port
<1>2. phase # "idle" /\ abandoned = None
  BY NobodyAbandoned DEF DriverInv, CallInStep
<1>3. StateTyped' /\ PortTyped' /\ CallInStep' /\ Withdrawn' /\ AbandonedAlone' /\ QuietBefore'
  BY <1>1, <1>2 DEF DriverInv, StateTyped, PortTyped, CallInStep, Withdrawn, AbandonedAlone, QuietBefore
<1>4. OutcomeInStep'
  BY <1>1, <1>2 DEF DriverInv, OutcomeInStep, Withdrawn
<1>5. Sent' = Sent
  BY ConstantFacts DEF Sent, DriverInv, StateTyped
<1>6. WireOrdered'
  BY <1>1, <1>2, <1>5 DEF DriverInv, WireOrdered
<1> QED BY <1>3, <1>4, <1>6 DEF DriverInv

\* Sent before and after a return, outside a write.
LEMMA NotWriting == DriverInv /\ phase # "write" => Sent = offset
  BY ConstantFacts DEF Sent, DriverInv, StateTyped

\* The account is kept by a step that moves no byte of the exchange.
LEMMA AccountedKept ==
  ASSUME DriverInv, Asking, UNCHANGED port, UNCHANGED <<op, n>>, Sent' = Sent, Seen' = Seen,
         Extra' /\ response_length[op] = 0 => taken = Len(wire)
  PROVE  Accounted'
<1>1. UNCHANGED <<wire, taken, device, rxbuf, noise>> /\ Told' = Told
  BY DEF port, Told
<1> QED BY <1>1 DEF Accounted, DriverInv

\* What the call in progress is, for its return.
LEMMA CallFacts ==
  ASSUME DriverInv, call # None
  PROVE  /\ phase # "idle" /\ call.phase = phase /\ Got = call.got
         /\ call.got \in Seq(Byte) /\ Len(call.got) \in Nat /\ call.moved \in Nat
         /\ phase \notin Reads => Len(call.got) = 0
         /\ Len(response) \in Nat /\ Len(drained) \in Nat /\ Len(rxbuf) \in Nat
  BY SeqFacts DEF DriverInv, CallInStep, CallRecord, Got, StateTyped, PortTyped

\* in_waiting returns: drain what is there, go on, or look for surplus bytes.
LEMMA CountReturnsStep == DriverInv /\ CountReturns => DriverInv'
<1> SUFFICES ASSUME DriverInv, CountReturns PROVE DriverInv'
  OBVIOUS
<1>1. /\ call # None /\ call' = None /\ UNCHANGED <<usable, op, n, expired, outcome, offset, response>>
      /\ UNCHANGED port /\ abandoned' = abandoned /\ call.phase = phase
      /\ UNCHANGED <<wire, taken, device, rxbuf, noise>>
  BY CallFacts DEF CountReturns, port
<1>2. Len(call.got) = 0 /\ Got = call.got /\ Got' = <<>>
  BY <1>1, CallFacts DEF Got, CountReturns, Reads
<1>3. Sent = offset /\ offset \in Nat /\ op \in Operations
  BY <1>1, NotWriting, ConstantFacts DEF CountReturns, DriverInv, StateTyped
<1>4. CASE phase = "drain_count" /\ rxbuf # <<>>
  <2>1. phase' = "drain_read" /\ drained' = drained
    BY <1>1, <1>4 DEF CountReturns
  <2>2. PhaseInStep' /\ AllFresh' /\ AllOwn' /\ Accounted'
    BY <1>1, <1>4, <2>1 DEF PhaseInStep, AllFresh, AllOwn, Accounted, Asking, Extra, Draining, DriverInv
  <2> QED BY <1>1, <1>3, <1>4, <2>1, <2>2, ReturnStep DEF DriverInv, StateTyped, Draining, Phases, Drains
<1>5. CASE phase = "extra_count" /\ rxbuf # <<>>
  <2>1. phase' = "extra_read" /\ drained' = drained
    BY <1>1, <1>5 DEF CountReturns
  <2>2. PhaseInStep'
    BY <1>1, <1>5, <2>1 DEF PhaseInStep, Extra, Draining, DriverInv
  <2>3. AllFresh' /\ AllOwn'
    BY <1>1, <1>2, <1>5, <2>1, SeqFacts DEF AllFresh, AllOwn, Asking, Extra, DriverInv
  <2>4. Seen' = Seen /\ Sent' = Sent
    BY <1>1, <1>2, <1>3, <2>1, LenEmpty DEF Seen, Sent
  <2>5. Extra /\ Asking
    BY <1>5 DEF Asking, Extra
  <2>6. Accounted'
    <3>1. CASE noise = 0
      BY <3>1, <1>1, <2>4, <2>5, AccountedKept DEF DriverInv, Accounted
    <3>2. CASE noise # 0
      BY <3>2, <1>1 DEF Accounted
    <3> QED BY <3>1, <3>2
  <2> QED BY <1>1, <1>3, <1>5, <2>1, <2>2, <2>3, <2>6, ReturnStep DEF DriverInv, StateTyped, Draining, Phases, Drains
<1>6. CASE phase = "drain_count" /\ rxbuf = <<>>
  <2>1. phase' = "write" /\ drained' = <<>>
    BY <1>1, <1>6 DEF CountReturns
  <2>2. response = <<>> /\ offset = 0
    BY <1>6 DEF DriverInv, PhaseInStep, Draining
  <2>3. PhaseInStep' /\ AllFresh' /\ AllOwn'
    BY <1>1, <1>2, <1>6, <2>1, <2>2, SeqFacts DEF PhaseInStep, AllFresh, AllOwn, Asking, Extra, Draining
  <2>4. Accounted'
    <3> SUFFICES ASSUME noise = 0 PROVE Accounted'
      BY <1>1 DEF Accounted
    <3>1. device.needs = 0 /\ device.owes = 0 /\ taken = Len(wire) /\ taken \in Nat
      BY <1>6 DEF DriverInv, QuietBefore, Draining, PortTyped
    <3>2. Sent' = 0 /\ Seen' = 0
      BY <1>1, <1>2, <1>6, <2>1, <2>2, LenEmpty DEF Sent, Seen
    <3>3. Told' = 0
      BY <1>1, <3>1, <3>2 DEF Told
    <3>4. RequestLength[op] > 0
      BY <1>3, ConstantFacts
    <3> QED BY <1>1, <2>1, <3>1, <3>2, <3>3, <3>4 DEF Accounted, Extra
  <2>5. <<>> \in Seq(Byte)
    OBVIOUS
  <2> QED BY <1>1, <1>3, <2>1, <2>2, <2>3, <2>4, <2>5, ReturnStep DEF DriverInv, StateTyped, Draining, Phases
<1> QED BY <1>1, <1>4, <1>5, <1>6 DEF CountReturns

\* A read of stale or surplus bytes returns.
LEMMA DrainReturnsStep == DriverInv /\ DrainReturns => DriverInv'
<1> SUFFICES ASSUME DriverInv, DrainReturns PROVE DriverInv'
  OBVIOUS
<1>1. /\ call # None /\ call' = None /\ UNCHANGED <<usable, op, n, expired, outcome, offset, response>>
      /\ UNCHANGED port /\ abandoned' = abandoned /\ call.phase = phase
      /\ UNCHANGED <<wire, taken, device, rxbuf, noise>> /\ drained' = drained \o call.got
  BY CallFacts DEF DrainReturns, port
<1>2. Got = call.got /\ Got' = <<>> /\ call.got \in Seq(Byte)
  BY <1>1, CallFacts DEF Got
<1>3. Sent = offset /\ offset \in Nat /\ op \in Operations
  BY <1>1, NotWriting, ConstantFacts DEF DrainReturns, DriverInv, StateTyped
<1>4. drained' \in Seq(Byte) /\ Len(drained') = Len(drained) + Len(Got)
  BY <1>1, <1>2, SeqFacts DEF DriverInv, StateTyped
<1>5. CASE phase = "drain_read"
  <2>1. phase' = "drain_count"
    BY <1>1, <1>5 DEF DrainReturns
  <2>2. PhaseInStep' /\ AllFresh' /\ AllOwn' /\ Accounted'
    BY <1>1, <1>5, <2>1 DEF PhaseInStep, AllFresh, AllOwn, Accounted, Asking, Extra, Draining, DriverInv
  <2> QED BY <1>1, <1>3, <1>4, <1>5, <2>1, <2>2, ReturnStep DEF DriverInv, StateTyped, Draining, Phases, Drains
<1>6. CASE phase = "extra_read"
  <2>1. phase' = "extra_count"
    BY <1>1, <1>6 DEF DrainReturns
  <2>2. PhaseInStep'
    BY <1>1, <1>6, <2>1 DEF PhaseInStep, Extra, Draining, DriverInv
  <2>3. ASSUME NEW S, drained \in Seq(S), Got \in Seq(S)
        PROVE  drained' \in Seq(S) /\ Got' \in Seq(S)
    BY <2>3, <1>1, <1>2, SeqFacts
  <2>4. AllFresh'
    BY <1>1, <1>6, <2>1, <2>3 DEF AllFresh, Asking, Extra, DriverInv
  <2>5. AllOwn'
    BY <1>1, <1>6, <2>1, <2>3 DEF AllOwn, Asking, Extra, DriverInv
  <2>6. Seen' = Seen /\ Sent' = Sent
    <3>1. Len(Got') = 0 /\ Len(Got) \in Nat /\ Len(drained) \in Nat
      BY <1>1, <1>2, LenEmpty, CallFacts
    <3>2. Seen' = Seen
      BY <1>1, <1>4, <3>1, CallFacts DEF Seen
    <3> QED BY <1>1, <1>3, <2>1, <3>2 DEF Sent
  <2>7. Extra /\ Asking
    BY <1>6 DEF Asking, Extra
  <2>8. Accounted'
    <3>1. CASE noise = 0
      BY <3>1, <1>1, <2>6, <2>7, AccountedKept DEF DriverInv, Accounted
    <3>2. CASE noise # 0
      BY <3>2, <1>1 DEF Accounted
    <3> QED BY <3>1, <3>2
  <2> QED BY <1>1, <1>3, <1>4, <1>6, <2>1, <2>2, <2>4, <2>5, <2>8, ReturnStep
          DEF DriverInv, StateTyped, Draining, Phases, Drains
<1> QED BY <1>1, <1>5, <1>6 DEF DrainReturns

\* A write returns, of all or of a part of the request.
LEMMA WriteReturnsStep == DriverInv /\ WriteReturns => DriverInv'
<1> SUFFICES ASSUME DriverInv, WriteReturns PROVE DriverInv'
  OBVIOUS
<1>1. /\ call # None /\ call' = None /\ UNCHANGED <<usable, op, n, expired, outcome, drained, response>>
      /\ UNCHANGED port /\ abandoned' = abandoned /\ phase = "write" /\ call.phase = phase
      /\ UNCHANGED <<wire, taken, device, rxbuf, noise>>
      /\ offset' = offset + call.moved
      /\ phase' = IF offset' = RequestLength[op] THEN PhaseAfterWrite ELSE "write"
  BY CallFacts DEF WriteReturns, OffsetAfter, port
<1>2. Got = call.got /\ Got' = <<>> /\ Len(Got) = 0 /\ Len(Got') = 0
  BY <1>1, CallFacts, LenEmpty DEF Got, Reads
<1>3. Sent = offset' /\ Sent' = offset' /\ op \in Operations
  BY <1>1, CallFacts, ConstantFacts DEF Sent, DriverInv, StateTyped
<1>4. offset' \in 0..RequestLength[op]
  BY <1>1, <1>3, CallFacts, ConstantFacts DEF DriverInv, StateTyped, CallInStep
<1>5. /\ phase' \in {"write", "flush", "read"}
      /\ phase' # "write" => offset' = RequestLength[op]
      /\ phase' = "flush" => response_length[op] = 0
      /\ phase' = "read" => response_length[op] > 0
  BY <1>1, <1>3, ConstantFacts DEF PhaseAfterWrite
<1>6. response = <<>> /\ drained = <<>>
  BY <1>1 DEF DriverInv, PhaseInStep
<1>7. PhaseInStep'
  BY <1>1, <1>5, <1>6 DEF PhaseInStep, Draining, Extra
<1>8. AllFresh' /\ AllOwn'
  BY <1>1, <1>2, <1>5, SeqFacts DEF AllFresh, AllOwn, Asking, Extra, DriverInv
<1>9. Accounted'
  <2>1. Seen' = Seen /\ Sent' = Sent
    BY <1>1, <1>2, <1>3 DEF Seen
  <2>2. Asking /\ ~Extra'
    BY <1>1, <1>5 DEF Asking, Extra
  <2> QED BY <1>1, <2>1, <2>2, AccountedKept
<1> QED BY <1>1, <1>3, <1>4, <1>5, <1>7, <1>8, <1>9, ReturnStep
        DEF DriverInv, StateTyped, Draining, Phases

\* flush returns.
LEMMA FlushReturnsStep == DriverInv /\ FlushReturns => DriverInv'
<1> SUFFICES ASSUME DriverInv, FlushReturns PROVE DriverInv'
  OBVIOUS
<1>1. /\ call # None /\ call' = None
      /\ UNCHANGED <<usable, op, n, expired, outcome, offset, drained, response>>
      /\ UNCHANGED port /\ abandoned' = abandoned /\ phase = "flush" /\ call.phase = phase
      /\ UNCHANGED <<wire, taken, device, rxbuf, noise>> /\ taken = Len(wire)
      /\ phase' = "extra_count"
  BY CallFacts DEF FlushReturns, port
<1>2. Got = call.got /\ Got' = <<>> /\ Len(Got) = 0 /\ Len(Got') = 0
  BY <1>1, CallFacts, LenEmpty DEF Got, Reads
<1>3. Sent = offset /\ Sent' = offset
  BY <1>1, NotWriting, ConstantFacts DEF Sent, DriverInv, StateTyped
<1>4. PhaseInStep'
  BY <1>1, LenEmpty DEF PhaseInStep, DriverInv, Draining, Extra
<1>5. AllFresh' /\ AllOwn'
  BY <1>1, <1>2, SeqFacts DEF AllFresh, AllOwn, Asking, Extra, DriverInv
<1>6. Accounted'
  <2>1. Seen' = Seen /\ Asking
    BY <1>1, <1>2 DEF Seen, Asking
  <2> QED BY <1>1, <1>3, <2>1, AccountedKept
<1> QED BY <1>1, <1>3, <1>4, <1>5, <1>6, ReturnStep DEF DriverInv, StateTyped, Draining, Phases, Drains

\* A read of the response returns, short or whole.
LEMMA ReadReturnsStep == DriverInv /\ ReadReturns => DriverInv'
<1> SUFFICES ASSUME DriverInv, ReadReturns PROVE DriverInv'
  OBVIOUS
<1> DEFINE data == response \o call.got
<1>1. /\ call # None /\ call' = None /\ UNCHANGED <<usable, op, n, expired, offset, drained>>
      /\ UNCHANGED port /\ abandoned' = abandoned /\ phase = "read" /\ call.phase = phase
      /\ UNCHANGED <<wire, taken, device, rxbuf, noise>> /\ response' = data
  BY CallFacts DEF ReadReturns, port
<1>2. /\ Got = call.got /\ Got' = <<>> /\ Len(Got') = 0 /\ drained = <<>>
      /\ Sent = offset /\ offset = RequestLength[op] /\ op \in Operations /\ offset \in Nat
  BY <1>1, CallFacts, LenEmpty, NotWriting, ConstantFacts DEF Got, DriverInv, PhaseInStep, StateTyped
<1>3. /\ data \in Seq(Byte) /\ Len(data) = Len(response) + Len(call.got)
      /\ Len(data) <= response_length[op]
  <2>1. data \in Seq(Byte) /\ Len(data) = Len(response) + Len(call.got)
    BY <1>1, CallFacts, SeqFacts DEF DriverInv, StateTyped
  <2>2. /\ Len(call.got) = call.moved /\ call.moved <= call.want
        /\ call.want = response_length[op] - Len(response)
    BY <1>1 DEF DriverInv, CallInStep, Reads
  <2> QED BY <1>1, <1>2, <2>1, <2>2, CallFacts, ConstantFacts
<1>4. ASSUME NEW S, response \in Seq(S), Got \in Seq(S) PROVE data \in Seq(S)
  BY <1>4, <1>2, SeqFacts
<1>5. data \in Seq(Fresh)
  BY <1>1, <1>4 DEF DriverInv, AllFresh, Asking
<1>6. AbandonedAlone'
  BY <1>1, NobodyAbandoned, CallFacts DEF AbandonedAlone
<1>7. CASE \E kind : outcome' = Finished(kind, data, FALSE) /\ phase' = "idle"
  <2>1. outcome'.exchange = n /\ outcome'.observed = data /\ ~outcome'.accepted
    <3> HIDE DEF data
    <3>1. PICK kind : outcome' = Finished(kind, data, FALSE)
      BY <1>7
    <3> QED BY <3>1, Zenon DEF Finished
  <2> QED BY <1>1, <1>3, <1>5, <1>6, <1>7, <2>1, EndingStep
<1>8. CASE /\ outcome' = outcome
           /\ \/ phase' = "read"
              \/ phase' = "extra_count" /\ Len(data) = response_length[op]
  <2>1. response_length[op] > 0
    BY <1>1 DEF DriverInv, PhaseInStep
  <2>2. PhaseInStep'
    BY <1>1, <1>2, <1>8, <2>1 DEF PhaseInStep, Draining, Extra
  <2>3. ASSUME NEW S, rxbuf \in Seq(S), response \in Seq(S), Got \in Seq(S), drained \in Seq(S)
        PROVE  rxbuf' \in Seq(S) /\ response' \in Seq(S) /\ Got' \in Seq(S) /\ drained' \in Seq(S)
    BY <2>3, <1>1, <1>2, <1>4, SeqFacts
  <2>4. AllFresh'
    BY <1>1, <2>3 DEF AllFresh, Asking, Extra, DriverInv
  <2>5. AllOwn'
    BY <1>1, <2>3 DEF AllOwn, Asking, Extra, DriverInv
  <2>6. Seen' = Seen
    BY <1>1, <1>2, <1>3, CallFacts DEF Seen
  <2>7. Sent' = Sent
    BY <1>1, <1>2, <1>8 DEF Sent
  <2>8. Accounted'
    BY <1>1, <2>1, <2>6, <2>7, AccountedKept DEF Asking
  <2> HIDE DEF data
  <2> QED BY <1>1, <1>2, <1>3, <1>8, <2>2, <2>4, <2>5, <2>8, ReturnStep
          DEF DriverInv, StateTyped, Draining, Phases, Drains
<1> QED BY <1>7, <1>8 DEF ReadReturns

\* The last look for surplus bytes: the answer is accepted, or the exchange raises.
LEMMA ExtraEndsStep == DriverInv /\ ExtraEnds => DriverInv'
<1> SUFFICES ASSUME DriverInv, ExtraEnds PROVE DriverInv'
  OBVIOUS
<1>1. /\ call # None /\ call' = None /\ UNCHANGED <<op, n, expired, offset, drained, response>>
      /\ UNCHANGED port /\ abandoned' = abandoned /\ phase = "extra_count" /\ call.phase = phase
      /\ UNCHANGED <<wire, taken, device, rxbuf, noise>> /\ rxbuf = <<>> /\ phase' = "idle"
  BY CallFacts DEF ExtraEnds, port
<1>2. abandoned = None /\ ~usable
  BY <1>1, NobodyAbandoned DEF DriverInv, Withdrawn
<1>3. AbandonedAlone'
  BY <1>1, <1>2 DEF AbandonedAlone
<1>4. CASE drained # <<>>
  <2>1. usable' = usable
    BY <1>2, <1>4, Zenon DEF ExtraEnds, DriverInv, StateTyped
  <2>2. outcome'.exchange = n /\ outcome'.observed = Observed /\ ~outcome'.accepted
    BY <1>4, Zenon DEF ExtraEnds, Finished
  <2> QED BY <1>1, <1>3, <2>1, <2>2, ObservedIsFresh, EndingStep DEF DriverInv, StateTyped
<1>5. CASE drained = <<>>
  <2>1. usable' /\ usable' \in BOOLEAN
    BY <1>5, Zenon DEF ExtraEnds
  <2>2. outcome'.exchange = n /\ outcome'.observed = response
    BY <1>5, Zenon DEF ExtraEnds, Finished
  <2>3. StateTyped'
    BY <1>1, <2>1 DEF DriverInv, StateTyped, Phases
  <2>4. PortTyped' /\ CallInStep' /\ Withdrawn' /\ PhaseInStep' /\ AllFresh' /\ AllOwn' /\ Accounted'
    BY <1>1 DEF DriverInv, PortTyped, CallInStep, Withdrawn, PhaseInStep, AllFresh, AllOwn, Accounted,
                Asking, Extra, Draining
  <2>5. WireOrdered'
    BY <1>1 DEF DriverInv, WireOrdered
  <2>6. OutcomeInStep'
    <3>1. outcome'.observed \in Seq(Fresh) /\ (noise = 0 => outcome'.observed \in Seq(Own(n)))
      BY <1>1, <2>2 DEF DriverInv, AllFresh, AllOwn, Asking, Extra
    <3>2. n \in Nat
      BY ConstantFacts DEF DriverInv, StateTyped
    <3> QED BY <1>1, <2>1, <2>2, <3>1, <3>2 DEF OutcomeInStep
  <2>7. ASSUME noise = 0 PROVE device.needs = 0 /\ device.owes = 0 /\ taken = Len(wire)
    <3>1. Len(Got) = 0 /\ Len(rxbuf) = 0 /\ Len(drained) = 0
      BY <1>1, <1>5, CallFacts, LenEmpty DEF Reads
    <3>2. /\ Len(response) = response_length[op] /\ response_length[op] \in Nat
          /\ offset = RequestLength[op] /\ RequestLength[op] \in Nat \ {0} /\ Sent = offset
      BY <1>1, NotWriting, ConstantFacts DEF DriverInv, PhaseInStep, Extra, StateTyped
    <3>3. Seen = response_length[op]
      BY <3>1, <3>2 DEF Seen
    <3>4. taken \in 0..Len(wire) /\ device.owes \in Nat /\ Len(wire) \in Nat
      BY SeqFacts DEF DriverInv, PortTyped, Device
    <3>5. /\ Told < RequestLength[op] => Seen = 0
          /\ Told = RequestLength[op] => device.needs = 0 /\ device.owes + Seen = response_length[op]
          /\ response_length[op] = 0 => taken = Len(wire)
      BY <2>7, <1>1 DEF DriverInv, Accounted, Asking, Extra
    <3>6. Told = RequestLength[op]
      BY <3>2, <3>3, <3>4, <3>5 DEF Told
    <3> QED BY <3>2, <3>3, <3>4, <3>5, <3>6 DEF Told
  <2>8. QuietBefore'
    BY <1>1, <2>7 DEF QuietBefore
  <2> QED BY <1>3, <2>3, <2>4, <2>5, <2>6, <2>8 DEF DriverInv
<1> QED BY <1>4, <1>5
-----------------------------------------------------------------------------
\* exchange() is called on a usable driver.
LEMMA BeginExchangeStep ==
  ASSUME DriverInv, NEW operation \in Operations, BeginExchange(operation)
  PROVE  DriverInv'
<1>1. /\ phase = "idle" /\ n < MaxExchanges /\ usable /\ op' = operation /\ n' = n + 1 /\ ~usable'
      /\ usable' \in BOOLEAN /\ expired' \in BOOLEAN
      /\ phase' = "drain_count" /\ offset' = 0 /\ response' = <<>> /\ drained' = <<>>
      /\ UNCHANGED <<call, outcome, abandoned>> /\ UNCHANGED <<wire, taken, device, rxbuf, noise>>
  BY Zenon DEF BeginExchange, UsableDuring, port
<1>2. call = None /\ abandoned = None /\ n \in Nat /\ n' \in 0..MaxExchanges
  BY <1>1, ConstantFacts DEF DriverInv, CallInStep, AbandonedAlone, StateTyped
<1>3. StateTyped'
  BY <1>1, <1>2, SeqFacts, LenEmpty, ConstantFacts DEF StateTyped, Phases, Drains
<1>4. PortTyped' /\ CallInStep' /\ Withdrawn' /\ AbandonedAlone' /\ PhaseInStep' /\ AllFresh'
      /\ AllOwn' /\ Accounted'
  BY <1>1, <1>2 DEF DriverInv, PortTyped, CallInStep, Withdrawn, AbandonedAlone, PhaseInStep, AllFresh,
              AllOwn, Accounted, Draining, Extra, Asking
<1>5. WireOrdered'
  <2>1. \A i \in 1..Len(wire) : wire[i].exchange \in Nat /\ wire[i].exchange <= n
    BY WireFacts DEF DriverInv, WireOrdered
  <2>2. \A i \in 1..Len(wire') : wire'[i].exchange <= n' /\ wire'[i].exchange # n'
    BY <1>1, <1>2, <2>1
  <2> QED BY <1>1, <2>2 DEF DriverInv, WireOrdered
<1>6. QuietBefore'
  BY <1>1 DEF DriverInv, QuietBefore
<1>7. OutcomeInStep'
  BY <1>1, <1>2 DEF DriverInv, OutcomeInStep
<1> QED BY <1>3, <1>4, <1>5, <1>6, <1>7 DEF DriverInv

\* exchange() is called on a driver that is no longer usable.
LEMMA RefuseExchangeStep == DriverInv /\ RefuseExchange => DriverInv'
<1> SUFFICES ASSUME DriverInv, RefuseExchange PROVE DriverInv'
  OBVIOUS
<1>1. /\ phase = "idle" /\ n < MaxExchanges /\ ~usable /\ n' = n + 1
      /\ UNCHANGED <<usable, phase, op, offset, response, drained, expired, call, abandoned>>
      /\ UNCHANGED <<wire, taken, device, rxbuf, noise>>
  BY DEF RefuseExchange, port
<1>2. outcome'.exchange = n + 1 /\ outcome'.observed = <<>> /\ ~outcome'.accepted
  BY Zenon DEF RefuseExchange
<1>3. n \in Nat /\ n' \in 0..MaxExchanges
  BY <1>1, ConstantFacts DEF DriverInv, StateTyped
<1>4. StateTyped'
  BY <1>1, <1>3 DEF DriverInv, StateTyped
<1>5. PortTyped' /\ CallInStep' /\ Withdrawn' /\ PhaseInStep' /\ AllFresh'
      /\ AllOwn' /\ Accounted' /\ QuietBefore'
  BY <1>1 DEF DriverInv, PortTyped, CallInStep, Withdrawn, PhaseInStep, AllFresh,
              AllOwn, Accounted, QuietBefore, Draining, Extra, Asking
<1>6. AbandonedAlone'
  BY <1>1, <1>3 DEF DriverInv, AbandonedAlone, CallRecord
<1>7. WireOrdered'
  <2>1. \A i \in 1..Len(wire) : wire[i].exchange \in Nat /\ wire[i].exchange <= n
    BY WireFacts DEF DriverInv, WireOrdered
  <2> QED BY <1>1, <1>3, <2>1 DEF DriverInv, WireOrdered
<1>8. OutcomeInStep'
  BY <1>1, <1>2, <1>3, SeqFacts DEF OutcomeInStep
<1> QED BY <1>4, <1>5, <1>6, <1>7, <1>8 DEF DriverInv
-----------------------------------------------------------------------------
\* A step of the port or the device alone, while nothing is written.
LEMMA PortStep ==
  ASSUME DriverInv, UNCHANGED driver, abandoned' = abandoned, wire' = wire,
         PortTyped', AllFresh', AllOwn', QuietBefore', Accounted', noise' = 0 => noise = 0
  PROVE  DriverInv'
<1>1. UNCHANGED <<usable, phase, op, n, offset, response, drained, expired, call, outcome>>
  BY DEF driver
<1>2. StateTyped' /\ CallInStep' /\ Withdrawn' /\ AbandonedAlone' /\ PhaseInStep'
  BY <1>1 DEF DriverInv, StateTyped, CallInStep, Withdrawn, AbandonedAlone, PhaseInStep, Draining, Extra
<1>3. OutcomeInStep'
  BY <1>1 DEF DriverInv, OutcomeInStep
<1>4. WireOrdered'
  BY <1>1 DEF DriverInv, WireOrdered, Sent
<1> QED BY <1>2, <1>3, <1>4 DEF DriverInv

\* A byte arrives at the host.
LEMMA ByteArrives ==
  ASSUME NEW S, NEW b \in S, rxbuf \in Seq(S), rxbuf' = Append(rxbuf, b)
  PROVE  rxbuf' \in Seq(S) /\ Len(rxbuf) \in Nat /\ Len(rxbuf') = Len(rxbuf) + 1
  BY SeqFacts

\* A byte of no exchange arrives.
LEMMA LineNoiseStep == DriverInv /\ LineNoise => DriverInv'
<1> SUFFICES ASSUME DriverInv, LineNoise PROVE DriverInv'
  OBVIOUS
<1>1. /\ UNCHANGED driver /\ abandoned' = abandoned /\ UNCHANGED <<wire, taken, device>>
      /\ noise' = noise + 1
      /\ UNCHANGED <<phase, call, response, drained>>
  BY DEF LineNoise, driver
<1>2. noise \in Nat /\ noise' \in Nat /\ noise' # 0
  BY <1>1 DEF DriverInv, PortTyped
<1> DEFINE b == [exchange |-> Noise, good |-> FALSE]
<1>3. b \in Fresh
  <2>1. Noise \in Int /\ Noise # 0 /\ FALSE \in BOOLEAN
    BY DEF Noise
  <2> QED BY <2>1, ByteFacts, Zenon
<1>4. b \in Byte /\ rxbuf' = Append(rxbuf, b)
  BY <1>3, ByteFacts, Zenon DEF LineNoise
<1> HIDE DEF b
<1>5. PortTyped'
  BY <1>1, <1>2, <1>4, ByteArrives DEF DriverInv, PortTyped
<1>6. AllFresh'
  BY <1>1, <1>3, <1>4, ByteArrives DEF AllFresh, DriverInv, Asking, Extra, Got
<1>7. AllOwn' /\ QuietBefore' /\ Accounted'
  BY <1>2 DEF AllOwn, QuietBefore, Accounted
<1> QED BY <1>1, <1>2, <1>5, <1>6, <1>7, PortStep

\* The device sends a byte of its answer.
LEMMA DeviceEmitsStep == DriverInv /\ DeviceEmits => DriverInv'
<1> SUFFICES ASSUME DriverInv, DeviceEmits PROVE DriverInv'
  OBVIOUS
<1>1. /\ UNCHANGED driver /\ abandoned' = abandoned /\ UNCHANGED <<wire, taken, noise>>
      /\ UNCHANGED <<usable, phase, op, n, offset, call, response, drained>>
      /\ device.owes > 0 /\ device' = [device EXCEPT !.owes = @ - 1]
  BY DEF DeviceEmits, driver
<1>2. /\ device.exchange \in Nat /\ device.exchange # 0 /\ device.owes \in Nat /\ device.needs \in Nat
      /\ device' \in Device /\ device'.owes = device.owes - 1 /\ device'.needs = device.needs
      /\ device'.exchange = device.exchange /\ device'.op = device.op
  BY <1>1 DEF DriverInv, PortTyped, Device
<1>3. PICK good \in BOOLEAN : rxbuf' = Append(rxbuf, [exchange |-> device.exchange, good |-> good])
  BY Zenon DEF DeviceEmits
<1> DEFINE b == [exchange |-> device.exchange, good |-> good]
<1>4. b \in Fresh /\ b \in Own(device.exchange)
  <2>1. device.exchange \in Int
    BY <1>2
  <2> QED BY <1>2, <2>1, ByteFacts, Zenon
<1>5. b \in Byte /\ rxbuf' = Append(rxbuf, b)
  BY <1>3, <1>4, ByteFacts, Zenon
<1> HIDE DEF b
<1>6. PortTyped'
  BY <1>1, <1>2, <1>5, ByteArrives DEF DriverInv, PortTyped
<1>7. AllFresh'
  BY <1>1, <1>4, <1>5, ByteArrives DEF AllFresh, DriverInv, Asking, Extra, Got
<1>8. noise = 0 => ~((usable /\ phase = "idle") \/ Draining)
  BY <1>1 DEF DriverInv, QuietBefore
<1>9. QuietBefore'
  BY <1>1, <1>8 DEF QuietBefore, Draining
<1>10. ASSUME noise = 0, Asking PROVE device.exchange = n /\ Told = RequestLength[op]
  <2>1. /\ Told >= 0 /\ (Told = 0 => device.owes = 0) /\ (Told > 0 => device.exchange = n)
        /\ Told > 0 /\ Told < RequestLength[op] => device.owes = 0
    BY <1>10 DEF DriverInv, Accounted
  <2>2. Told <= Sent /\ Sent <= RequestLength[op] /\ Sent \in Nat /\ Told \in Int /\ RequestLength[op] \in Nat
    <3>1. Sent <= RequestLength[op] /\ Sent \in Nat /\ RequestLength[op] \in Nat
      BY ConstantFacts DEF DriverInv, StateTyped, CallInStep, CallRecord, Sent
    <3>2. taken \in 0..Len(wire) /\ Len(wire) \in Nat
      BY SeqFacts DEF DriverInv, PortTyped
    <3> QED BY <3>1, <3>2 DEF Told
  <2> QED BY <1>1, <1>2, <2>1, <2>2
<1>11. AllOwn'
  BY <1>1, <1>4, <1>5, <1>10, ByteArrives DEF AllOwn, DriverInv, Asking, Extra, Got
<1>12. Accounted'
  <2> SUFFICES ASSUME noise = 0, Asking PROVE Accounted'
    BY <1>1 DEF Accounted, Asking, Extra
  <2>1. Told' = Told /\ Sent' = Sent /\ Told = RequestLength[op] /\ RequestLength[op] \in Nat \ {0}
    BY <1>1, <1>10, ConstantFacts DEF Told, Sent, DriverInv, StateTyped
  <2>2. Len(rxbuf') = Len(rxbuf) + 1 /\ Len(rxbuf) \in Nat
    BY <1>5, ByteArrives DEF DriverInv, PortTyped
  <2>3. Len(Got) \in Nat /\ Got' = Got /\ Len(response) \in Nat /\ Len(drained) \in Nat
    BY <1>1, LenEmpty, SeqFacts DEF Got, DriverInv, StateTyped, CallInStep, CallRecord
  <2>4. Seen' = Seen + 1 /\ Seen \in Nat
    BY <1>1, <2>2, <2>3 DEF Seen
  <2>5. device.needs = 0 /\ device.owes + Seen = response_length[op]
    BY <2>1 DEF DriverInv, Accounted
  <2>6. device'.owes + Seen' = response_length[op]
    BY <1>2, <2>4, <2>5
  <2> QED BY <1>1, <1>2, <2>1, <2>5, <2>6 DEF Accounted, DriverInv, Extra
<1> QED BY <1>1, <1>6, <1>7, <1>9, <1>11, <1>12, PortStep

\* The device takes a request byte, and answers a whole request.
LEMMA DeviceTakesStep == DriverInv /\ DeviceTakes => DriverInv'
<1> SUFFICES ASSUME DriverInv, DeviceTakes PROVE DriverInv'
  OBVIOUS
<1> DEFINE byte == wire[taken + 1]
           fresh == [exchange |-> byte.exchange, op |-> byte.op,
                     needs |-> RequestLength[byte.op], owes |-> 0]
           command == IF device.needs = 0 THEN fresh ELSE device
<1>1. /\ UNCHANGED driver /\ abandoned' = abandoned /\ UNCHANGED <<wire, rxbuf, noise>>
      /\ UNCHANGED <<usable, phase, op, n, offset, call, response, drained>>
      /\ taken < Len(wire) /\ device.owes = 0 /\ taken' = taken + 1
      /\ device' = [command EXCEPT
                      !.needs = @ - 1,
                      !.owes = IF command.needs = 1 THEN response_length[command.op] ELSE 0]
  BY DEF DeviceTakes, driver
<1>2. taken \in Nat /\ Len(wire) \in Nat /\ taken + 1 \in 1..Len(wire)
  BY <1>1, SeqFacts DEF DriverInv, PortTyped
<1>3. byte \in WireByte /\ byte.exchange \in Nat \ {0} /\ byte.op \in Operations
  BY <1>2, WireFacts
<1>4. fresh \in Device /\ fresh.needs > 0
  BY <1>3, ConstantFacts DEF Device
<1>5. device \in Device /\ device.needs \in Nat /\ (device.needs > 0 => device.exchange # 0)
  <2>1. device \in Device /\ (device.needs + device.owes > 0 => device.exchange # 0)
    BY DEF DriverInv, PortTyped
  <2> QED BY <2>1 DEF Device
<1>6. /\ command \in Device /\ command.needs \in Nat \ {0} /\ command.exchange # 0
      /\ command.op \in Operations /\ command.exchange \in Nat
  BY <1>3, <1>4, <1>5 DEF Device
<1>7. /\ device.needs = 0 => /\ command.exchange = byte.exchange /\ command.op = byte.op
                             /\ command.needs = RequestLength[byte.op]
      /\ device.needs # 0 => command = device
  OBVIOUS
<1> HIDE DEF command, fresh
<1>8. /\ device'.exchange = command.exchange /\ device'.op = command.op
      /\ device'.needs = command.needs - 1
      /\ command.needs = 1 => device'.owes = response_length[command.op]
      /\ command.needs # 1 => device'.owes = 0
      /\ device' \in Device
  <2> DEFINE o == IF command.needs = 1 THEN response_length[command.op] ELSE 0
  <2>1. o \in Nat /\ command.needs - 1 \in Nat
    BY <1>6, ConstantFacts
  <2>2. device' = [command EXCEPT !.needs = @ - 1, !.owes = o]
    BY <1>1
  <2>3. (command.needs = 1 => o = response_length[command.op]) /\ (command.needs # 1 => o = 0)
    OBVIOUS
  <2> HIDE DEF o
  <2>4. device' = [exchange |-> command.exchange, op |-> command.op, needs |-> command.needs - 1,
                   owes |-> o]
    BY <1>6, <2>2 DEF Device
  <2> QED BY <1>6, <2>1, <2>3, <2>4 DEF Device
<1>9. PortTyped'
  BY <1>1, <1>2, <1>6, <1>8 DEF DriverInv, PortTyped
<1>10. AllFresh' /\ AllOwn'
  BY <1>1 DEF AllFresh, AllOwn, DriverInv, Asking, Extra, Got
<1>11. QuietBefore'
  BY <1>1, <1>2 DEF DriverInv, QuietBefore, Draining
<1>12. Accounted'
  <2> SUFFICES ASSUME noise = 0, Asking PROVE Accounted'
    BY <1>1 DEF Accounted, Asking, Extra
  <2>1. /\ Seen' = Seen /\ Sent' = Sent /\ Got' = Got
    BY <1>1 DEF Seen, Sent, Got
  <2>2. /\ Sent <= RequestLength[op] /\ Sent \in Nat /\ RequestLength[op] \in Nat \ {0}
        /\ response_length[op] \in Nat
    BY ConstantFacts DEF DriverInv, StateTyped, CallInStep, CallRecord, Sent
  <2>3. Told \in Int /\ Told' = Told + 1 /\ Told' <= Sent
    BY <1>1, <1>2, <2>1, <2>2 DEF Told
  <2>4. /\ Told >= 0
        /\ \A i \in 1..Len(wire) : i > Len(wire) - Sent => wire[i].exchange = n /\ wire[i].op = op
        /\ Told = 0 => device.needs = 0 /\ device.owes = 0
        /\ Told > 0 => device.exchange = n /\ device.op = op
        /\ Told > 0 /\ Told < RequestLength[op] => device.needs = RequestLength[op] - Told /\ device.owes = 0
        /\ Told < RequestLength[op] => Seen = 0
        /\ Extra /\ response_length[op] = 0 => taken = Len(wire)
    BY DEF DriverInv, Accounted
  <2>5. byte.exchange = n /\ byte.op = op
    <3>1. taken + 1 > Len(wire) - Sent
      BY <1>2, <2>2, <2>4 DEF Told
    <3> QED BY <1>2, <2>4, <3>1
  <2>6. Told < RequestLength[op]
    BY <2>2, <2>3
  <2> HIDE DEF byte
  <2>7. command.exchange = n /\ command.op = op /\ command.needs = RequestLength[op] - Told
    <3>1. CASE Told = 0
      BY <3>1, <2>2, <2>4, <2>5, <1>7
    <3>2. CASE Told > 0
      <4>1. device.needs = RequestLength[op] - Told /\ device.needs # 0
        BY <3>2, <2>2, <2>3, <2>4, <2>6
      <4> QED BY <4>1, <3>2, <2>4, <1>7
    <3> QED BY <3>1, <3>2, <2>3, <2>4
  <2>8. /\ device'.exchange = n /\ device'.op = op /\ device'.needs = RequestLength[op] - Told'
        /\ Told' = RequestLength[op] => device'.owes = response_length[op]
        /\ Told' < RequestLength[op] => device'.owes = 0
        /\ Told' > 0
    BY <1>8, <2>2, <2>3, <2>4, <2>7
  <2>9. Seen = 0
    BY <2>4, <2>6
  <2>10. ~(Extra /\ response_length[op] = 0)
    BY <1>1, <1>2, <2>4
  <2>11. Told' = RequestLength[op] => device'.needs = 0 /\ device'.owes + Seen' = response_length[op]
    BY <2>1, <2>2, <2>8, <2>9
  <2>12. Told' >= 0 /\ Told' # 0
    BY <2>3, <2>8
  <2> QED BY <1>1, <2>1, <2>4, <2>8, <2>9, <2>10, <2>11, <2>12 DEF Accounted, Extra
<1> QED BY <1>1, <1>9, <1>10, <1>11, <1>12, PortStep

\* An abandoned worker moves a byte after all.
LEMMA AbandonedCallStep == DriverInv /\ AbandonedCallProgresses => DriverInv'
<1> SUFFICES ASSUME DriverInv, AbandonedCallProgresses PROVE DriverInv'
  OBVIOUS
<1>1. /\ UNCHANGED <<usable, phase, op, n, offset, response, drained, expired, call, outcome>>
      /\ abandoned # None /\ Progress(abandoned) /\ abandoned' = Moved(abandoned)
  BY DEF AbandonedCallProgresses, driver
<1>2. /\ abandoned \in CallRecord /\ phase = "idle" /\ ~usable /\ abandoned.exchange <= n
      /\ abandoned.phase = "write" =>
            \A i \in 1..Len(wire) :
                \/ wire[i].exchange < abandoned.exchange
                \/ /\ wire[i].exchange = abandoned.exchange
                   /\ wire[i].index < abandoned.first + abandoned.moved
  BY <1>1 DEF DriverInv, AbandonedAlone
<1>3. UNCHANGED <<taken, device, noise>>
  BY <1>1, <1>2, ProgressCases
<1>4. /\ rxbuf \in Seq(Byte) /\ wire \in Seq(WireByte) /\ op \in Operations /\ n \in Nat
      /\ abandoned.exchange \in Nat \ {0} /\ abandoned.first \in Nat \ {0} /\ abandoned.moved \in Nat
  BY <1>2, ConstantFacts DEF DriverInv, PortTyped, StateTyped, CallRecord
<1>5. /\ StateTyped' /\ CallInStep' /\ Withdrawn' /\ PhaseInStep' /\ AllFresh' /\ AllOwn' /\ QuietBefore'
      /\ Accounted' /\ OutcomeInStep'
  BY <1>1, <1>2, <1>3 DEF DriverInv, StateTyped, CallInStep, Withdrawn, PhaseInStep, AllFresh, AllOwn,
       QuietBefore, Accounted, OutcomeInStep, Draining, Extra, Asking
<1>6. CASE abandoned.phase \in Reads /\ rxbuf # <<>> /\ rxbuf' = Tail(rxbuf) /\ wire' = wire
  <2>1. abandoned' \in CallRecord /\ abandoned'.exchange = abandoned.exchange /\ abandoned'.phase # "write"
    BY <1>1, <1>2, <1>4, <1>6, MovedFacts DEF Reads
  <2>2. AbandonedAlone'
    BY <1>1, <1>2, <2>1 DEF AbandonedAlone
  <2>3. PortTyped' /\ WireOrdered'
    BY <1>1, <1>2, <1>3, <1>6, SeqFacts DEF DriverInv, PortTyped, WireOrdered
  <2> QED BY <1>5, <2>2, <2>3 DEF DriverInv
<1>7. CASE /\ abandoned.phase = "write" /\ rxbuf' = rxbuf
           /\ wire' = Append(wire, [exchange |-> abandoned.exchange, op |-> op,
                                    index |-> abandoned.first + abandoned.moved])
  <2> DEFINE w == [exchange |-> abandoned.exchange, op |-> op,
                   index |-> abandoned.first + abandoned.moved]
  <2>1. w \in WireByte
    BY <1>4 DEF WireByte
  <2>2. w.exchange = abandoned.exchange /\ w.index = abandoned.first + abandoned.moved
    OBVIOUS
  <2>3. wire' = Append(wire, w)
    BY <1>7
  <2> HIDE DEF w
  <2>4. /\ wire' \in Seq(WireByte) /\ Len(wire) \in Nat /\ Len(wire') = Len(wire) + 1
        /\ \A i \in 1..Len(wire) : wire'[i] = wire[i]
        /\ wire'[Len(wire) + 1] = w
    BY <1>4, <2>1, <2>3, WireGrows
  <2>5. \A i \in 1..Len(wire') : i \in 1..Len(wire) \/ i = Len(wire) + 1
    BY <2>4
  <2>6. /\ abandoned' \in CallRecord /\ abandoned'.exchange = abandoned.exchange
        /\ abandoned'.phase = "write" /\ abandoned'.first = abandoned.first
        /\ abandoned'.moved = abandoned.moved + 1
    BY <1>1, <1>2, <1>4, <1>7, MovedFacts DEF Reads
  <2>7. ASSUME NEW i \in 1..Len(wire)
        PROVE  \/ wire[i].exchange < w.exchange
               \/ wire[i].exchange = w.exchange /\ wire[i].index < w.index
    BY <1>2, <1>7, <2>2
  <2>8. \A i \in 1..Len(wire) : /\ wire[i].exchange \in Nat /\ wire[i].index \in Nat
                                /\ wire[i].exchange <= n
    BY WireFacts DEF DriverInv, WireOrdered
  <2>9. AbandonedAlone'
    <3>1. ASSUME NEW i \in 1..Len(wire')
          PROVE  \/ wire'[i].exchange < abandoned'.exchange
                 \/ /\ wire'[i].exchange = abandoned'.exchange
                    /\ wire'[i].index < abandoned'.first + abandoned'.moved
      <4>1. CASE i \in 1..Len(wire)
        <5>1. wire'[i] = wire[i]
          BY <4>1, <2>4
        <5>2. wire[i].index \in Nat
          BY <4>1, <2>8
        <5>3. /\ abandoned'.first + abandoned'.moved = w.index + 1
              /\ w.index \in Nat /\ abandoned'.exchange = w.exchange
          <6>1. abandoned.first \in Nat /\ abandoned.moved \in Nat
            BY <1>4
          <6>2. /\ abandoned'.first = abandoned.first /\ abandoned'.moved = abandoned.moved + 1
                /\ abandoned'.exchange = abandoned.exchange
            BY <2>6
          <6>3. w.index = abandoned.first + abandoned.moved /\ w.exchange = abandoned.exchange
            BY <2>2
          <6> QED BY ONLY <6>1, <6>2, <6>3
        <5>4. \/ wire[i].exchange < w.exchange
              \/ wire[i].exchange = w.exchange /\ wire[i].index < w.index
          BY <4>1, <2>7
        <5> HIDE DEF w
        <5> QED BY <5>1, <5>2, <5>3, <5>4
      <4>2. CASE i = Len(wire) + 1
        BY <4>2, <1>4, <2>2, <2>4, <2>6
      <4> QED BY <4>1, <4>2, <2>5
    <3> QED BY <1>1, <1>2, <2>6, <3>1 DEF AbandonedAlone
  <2>10. WireOrdered'
    <3>1. \A i \in 1..Len(wire') : wire'[i].exchange <= n'
      BY <1>1, <1>2, <2>2, <2>4, <2>5, <2>8
    <3>2. ASSUME NEW i \in 1..Len(wire'), NEW j \in 1..Len(wire'), i < j
          PROVE  \/ wire'[i].exchange < wire'[j].exchange
                 \/ wire'[i].exchange = wire'[j].exchange /\ wire'[i].index < wire'[j].index
      <4>1. i \in 1..Len(wire)
        BY <3>2, <2>4
      <4>2. CASE j \in 1..Len(wire)
        BY <4>1, <4>2, <3>2, <2>4 DEF DriverInv, WireOrdered
      <4>3. CASE j = Len(wire) + 1
        BY <4>1, <4>3, <2>4, <2>7
      <4> QED BY <4>2, <4>3, <2>5
    <3> QED BY <1>1, <1>2, <3>1, <3>2 DEF WireOrdered
  <2>11. PortTyped'
    BY <1>3, <1>7, <2>4 DEF DriverInv, PortTyped
  <2> QED BY <1>5, <2>9, <2>10, <2>11 DEF DriverInv
<1> QED BY <1>1, <1>2, <1>6, <1>7, ProgressCases
-----------------------------------------------------------------------------
\* Every step of the driver preserves the invariant.
LEMMA ExchangeStepInv == DriverInv /\ ExchangeStep => DriverInv'
  BY ExpireStep, StartCallStep, NoBudgetStep, AbandonCallStep, CallFailsStep, CallProgressesStep,
     CountReturnsStep, ExtraEndsStep, DrainReturnsStep, WriteReturnsStep, FlushReturnsStep,
     ReadReturnsStep DEF ExchangeStep

\* Every step of the device and the line preserves the invariant.
LEMMA DeviceStepInv == DriverInv /\ DeviceStep => DriverInv'
  BY DeviceTakesStep, DeviceEmitsStep, LineNoiseStep, AbandonedCallStep DEF DeviceStep

\* A step that leaves the driver and the port alone preserves the invariant.
LEMMA StutterInv == DriverInv /\ UNCHANGED vars => DriverInv'
<1> SUFFICES ASSUME DriverInv, UNCHANGED vars PROVE DriverInv'
  OBVIOUS
<1>1. /\ UNCHANGED <<usable, phase, op, n, offset, response, drained, expired, call, outcome>>
      /\ UNCHANGED <<wire, taken, device, rxbuf, noise, abandoned>>
  BY DEF vars, driver, port
<1>2. /\ StateTyped' /\ PortTyped' /\ CallInStep' /\ Withdrawn' /\ AbandonedAlone' /\ PhaseInStep'
      /\ OutcomeInStep'
  BY <1>1 DEF DriverInv, StateTyped, PortTyped, CallInStep, Withdrawn, AbandonedAlone, PhaseInStep,
              OutcomeInStep, Draining, Extra
<1>3. WireOrdered' /\ AllFresh' /\ AllOwn' /\ QuietBefore' /\ Accounted'
  BY <1>1 DEF DriverInv, WireOrdered, AllFresh, AllOwn, QuietBefore, Accounted, Draining, Extra, Asking,
              Got, Sent, Seen, Told
<1> QED BY <1>2, <1>3 DEF DriverInv

\* MinCoreUartDriver.exchange over any requests, response lengths and number of calls,
\* however the port blocks, splits, delays or adds bytes: an accepted answer holds no byte
\* from before the exchange, without noise it is the answer to this very request, and no
\* byte of an abandoned call mixes with a later exchange's.
THEOREM ExchangeStaysOwn == Spec => []ExchangeIsOwn
<1>1. DriverInv /\ [Next]_vars => DriverInv'
  BY BeginExchangeStep, RefuseExchangeStep, ExchangeStepInv, DeviceStepInv, StutterInv DEF Next
<1> QED BY <1>1, DriverInitInv, DriverInvImplies, PTL DEF Spec
-----------------------------------------------------------------------------
(* main() *)

\* Where main() stands agrees with the driver: there is an exchange exactly while it is
\* executing, and nothing is recorded before the end.
StageInStep ==
    /\ args.mode \in Modes
    /\ stage \in Modes => stage = args.mode
    /\ stage = "exchanging" => args.mode = "execute"
    /\ stage \notin {"exchanging", "exited"} => n = 0 /\ phase = "idle" /\ ~outcome.accepted
    /\ stage # "exited" => evidence = <<>> /\ ~broken
    /\ outcome.accepted => phase = "idle" /\ outcome.observed = response

\* The inductive invariant of main().
MainInv == DriverInv /\ StageInStep /\ RecordIsTrue

\* What main() does to the driver is what the driver does.
LEMMA MainIsDriver == DriverInv /\ [MainNext]_<<vars, mainVars>> => DriverInv'
<1> SUFFICES ASSUME DriverInv, [MainNext]_<<vars, mainVars>> PROVE DriverInv'
  OBVIOUS
<1>1. \/ UNCHANGED vars \/ ExchangeStep \/ DeviceStep
      \/ \E operation \in Operations : BeginExchange(operation)
  BY Zenon DEF MainNext, OpenEvidence, Decode, DryRun, OpenPort, Exchanging, ExchangeFailed,
       ExchangeSucceeded, DeviceSide
<1> QED BY <1>1, StutterInv, ExchangeStepInv, DeviceStepInv, BeginExchangeStep

\* An acceptance is the end of its exchange, and reports the response.
LEMMA AcceptanceIsTheEnd ==
  ASSUME DriverInv, ExchangeStep, outcome.accepted => phase = "idle"
  PROVE  outcome'.accepted => phase' = "idle" /\ outcome'.observed = response'
<1>1. phase # "idle"
  BY Zenon DEF ExchangeStep, Expire, StartCall, NoBudget, AbandonCall, CallFails, CallProgresses,
       CountReturns, ExtraEnds, DrainReturns, WriteReturns, FlushReturns, ReadReturns, DriverInv, CallInStep
<1>2. CASE outcome' = outcome
  BY <1>1, <1>2
<1>3. CASE \E kind, observed : outcome' = Finished(kind, observed, FALSE)
  <2>1. PICK kind, observed : outcome' = Finished(kind, observed, FALSE)
    BY <1>3
  <2> QED BY <2>1, Zenon DEF Finished
<1>4. CASE ExtraEnds /\ drained = <<>>
  <2>1. outcome' = Finished("ok", response, TRUE) /\ phase' = "idle" /\ response' = response
    BY <1>4, Zenon DEF ExtraEnds
  <2> QED BY <2>1, Zenon DEF Finished
<1>5. \/ outcome' = outcome \/ (ExtraEnds /\ drained = <<>>)
      \/ \E kind, observed : outcome' = Finished(kind, observed, FALSE)
  BY Zenon DEF ExchangeStep, Expire, StartCall, NoBudget, AbandonCall, CallFails, CallProgresses,
       CountReturns, ExtraEnds, DrainReturns, WriteReturns, FlushReturns, ReadReturns, Raise
<1> QED BY <1>2, <1>3, <1>4, <1>5

\* Before main() ends there is no record that could be wrong.
LEMMA NothingRecorded == stage' # "exited" /\ evidence' = <<>> => RecordIsTrue'
  BY DEF RecordIsTrue, AttemptLeavesRecord, ExitIsBacked, CleanMeansClean

\* The only record of a run says what happened, and so does the exit status.
LEMMA Exiting ==
  ASSUME NEW r, evidence' = <<>> \/ evidence' = <<r>>, stage' = "exited", UNCHANGED <<args, git>>,
         args.evidence /\ ~broken' /\ n' > 0 => evidence' = <<r>> /\ r.execution_attempted,
         args.mode = "execute" /\ status' \in {0, 1} =>
             /\ outcome'.accepted /\ (args.evidence => evidence' = <<r>>)
             /\ args.vector => ((status' = 0) <=> \A i \in DOMAIN response' : response'[i].good),
         evidence' = <<r>> =>
             /\ r.failure # None => r.pass = None /\ status' \in {None, 2}
             /\ r.dirty = repo_provenance
  PROVE  RecordIsTrue'
<1>1. /\ evidence' = <<r>> => Len(evidence') = 1 /\ evidence'[1] = r /\ DOMAIN evidence' = {1}
      /\ evidence' = <<>> => DOMAIN evidence' = {}
  OBVIOUS
<1>2. AttemptLeavesRecord'
  BY <1>1, Zenon DEF AttemptLeavesRecord
<1>3. ExitIsBacked'
  <2>1. \A i \in DOMAIN evidence' : i = 1 /\ evidence' = <<r>>
    BY <1>1
  <2> QED BY <1>1, <2>1, Zenon DEF ExitIsBacked
<1>4. CleanMeansClean'
  <2> SUFFICES ASSUME NEW i \in DOMAIN evidence', evidence'[i].dirty = FALSE
               PROVE  "source" \notin git.changed /\ (git.place = Tracked => git.changed = {})
    BY DEF CleanMeansClean
  <2>1. repo_provenance = FALSE
    BY <1>1
  <2>2. git.known
    BY <2>1, MainAssumption DEF repo_provenance
  <2>3. git.changed \ (IF git.place \in {Untracked, Outside} THEN {"evidence"} ELSE {}) = {}
    BY <2>1, <2>2, Zenon DEF repo_provenance
  <2> QED BY <2>3, MainAssumption
<1> QED BY <1>2, <1>3, <1>4 DEF RecordIsTrue

\* _write_evidence writes the whole record or breaks.
LEMMA TryFacts ==
  ASSUME evidence = <<>>, ~broken, NEW r, TryRecord(r)
  PROVE  (~broken' /\ evidence' = <<r>>) \/ (broken' /\ evidence' = <<>>)
  BY DEF TryRecord

\* How main() ends with a record: written, not asked for, or broken with status 2.
LEMMA ConcludeFacts ==
  ASSUME evidence = <<>>, ~broken, NEW r, Conclude(r)
  PROVE  /\ stage' = "exited" /\ UNCHANGED <<args, git>>
         /\ \/ args.evidence /\ ~broken' /\ evidence' = <<r>>
            \/ args.evidence /\ broken' /\ evidence' = <<>>
            \/ ~args.evidence /\ ~broken' /\ evidence' = <<>>
         /\ broken' => status' = 2
         /\ ~broken' => status' = IF r.pass = FALSE THEN 1 ELSE 0
<1>1. stage' = "exited" /\ UNCHANGED <<args, git>>
  BY DEF Conclude, Exit
<1>2. /\ broken' => status' = 2
      /\ ~broken' => status' = IF r.pass = FALSE THEN 1 ELSE 0
  BY Zenon DEF Conclude, Exit
<1>3. (args.evidence /\ TryRecord(r)) \/ (~args.evidence /\ UNCHANGED <<evidence, broken>>)
  BY DEF Conclude
<1> HIDE DEF TryRecord
<1>4. \/ args.evidence /\ ~broken' /\ evidence' = <<r>>
      \/ args.evidence /\ broken' /\ evidence' = <<>>
      \/ ~args.evidence /\ ~broken' /\ evidence' = <<>>
  BY <1>3, TryFacts
<1> QED BY <1>1, <1>2, <1>4

\* The fields of an evidence record.
LEMMA RecordFields ==
  ASSUME NEW bytes, NEW passed, NEW attempted, NEW failure
  PROVE  /\ Record(bytes, passed, attempted, failure).pass = passed
         /\ Record(bytes, passed, attempted, failure).failure = failure
         /\ Record(bytes, passed, attempted, failure).execution_attempted = attempted
         /\ Record(bytes, passed, attempted, failure).dirty = repo_provenance
  BY Zenon DEF Record

\* Every step of main() keeps its record true.
LEMMA MainStep == MainInv /\ [MainNext]_<<vars, mainVars>> => StageInStep' /\ RecordIsTrue'
<1> SUFFICES ASSUME MainInv, [MainNext]_<<vars, mainVars>> PROVE StageInStep' /\ RecordIsTrue'
  OBVIOUS
<1>0. DriverInv /\ StageInStep /\ RecordIsTrue
  BY DEF MainInv
<1>1. ASSUME UNCHANGED vars
      PROVE  UNCHANGED <<n, phase, outcome, response>>
  BY <1>1 DEF vars, driver
<1>2. ASSUME stage # "exited", UNCHANGED vars, stage' = "exited", args' = args
      PROVE  StageInStep'
  BY <1>0, <1>1, <1>2 DEF StageInStep, Modes
<1>3. ASSUME NEW bytes, NEW passed, NEW attempted, stage # "exited", UNCHANGED vars,
             Conclude(Record(bytes, passed, attempted, None)),
             n > 0 => attempted = TRUE,
             args.mode = "execute" =>
                 /\ outcome.accepted
                 /\ args.vector => (passed = FALSE <=> ~\A i \in DOMAIN response : response[i].good)
      PROVE  StageInStep' /\ RecordIsTrue'
  <2> DEFINE r == Record(bytes, passed, attempted, None)
  <2>1. evidence = <<>> /\ ~broken
    BY <1>0, <1>3 DEF StageInStep
  <2>2. /\ stage' = "exited" /\ UNCHANGED <<args, git>>
        /\ \/ args.evidence /\ ~broken' /\ evidence' = <<r>>
           \/ args.evidence /\ broken' /\ evidence' = <<>>
           \/ ~args.evidence /\ ~broken' /\ evidence' = <<>>
        /\ broken' => status' = 2
        /\ ~broken' => status' = IF r.pass = FALSE THEN 1 ELSE 0
    <3>1. Conclude(r)
      BY <1>3
    <3> HIDE DEF r
    <3> QED BY <2>1, <3>1, ConcludeFacts, Zenon
  <2>3. r.pass = passed /\ r.failure = None /\ r.execution_attempted = attempted /\ r.dirty = repo_provenance
    BY Zenon DEF Record
  <2> HIDE DEF r
  <2>4. n' = n /\ outcome' = outcome /\ response' = response
    BY <1>1, <1>3
  <2>5. args.evidence /\ ~broken' /\ n' > 0 => evidence' = <<r>> /\ r.execution_attempted
    BY <1>3, <2>2, <2>3, <2>4, Zenon
  <2>6. status' \in {0, 1} => ~broken' /\ (args.evidence => evidence' = <<r>>)
    BY <2>2
  <2>7. ~broken' => ((status' = 0) <=> ~(passed = FALSE))
    BY <2>2, <2>3
  <2>8. args.mode = "execute" /\ status' \in {0, 1} =>
             /\ outcome'.accepted /\ (args.evidence => evidence' = <<r>>)
             /\ args.vector => ((status' = 0) <=> \A i \in DOMAIN response' : response'[i].good)
    BY <1>3, <2>4, <2>6, <2>7, Zenon
  <2>9. evidence' = <<>> \/ evidence' = <<r>>
    BY <2>2
  <2>10. RecordIsTrue'
    BY <2>2, <2>3, <2>5, <2>8, <2>9, Exiting
  <2> QED BY <1>2, <1>3, <2>2, <2>10
<1>4. ASSUME stage # "exited", UNCHANGED vars, stage' = "exited", status' = 2,
             UNCHANGED <<args, git, evidence, broken>>, n = 0
      PROVE  StageInStep' /\ RecordIsTrue'
  <2>1. evidence' = <<>> /\ n' = 0 /\ evidence' # <<None>>
    BY <1>0, <1>1, <1>4 DEF StageInStep
  <2>2. RecordIsTrue'
    BY <1>4, <2>1, Exiting
  <2> QED BY <1>2, <1>4, <2>2
<1>5. CASE OpenEvidence
  <2>1. /\ stage = "start" /\ UNCHANGED vars /\ UNCHANGED <<args, git, evidence, broken>>
        /\ stage' = args.mode \/ (stage' = "exited" /\ status' = 2)
    BY <1>5 DEF OpenEvidence, Exit
  <2>2. CASE stage' = args.mode
    BY <1>0, <1>1, <2>1, <2>2, NothingRecorded DEF StageInStep, Modes
  <2>3. CASE stage' = "exited" /\ status' = 2
    BY <1>0, <1>4, <2>1, <2>3 DEF StageInStep
  <2> QED BY <2>1, <2>2, <2>3
<1>6. CASE Decode
  <2>1. /\ stage = "decode" /\ UNCHANGED vars
        /\ \/ \E matches \in BOOLEAN : Conclude(Record(<<>>, Passed(matches), FALSE, None))
           \/ stage' = "exited" /\ status' = 2 /\ UNCHANGED <<args, git, evidence, broken>>
    BY <1>6, Zenon DEF Decode, Exit
  <2>2. n = 0 /\ args.mode # "execute"
    BY <1>0, <2>1 DEF StageInStep, Modes
  <2>3. ~(n > 0)
    BY <2>2
  <2> QED BY <1>3, <1>4, <2>1, <2>2, <2>3
<1>7. CASE DryRun
  <2>1. stage = "dry" /\ UNCHANGED vars /\ Conclude(Record(<<>>, None, FALSE, None))
    BY <1>7 DEF DryRun
  <2>2. n = 0 /\ args.mode # "execute"
    BY <1>0, <2>1 DEF StageInStep, Modes
  <2>3. ~(n > 0)
    BY <2>2
  <2> QED BY <1>3, <2>1, <2>2, <2>3
<1>8. CASE OpenPort
  <2>1. stage = "execute" /\ UNCHANGED <<args, git, evidence, broken>> /\ n = 0 /\ args.mode = "execute"
    BY <1>0, <1>8 DEF OpenPort, StageInStep, Modes
  <2>2. CASE stage' = "exited" /\ status' = 2 /\ UNCHANGED vars
    BY <1>4, <2>1, <2>2
  <2>3. ASSUME NEW operation \in Operations, BeginExchange(operation), stage' = "exchanging"
        PROVE  StageInStep' /\ RecordIsTrue'
    <3>1. ~outcome'.accepted
      BY <1>0, <2>1, <2>3 DEF BeginExchange, StageInStep
    <3> QED BY <1>0, <2>1, <2>3, <3>1, NothingRecorded DEF StageInStep, Modes
  <2> QED BY <1>8, <2>2, <2>3 DEF OpenPort, Exit
<1>9. CASE Exchanging
  <2>1. stage = "exchanging" /\ UNCHANGED <<args, git, stage, evidence, broken, status>> /\ ExchangeStep
    BY <1>9 DEF Exchanging, mainVars
  <2>2. outcome'.accepted => phase' = "idle" /\ outcome'.observed = response'
    BY <1>0, <2>1, AcceptanceIsTheEnd DEF StageInStep
  <2> QED BY <1>0, <2>1, <2>2, NothingRecorded DEF StageInStep, Modes
<1>10. CASE ExchangeFailed
  <2> DEFINE r == Record(outcome.observed, None, TRUE, outcome.kind)
  <2>1. /\ stage = "exchanging" /\ stage' = "exited" /\ status' = 2 /\ UNCHANGED vars
        /\ UNCHANGED <<args, git>> /\ RecordFailedAttempt(r)
    BY <1>10 DEF ExchangeFailed, Exit
  <2>2. evidence = <<>> /\ ~broken
    BY <1>0, <2>1 DEF StageInStep
  <2>3. r.pass = None /\ r.failure = outcome.kind /\ r.execution_attempted = TRUE /\ r.dirty = repo_provenance
    BY Zenon DEF Record
  <2> HIDE DEF r
  <2>4. \/ args.evidence /\ ~broken' /\ evidence' = <<r>>
        \/ args.evidence /\ broken' /\ evidence' = <<>>
        \/ ~args.evidence /\ evidence' = <<>>
    BY <2>1, <2>2, TryFacts DEF RecordFailedAttempt
  <2>5. RecordIsTrue'
    BY <2>1, <2>3, <2>4, Exiting
  <2> QED BY <1>2, <2>1, <2>5
<1>11. CASE ExchangeSucceeded
  <2>1. /\ stage = "exchanging" /\ UNCHANGED vars /\ outcome.accepted
        /\ Conclude(Record(outcome.observed, Verdict, TRUE, None))
    BY <1>11 DEF ExchangeSucceeded
  <2>2. outcome.observed = response
    BY <1>0, <2>1 DEF StageInStep
  <2>3. args.vector => (Verdict = FALSE <=> ~\A i \in DOMAIN response : response[i].good)
    BY <2>2, Zenon DEF Verdict, Passed
  <2> QED BY <1>3, <2>1, <2>3
<1>12. CASE DeviceSide
  <2>1. stage = "exchanging" /\ UNCHANGED <<args, git, stage, evidence, broken, status>>
        /\ UNCHANGED <<n, phase, outcome, response>>
    BY <1>12 DEF DeviceSide, mainVars, DeviceStep, DeviceTakes, DeviceEmits, LineNoise,
         AbandonedCallProgresses, driver
  <2> QED BY <1>0, <2>1, NothingRecorded DEF StageInStep, Modes
<1>13. CASE UNCHANGED <<vars, mainVars>>
  <2>1. UNCHANGED <<args, git, stage, evidence, broken, status>> /\ UNCHANGED <<n, phase, outcome, response>>
    BY <1>1, <1>13 DEF mainVars
  <2> QED BY <1>0, <2>1 DEF StageInStep, RecordIsTrue, AttemptLeavesRecord, ExitIsBacked, CleanMeansClean
<1> QED BY <1>5, <1>6, <1>7, <1>8, <1>9, <1>10, <1>11, <1>12, <1>13 DEF MainNext

\* main() before its first step.
LEMMA MainInitInv == MainInit => MainInv
<1> SUFFICES ASSUME MainInit PROVE MainInv
  OBVIOUS
<1>1. DriverInv
  BY DriverInitInv DEF MainInit
<1>2. stage = "start" /\ evidence = <<>> /\ broken = FALSE /\ n = 0 /\ phase = "idle"
  BY DEF MainInit, Init
<1>3. ~outcome.accepted
  BY Zenon DEF MainInit, Init
<1>4. args.mode \in Modes
  BY Zenon DEF MainInit
<1>5. StageInStep
  BY <1>2, <1>3, <1>4 DEF StageInStep, Modes
<1>6. RecordIsTrue
  BY <1>2 DEF RecordIsTrue, AttemptLeavesRecord, ExitIsBacked, CleanMeansClean
<1> QED BY <1>1, <1>5, <1>6 DEF MainInv

\* The exchange that main() runs is as sound as any other.
THEOREM MainExchangeStaysOwn == MainSpec => []ExchangeIsOwn
<1>1. MainInit => DriverInv
  BY DriverInitInv DEF MainInit
<1> QED BY <1>1, MainIsDriver, DriverInvImplies, PTL DEF MainSpec

\* main() for every mode, vector, checkout and exchange: exit status 0 only after an
\* accepted answer that matched, and the evidence written says what was sent, received and
\* compared, and from which sources.
THEOREM RecordStaysTrue == MainSpec => []RecordIsTrue
<1>1. MainInv /\ [MainNext]_<<vars, mainVars>> => MainInv'
  BY MainIsDriver, MainStep DEF MainInv
<1>2. MainInv => RecordIsTrue
  BY DEF MainInv
<1> QED BY <1>1, <1>2, MainInitInv, PTL DEF MainSpec

-----------------------------------------------------------------------------
(* The packet tool. *)

\* What may stand on the packet line, in either direction.
PacketKinds == {"status", "negotiate", "instruction", "status_again", "retire", "part"}
PacketRequest == [kind : PacketKinds, run : Nat, value : OperandValues]
PacketReply == [kind : {"INFO", "CAPS", "RESULT", "RETIRED", "FAULT"}, run : Nat,
                value : OperandValues, damaged : BOOLEAN, staged : OperandValues \cup {None},
                seq : Nat]

\* The exchanges of _run().
Exchanges == {"status", "negotiate", "instruction", "status_again", "retire"}

\* The replies between the endpoint and the host, the next to be read first.
Replies == p_rxbuf \o p_air

\* How many replies this run has read.
ReadSoFar == (CASE p_stage = "status" -> 0 [] p_stage = "negotiate" -> 1
                [] p_stage \in {"instruction", "status_again"} -> 2 [] OTHER -> 3)
             + (IF p_phase = "surplus" THEN 1 ELSE 0)

\* A status reply of an endpoint with nothing staged and nothing retired, the only one
\* _run() goes on from; k replies or more stand behind every such reply; and the like for
\* whole runs of replies.
IsFresh(reply) == reply.kind = "INFO" /\ reply.staged = None /\ reply.seq = 0
FreshIsBehind(k) == \A i \in 1..Len(Replies) : IsFresh(Replies[i]) => i + k <= Len(Replies)
NoneIsFresh == \A i \in 1..Len(Replies) : ~IsFresh(Replies[i])
NoneIsLater == \A i \in 1..Len(Replies) : Replies[i].run <= p_run
OwnRetiredSeen ==
    \E i \in 1..Len(Replies) : Replies[i].kind = "RETIRED" /\ Replies[i].run = p_run

\* A request of one of these kinds waits for the endpoint; this exchange's request is out.
OnLine(kinds) == \E i \in 1..Len(p_line) : p_line[i].kind \in kinds
Asked == p_phase \in {"read", "surplus"}

\* The tool's and the line's state has its type.
PacketTyped ==
    /\ p_run \in 0..PacketRuns /\ p_args.operation \in {"status", "set"}
    /\ p_exit \in {None, 0, 2} /\ p_partial \in BOOLEAN /\ p_staged \in OperandValues \cup {None}
    /\ p_rxbuf \in Seq(PacketReply) /\ p_air \in Seq(PacketReply) /\ p_line \in Seq(PacketRequest)
    /\ p_retired \in Seq([run : Nat, value : OperandValues]) /\ Len(p_retired) <= 1
    /\ p_retired # <<>> \/ p_line # <<>> => p_run > 0
    /\ \/ p_stage = "exited" /\ p_phase \in {"done", "reset"}
       \/ p_stage = "abort" /\ p_phase \in {"break", "settle"}
       \/ p_stage \in Exchanges /\ p_phase \in {"drain", "write", "read", "surplus"}
    /\ p_stage # "exited" => p_args.value \in OperandValues /\ p_run > 0
    /\ p_phase = "surplus" => p_last \in PacketReply

\* Each exchange puts one request on the line and reads one reply, so that no more than
\* what was outstanding when the port was opened ever is, and one more while it reads.
FewOutstanding ==
    p_stage # "exited" =>
        Len(p_rxbuf) + Len(p_air) + Len(p_line) <= IF p_phase = "read" THEN 4 ELSE 3

\* The stages of _run(): which operation leads to which, and what this run has not asked
\* for yet cannot be on the line, staged or retired.
StageInOrder ==
    /\ p_stage \in {"instruction", "retire"} => p_args.operation = "set"
    /\ p_stage = "status_again" => p_args.operation = "status"
    /\ p_stage \in {"status", "negotiate"} \/ (p_stage = "instruction" /\ ~Asked) =>
         p_staged = None /\ ~OnLine({"instruction"})
    /\ p_stage \in {"status", "negotiate", "instruction"} \/ (p_stage = "retire" /\ ~Asked) =>
         ~OnLine({"retire"})
    /\ p_stage \in {"negotiate", "instruction"} \/ (p_stage = "retire" /\ ~Asked) =>
         p_retired = <<>>

\* Requests stand on the line run by run and in the order _run() makes them: a torn one is
\* the last, an instruction comes alone, next to its NEGOTIATE or after the answer to it.
LineInOrder ==
    /\ \A i \in 1..Len(p_line) :
         /\ p_stage = "abort" => p_phase = "break" /\ p_line[i].run < p_run
         /\ p_line[i].run < p_run \/ (p_line[i].run = p_run /\ p_line[i].value = p_args.value)
         /\ p_stage \in Exchanges => p_line[i].run = p_run
         /\ p_line[i].kind = "part" => i = Len(p_line) /\ p_stage \in {"exited", "abort"}
         /\ p_line[i].kind = "instruction" =>
              /\ p_retired = <<>> /\ p_staged = None
              /\ \A j \in 1..Len(p_line) : p_line[j].kind = "instruction" => j = i
              /\ i = 1 => FreshIsBehind(1)
              /\ i > 1 => p_line[i - 1].kind = "negotiate"
    /\ p_partial => p_line = <<>> /\ p_stage \in {"exited", "abort"}
    /\ p_stage = "abort" /\ p_phase = "settle" => ~p_partial /\ p_staged = None

\* Replies say how far the endpoint was: behind a fresh status stand the answers to all
\* that has been negotiated, staged and retired since.
RepliesFollow ==
    /\ (p_stage = "negotiate" /\ Asked) \/ (p_stage = "instruction" /\ ~Asked) =>
         IF p_line = <<>> THEN FreshIsBehind(1) ELSE p_line[Len(p_line)].kind = "negotiate"
    /\ p_staged # None => p_retired = <<>> /\ FreshIsBehind(2)
    /\ p_retired # <<>> => FreshIsBehind(3)
    /\ p_stage = "status" /\ p_retired # <<>> =>
         /\ NoneIsFresh
         /\ p_phase = "surplus" => ~IsFresh(p_last)

\* FIFO: what this run has not read yet beyond the replies that were outstanding is its
\* own, so that the fourth reply, to RETIRE, is.
OwnReplies ==
    /\ NoneIsLater
    /\ p_stage \in Exchanges => 
         \A i \in 1..Len(Replies) : i > 3 - ReadSoFar => Replies[i].run = p_run
    /\ p_stage = "retire" /\ p_phase = "surplus" => p_last.run = p_run

\* The endpoint has retired this run's instruction, and nothing else since its reset.
RetiredHere == p_retired = <<[run |-> p_run, value |-> p_args.value]>>

\* A RETIRED of this run says so.
RetirementFollows ==
    /\ p_phase # "reset" /\ OwnRetiredSeen => RetiredHere
    /\ p_phase = "surplus" /\ p_last.kind = "RETIRED" /\ p_last.run = p_run => RetiredHere
    /\ p_exit = 0 /\ p_args.operation = "set" /\ p_phase = "done" => RetiredHere

\* The inductive invariant of the runs of the packet tool.
PacketInv == /\ PacketTyped /\ FewOutstanding /\ StageInOrder /\ LineInOrder /\ RepliesFollow
             /\ OwnReplies /\ RetirementFollows

\* Replies that differ at most in being damaged; d replies fewer, from the front; one
\* reply more, at the end.
Same(r, s) == r.kind = s.kind /\ r.run = s.run /\ r.staged = s.staged /\ r.seq = s.seq
Dropped(d) ==
    /\ d \in Nat /\ Len(Replies) \in Nat /\ Len(Replies') \in Nat /\ Len(Replies') = Len(Replies) - d
    /\ \A i \in 1..Len(Replies') : Same(Replies'[i], Replies[i + d])
Answered(r) ==
    /\ Len(Replies) \in Nat /\ Len(Replies') = Len(Replies) + 1
    /\ \A i \in 1..Len(Replies) : Replies'[i] = Replies[i]
    /\ Replies'[Len(Replies) + 1] = r

\* Where the replies in the host's buffer and those on their way stand among all.
LEMMA RepliesFacts ==
  ASSUME PacketTyped
  PROVE  /\ Len(p_rxbuf) \in Nat /\ Len(p_air) \in Nat
         /\ Len(Replies) = Len(p_rxbuf) + Len(p_air)
         /\ \A i \in 1..Len(p_rxbuf) : Replies[i] = p_rxbuf[i]
         /\ \A i \in 1..Len(Replies) : i > Len(p_rxbuf) => Replies[i] = p_air[i - Len(p_rxbuf)]
         /\ \A i \in 1..Len(p_air) : Replies[i + Len(p_rxbuf)] = p_air[i]
  BY DEF PacketTyped, Replies

\* The types of the replies after a step.
LEMMA RepliesTyped ==
  PacketTyped' => /\ Len(Replies') = Len(p_rxbuf') + Len(p_air')
                  /\ \A i \in 1..Len(Replies') : Replies'[i] \in PacketReply /\ Replies'[i].run \in Nat
<1> SUFFICES ASSUME PacketTyped'
             PROVE  /\ Len(Replies') = Len(p_rxbuf') + Len(p_air')
                    /\ \A i \in 1..Len(Replies') : Replies'[i] \in PacketReply /\ Replies'[i].run \in Nat
  OBVIOUS
<1>1. Replies' \in Seq(PacketReply) /\ Len(Replies') = Len(p_rxbuf') + Len(p_air')
  BY SeqFacts DEF Replies, PacketTyped
<1>2. \A i \in 1..Len(Replies') : Replies'[i] \in PacketReply
  BY <1>1, SeqFacts
<1>3. \A r \in PacketReply : r.run \in Nat
  BY DEF PacketReply
<1> QED BY <1>1, <1>2, <1>3

\* The types of the requests on the line.
LEMMA LineTyped ==
  ASSUME PacketTyped
  PROVE  /\ Len(p_line) \in Nat
         /\ \A i \in 1..Len(p_line) :
              /\ p_line[i] \in PacketRequest /\ p_line[i].run \in Nat
              /\ p_line[i].kind \in PacketKinds /\ p_line[i].value \in OperandValues
<1>1. \A i \in 1..Len(p_line) : p_line[i] \in PacketRequest
  BY SeqFacts DEF PacketTyped
<1>2. \A r \in PacketRequest : r.run \in Nat /\ r.kind \in PacketKinds /\ r.value \in OperandValues
  BY DEF PacketRequest
<1>3. Len(p_line) \in Nat
  BY DEF PacketTyped
<1> QED BY <1>1, <1>2, <1>3

\* reset_input_buffer drops what was buffered.
LEMMA DropBuffer ==
  ASSUME PacketTyped, p_rxbuf' = <<>>, p_air' = p_air
  PROVE  Dropped(Len(p_rxbuf))
<1>1. Replies' = p_air
  BY DEF Replies, PacketTyped
<1>2. \A i \in 1..Len(p_air) : Same(Replies'[i], Replies[i + Len(p_rxbuf)])
  BY <1>1, RepliesFacts DEF Same
<1>3. Len(Replies') = Len(Replies) - Len(p_rxbuf) /\ Len(Replies') = Len(p_air)
  BY <1>1, RepliesFacts
<1> HIDE DEF Replies
<1> QED BY <1>2, <1>3, RepliesFacts DEF Dropped

\* A step away from the replies leaves them as they are.
LEMMA DropNothing ==
  ASSUME PacketTyped, p_rxbuf' = p_rxbuf, p_air' = p_air
  PROVE  Dropped(0)
<1>1. Replies' = Replies
  BY DEF Replies
<1> QED BY <1>1, RepliesFacts DEF Dropped, Same

\* read_frame takes the next reply.
LEMMA DropHead ==
  ASSUME PacketTyped, p_rxbuf # <<>>, p_rxbuf' = Tail(p_rxbuf), p_air' = p_air
  PROVE  Dropped(1) /\ Len(Replies) > 0 /\ Replies[1] = Head(p_rxbuf) /\ Head(p_rxbuf) \in PacketReply
<1>1. /\ Len(p_rxbuf) > 0 /\ Len(p_rxbuf') = Len(p_rxbuf) - 1 /\ p_rxbuf' \in Seq(PacketReply)
      /\ \A i \in 1..Len(p_rxbuf') : p_rxbuf'[i] = p_rxbuf[i + 1]
      /\ Head(p_rxbuf) = p_rxbuf[1] /\ Head(p_rxbuf) \in PacketReply
  BY DEF PacketTyped
<1>2. /\ Len(Replies') = Len(p_rxbuf') + Len(p_air)
      /\ \A i \in 1..Len(p_rxbuf') : Replies'[i] = p_rxbuf'[i]
      /\ \A i \in 1..Len(Replies') : i > Len(p_rxbuf') => Replies'[i] = p_air[i - Len(p_rxbuf')]
  BY <1>1 DEF Replies, PacketTyped
<1>3. ASSUME NEW i \in 1..Len(Replies') PROVE Replies'[i] = Replies[i + 1]
  <2>1. CASE i <= Len(p_rxbuf')
    BY <2>1, <1>1, <1>2, RepliesFacts
  <2>2. CASE i > Len(p_rxbuf')
    <3>1. i - Len(p_rxbuf') \in 1..Len(p_air) /\ i + 1 = (i - Len(p_rxbuf')) + Len(p_rxbuf)
      BY <2>2, <1>1, <1>2, RepliesFacts
    <3> QED BY <2>2, <3>1, <1>2, RepliesFacts
  <2> QED BY <2>1, <2>2, <1>1, <1>2, RepliesFacts
<1> QED BY <1>1, <1>2, <1>3, RepliesFacts DEF Dropped, Same

\* A reply that arrives stays in its place.
LEMMA DropArrival ==
  ASSUME PacketTyped, p_air # <<>>, p_air' = Tail(p_air), NEW x \in PacketReply,
         p_rxbuf' = Append(p_rxbuf, x), Same(x, Head(p_air))
  PROVE  Dropped(0)
<1>1. /\ Len(p_air) > 0 /\ Len(p_air') = Len(p_air) - 1 /\ p_air' \in Seq(PacketReply)
      /\ \A i \in 1..Len(p_air') : p_air'[i] = p_air[i + 1]
      /\ Head(p_air) = p_air[1]
  BY DEF PacketTyped
<1>2. /\ p_rxbuf' \in Seq(PacketReply) /\ Len(p_rxbuf') = Len(p_rxbuf) + 1
      /\ \A i \in 1..Len(p_rxbuf) : p_rxbuf'[i] = p_rxbuf[i]
      /\ p_rxbuf'[Len(p_rxbuf) + 1] = x
  BY DEF PacketTyped
<1>3. /\ Len(Replies') = Len(p_rxbuf') + Len(p_air')
      /\ \A i \in 1..Len(p_rxbuf') : Replies'[i] = p_rxbuf'[i]
      /\ \A i \in 1..Len(Replies') : i > Len(p_rxbuf') => Replies'[i] = p_air'[i - Len(p_rxbuf')]
  BY <1>1, <1>2 DEF Replies
<1>4. ASSUME NEW i \in 1..Len(Replies') PROVE Same(Replies'[i], Replies[i])
  <2>1. CASE i <= Len(p_rxbuf)
    <3>1. i \in 1..Len(p_rxbuf) /\ i \in 1..Len(p_rxbuf')
      <4>1. Len(p_rxbuf) \in Nat /\ i \in Nat /\ i >= 1
        BY RepliesFacts, <1>1, <1>2, <1>3
      <4> QED BY ONLY <4>1, <2>1, <1>2
    <3>2. Replies'[i] = Replies[i]
      BY <3>1, <1>2, <1>3, RepliesFacts
    <3> QED BY <3>2 DEF Same
  <2>2. CASE i = Len(p_rxbuf) + 1
    <3>1. Replies'[i] = x
      BY <2>2, <1>2, <1>3, RepliesFacts
    <3>2. Replies[i] = p_air[1]
      <4>1. 1 \in 1..Len(p_air) /\ i = 1 + Len(p_rxbuf)
        BY <2>2, <1>1, RepliesFacts
      <4> QED BY <4>1, RepliesFacts
    <3> QED BY <3>1, <3>2, <1>1
  <2>3. CASE i > Len(p_rxbuf) + 1
    <3> DEFINE j == i - Len(p_rxbuf')
    <3>1. j \in 1..Len(p_air') /\ i = (j + 1) + Len(p_rxbuf) /\ j + 1 \in 1..Len(p_air)
      BY <2>3, <1>1, <1>2, <1>3, RepliesFacts
    <3>2. Replies'[i] = p_air'[j] /\ p_air'[j] = p_air[j + 1]
      BY <2>3, <3>1, <1>1, <1>2, <1>3
    <3> HIDE DEF j
    <3>3. Replies[i] = p_air[j + 1]
      BY <3>1, RepliesFacts
    <3> QED BY <3>2, <3>3 DEF Same
  <2> QED BY <2>1, <2>2, <2>3, RepliesFacts
<1>5. Len(Replies') = Len(Replies) /\ Len(Replies) \in Nat
  <2>1. Len(p_rxbuf) \in Nat /\ Len(p_air) \in Nat /\ Len(Replies) = Len(p_rxbuf) + Len(p_air)
    BY RepliesFacts
  <2> QED BY ONLY <2>1, <1>1, <1>2, <1>3
<1>6. \A i \in 1..Len(Replies') : i + 0 = i
  BY <1>5
<1> QED BY <1>4, <1>5, <1>6 DEF Dropped

\* An answer stands behind all earlier ones.
LEMMA AnswerFollows ==
  ASSUME PacketTyped, NEW r \in PacketReply, p_rxbuf' = p_rxbuf, p_air' = Append(p_air, r)
  PROVE  Answered(r)
<1>1. Replies' = Append(Replies, r)
  BY DEF Replies, PacketTyped
<1>2. Replies \in Seq(PacketReply)
  BY DEF Replies, PacketTyped
<1> QED BY <1>1, <1>2 DEF Answered

\* What taking replies from the front preserves.
LEMMA DroppedKeeps ==
  ASSUME NEW d, Dropped(d)
  PROVE  /\ \A k \in {1, 2, 3} : FreshIsBehind(k) => FreshIsBehind(k)'
         /\ NoneIsFresh => NoneIsFresh'
         /\ NoneIsLater => \A i \in 1..Len(Replies') : Replies'[i].run <= p_run
         /\ \A c \in Int : (\A i \in 1..Len(Replies) : i > c => Replies[i].run = p_run) =>
                           \A i \in 1..Len(Replies') : i > c - d => Replies'[i].run = p_run
         /\ ~OwnRetiredSeen =>
              \A i \in 1..Len(Replies') : ~(Replies'[i].kind = "RETIRED" /\ Replies'[i].run = p_run)
<1>1. \A i \in 1..Len(Replies') : i + d \in 1..Len(Replies)
  BY DEF Dropped
<1>2. ASSUME NEW k \in {1, 2, 3}, FreshIsBehind(k) PROVE FreshIsBehind(k)'
  <2>1. ASSUME NEW i \in 1..Len(Replies'), IsFresh(Replies'[i]) PROVE i + k <= Len(Replies')
    <3>1. IsFresh(Replies[i + d]) /\ i + d \in 1..Len(Replies)
      BY <1>1, <2>1 DEF Dropped, Same, IsFresh
    <3>2. (i + d) + k <= Len(Replies)
      BY <1>2, <3>1 DEF FreshIsBehind
    <3> QED BY <3>2 DEF Dropped
  <2> QED BY <2>1 DEF FreshIsBehind
<1>3. ASSUME NoneIsFresh PROVE NoneIsFresh'
  BY <1>1, <1>3 DEF Dropped, Same, NoneIsFresh, IsFresh
<1>4. ASSUME NoneIsLater PROVE \A i \in 1..Len(Replies') : Replies'[i].run <= p_run
  BY <1>1, <1>4 DEF Dropped, Same, NoneIsLater
<1>5. ASSUME NEW c \in Int, \A i \in 1..Len(Replies) : i > c => Replies[i].run = p_run
      PROVE  \A i \in 1..Len(Replies') : i > c - d => Replies'[i].run = p_run
  BY <1>1, <1>5 DEF Dropped, Same
<1>6. ASSUME ~OwnRetiredSeen, NEW i \in 1..Len(Replies')
      PROVE  ~(Replies'[i].kind = "RETIRED" /\ Replies'[i].run = p_run)
  BY <1>1, <1>6 DEF Dropped, Same, OwnRetiredSeen
<1> QED BY <1>2, <1>3, <1>4, <1>5, <1>6

\* What an answer at the end preserves.
LEMMA AnsweredKeeps ==
  ASSUME NEW r, Answered(r)
  PROVE  /\ \A k \in {1, 2, 3} : FreshIsBehind(k) /\ ~IsFresh(r) => FreshIsBehind(k)'
         /\ \A k \in {1, 2} : FreshIsBehind(k) /\ ~IsFresh(r) => FreshIsBehind(k + 1)'
         /\ ~IsFresh(r) => FreshIsBehind(1)'
         /\ NoneIsFresh /\ ~IsFresh(r) => NoneIsFresh'
         /\ NoneIsLater /\ r.run <= p_run => \A i \in 1..Len(Replies') : Replies'[i].run <= p_run
         /\ \A c \in Int : (\A i \in 1..Len(Replies) : i > c => Replies[i].run = p_run) /\ r.run = p_run
                           => \A i \in 1..Len(Replies') : i > c => Replies'[i].run = p_run
         /\ ~OwnRetiredSeen /\ ~(r.kind = "RETIRED" /\ r.run = p_run) =>
              \A i \in 1..Len(Replies') : ~(Replies'[i].kind = "RETIRED" /\ Replies'[i].run = p_run)
<1>1. \A i \in 1..Len(Replies') : i \in 1..Len(Replies) \/ i = Len(Replies) + 1
  BY DEF Answered
<1>2. ASSUME NEW k \in {1, 2, 3}, FreshIsBehind(k), ~IsFresh(r)
      PROVE  FreshIsBehind(k)' /\ FreshIsBehind(k + 1)'
  BY <1>1, <1>2 DEF Answered, FreshIsBehind
<1>3. ASSUME ~IsFresh(r) PROVE FreshIsBehind(1)'
  BY <1>1, <1>3 DEF Answered, FreshIsBehind
<1> QED BY <1>1, <1>2, <1>3 DEF Answered, NoneIsFresh, NoneIsLater, OwnRetiredSeen

\* The request of a stage, whole or torn, is of this run and its operand.
LEMMA RequestFacts ==
  ASSUME PacketTyped, p_stage \in Exchanges
  PROVE  /\ Packet!Request \in PacketRequest
         /\ [Packet!Request EXCEPT !.kind = "part"] \in PacketRequest
         /\ Packet!Request = [kind |-> p_stage, run |-> p_run, value |-> p_args.value]
         /\ [Packet!Request EXCEPT !.kind = "part"] = [kind |-> "part", run |-> p_run, value |-> p_args.value]
<1>1. p_run \in Nat /\ p_args.value \in OperandValues
  BY DEF PacketTyped, Exchanges
<1>2. p_stage \in PacketKinds /\ "part" \in PacketKinds
  BY DEF Exchanges, PacketKinds
<1> QED BY <1>1, <1>2 DEF Packet!Request, PacketRequest

\* The bounds are natural numbers, and None is no operand.
LEMMA PacketConstants ==
    /\ PacketRuns \in Nat /\ PacketLate \in Nat /\ PacketDamage \in Nat /\ None \notin OperandValues
  BY PacketAssumption DEF Packet!RunAssumption

\* The stages that exchange something.
LEMMA StageFacts ==
    /\ \A s \in Exchanges : s \notin {"abort", "exited"}
    /\ {"status", "negotiate", "instruction", "status_again", "retire"} = Exchanges
  BY DEF Exchanges

\* _run(): the exchange after this one.
LEMMA NextStage ==
  ASSUME NEW operation \in {"status", "set"}, NEW s \in {"status", "negotiate", "instruction"},
         s = "instruction" => operation = "set"
  PROVE  LET all == Packet!Stages(operation)
         IN  all[1 + CHOOSE i \in DOMAIN all : all[i] = s]
               = CASE s = "status" -> "negotiate"
                   [] s = "negotiate" -> IF operation = "set" THEN "instruction" ELSE "status_again"
                   [] s = "instruction" -> "retire"
<1> DEFINE all == Packet!Stages(operation)
           t == IF s = "status" THEN 1 ELSE IF s = "negotiate" THEN 2 ELSE 3
<1>1. /\ t \in DOMAIN all /\ all[t] = s
      /\ \A i \in DOMAIN all : all[i] = s => i = t
  BY DEF Packet!Stages
<1>2. (CHOOSE i \in DOMAIN all : all[i] = s) = t
  BY <1>1
<1>3. all[1 + t] = CASE s = "status" -> "negotiate"
                     [] s = "negotiate" -> IF operation = "set" THEN "instruction" ELSE "status_again"
                     [] s = "instruction" -> "retire"
  BY DEF Packet!Stages
<1> HIDE DEF t
<1> QED BY <1>2, <1>3

\* Before the first run.
LEMMA PacketInitInv == Packet!Init => PacketInv
<1> SUFFICES ASSUME Packet!Init PROVE PacketInv
  OBVIOUS
<1>1. /\ p_run = 0 /\ p_stage = "exited" /\ p_phase = "done" /\ p_exit = None /\ p_rxbuf = <<>>
      /\ p_air = <<>> /\ p_line = <<>> /\ p_partial = FALSE /\ p_staged = None /\ p_retired = <<>>
      /\ p_args = [operation |-> "status", value |-> None]
  BY DEF Packet!Init
<1>2. Len(Replies) = 0 /\ p_args.operation = "status"
  BY <1>1 DEF Replies
<1>3. PacketTyped
  <2>0. PacketRuns \in Nat
    BY PacketConstants
  <2>1. p_run \in 0..PacketRuns
    BY <1>1, <2>0
  <2>3. p_partial \in BOOLEAN
    BY <1>1, Zenon
  <2>2. /\ p_rxbuf \in Seq(PacketReply) /\ p_air \in Seq(PacketReply) /\ p_line \in Seq(PacketRequest)
        /\ p_retired \in Seq([run : Nat, value : OperandValues]) /\ Len(p_retired) <= 1
    BY <1>1, SeqFacts
  <2> QED BY <1>1, <1>2, <2>1, <2>2, <2>3 DEF PacketTyped
<1>4. FewOutstanding /\ StageInOrder /\ LineInOrder
  BY <1>1, <1>2 DEF FewOutstanding, StageInOrder, LineInOrder
<1>5. RepliesFollow /\ OwnReplies /\ RetirementFollows
  BY <1>1, <1>2 DEF RepliesFollow, OwnReplies, RetirementFollows, NoneIsLater, OwnRetiredSeen, Exchanges,
      FreshIsBehind, NoneIsFresh
<1> QED BY <1>3, <1>4, <1>5 DEF PacketInv

\* A new process opens the port, with at most three replies outstanding.
LEMMA PacketStartStep == PacketInv /\ PacketLate <= 3 /\ Packet!Start => PacketInv'
<1> SUFFICES ASSUME PacketInv, PacketLate <= 3, Packet!Start PROVE PacketInv'
  OBVIOUS
<1>1. /\ p_stage = "exited" /\ p_run < PacketRuns /\ Len(p_line) + Len(p_air) <= PacketLate
      /\ p_run' = p_run + 1 /\ p_args'.operation \in {"status", "set"} /\ p_args'.value \in OperandValues
      /\ p_stage' = "abort" /\ p_phase' = "break" /\ p_exit' = None /\ p_rxbuf' = <<>>
      /\ UNCHANGED <<p_air, p_line, p_partial, p_staged, p_retired>>
  BY DEF Packet!Start, Packet!board
<1>2. PacketTyped
  BY DEF PacketInv
<1>3. p_run \in Nat /\ PacketRuns \in Nat /\ PacketLate \in Nat
  BY <1>2, PacketConstants DEF PacketTyped
<1>4. PacketTyped'
  <2>1. p_run' \in 0..PacketRuns /\ p_run' > 0
    BY <1>1, <1>3
  <2>2. p_rxbuf' \in Seq(PacketReply)
    BY <1>1, SeqFacts
  <2> QED BY <1>1, <1>2, <2>1, <2>2 DEF PacketTyped
<1>5. Dropped(Len(p_rxbuf))
  BY <1>1, <1>2, DropBuffer
<1>6. FewOutstanding'
  <2>1. Len(p_rxbuf') = 0 /\ Len(p_air) \in Nat /\ Len(p_line) \in Nat
    BY <1>1, <1>2 DEF PacketTyped
  <2> QED BY <1>1, <1>3, <2>1 DEF FewOutstanding
<1>7. StageInOrder'
  BY <1>1 DEF StageInOrder
<1>8. LineInOrder'
  <2>1. FreshIsBehind(1) => FreshIsBehind(1)'
    BY <1>5, DroppedKeeps
  <2>2. \A i \in 1..Len(p_line) : p_line[i].run \in Nat
    BY <1>2, LineTyped
  <2> QED BY <1>1, <1>3, <2>1, <2>2 DEF PacketInv, LineInOrder, Exchanges
<1>9. RepliesFollow'
  BY <1>1, <1>5, DroppedKeeps DEF PacketInv, RepliesFollow
<1>10. NoneIsLater' /\ ~OwnRetiredSeen'
  <2>1. \A i \in 1..Len(Replies') : Replies'[i].run <= p_run
    BY <1>5, DroppedKeeps DEF PacketInv, OwnReplies
  <2>2. \A i \in 1..Len(Replies') : Replies'[i].run \in Nat
    BY <1>4, RepliesTyped
  <2> QED BY <1>1, <1>3, <2>1, <2>2 DEF NoneIsLater, OwnRetiredSeen
<1>11. OwnReplies' /\ RetirementFollows'
  BY <1>1, <1>10 DEF OwnReplies, RetirementFollows, Exchanges
<1> QED BY <1>4, <1>6, <1>7, <1>8, <1>9, <1>11 DEF PacketInv

\* abort(): the BREAK drops what the endpoint has not answered.
LEMMA PacketBreakStep == PacketInv /\ Packet!Break => PacketInv'
<1> SUFFICES ASSUME PacketInv, Packet!Break PROVE PacketInv'
  OBVIOUS
<1>1. /\ p_stage = "abort" /\ p_phase = "break" /\ p_line' = <<>> /\ p_partial' = FALSE
      /\ p_staged' = None /\ p_phase' = "settle"
      /\ UNCHANGED <<p_run, p_args, p_stage, p_exit, p_rxbuf, p_last, p_air, p_retired>>
  BY DEF Packet!Break, Packet!LineAfterBreak
<1>2. PacketTyped
  BY DEF PacketInv
<1>3. PacketTyped'
  <2>1. p_line' \in Seq(PacketRequest)
    BY <1>1, SeqFacts
  <2>2. p_partial' \in BOOLEAN
    BY <1>1, Zenon
  <2> QED BY <1>1, <1>2, <2>1, <2>2 DEF PacketTyped
<1>5. Dropped(0)
  BY <1>1, <1>2, DropNothing
<1>6. FewOutstanding'
  <2>1. Len(p_rxbuf) \in Nat /\ Len(p_air) \in Nat /\ Len(p_line) \in Nat /\ Len(p_line') = 0
    BY <1>1, <1>2 DEF PacketTyped
  <2> QED BY <1>1, <2>1 DEF FewOutstanding, PacketInv
<1>7. StageInOrder' /\ LineInOrder'
  BY <1>1, LenEmpty DEF StageInOrder, LineInOrder, Exchanges
<1>9. RepliesFollow'
  BY <1>1, <1>5, DroppedKeeps DEF PacketInv, RepliesFollow
<1>10. NoneIsLater' /\ (OwnRetiredSeen' => OwnRetiredSeen)
  BY <1>1, <1>5, DroppedKeeps DEF PacketInv, OwnReplies, NoneIsLater, OwnRetiredSeen
<1>11. OwnReplies' /\ RetirementFollows'
  BY <1>1, <1>10 DEF PacketInv, OwnReplies, RetirementFollows, Exchanges, RetiredHere
<1> QED BY <1>3, <1>6, <1>7, <1>9, <1>11 DEF PacketInv

\* abort(): the pause after the BREAK, and the drain.
LEMMA PacketSettledStep == PacketInv /\ Packet!Settled => PacketInv'
<1> SUFFICES ASSUME PacketInv, Packet!Settled PROVE PacketInv'
  OBVIOUS
<1>1. /\ p_stage = "abort" /\ p_phase = "settle" /\ p_rxbuf' = <<>> /\ p_stage' = "status"
      /\ p_phase' = "drain"
      /\ UNCHANGED <<p_run, p_args, p_exit, p_last, p_air, p_line, p_partial, p_staged, p_retired>>
  BY DEF Packet!Settled, Packet!board
<1>2. PacketTyped
  BY DEF PacketInv
<1>3. PacketTyped'
  <2>1. p_rxbuf' \in Seq(PacketReply)
    BY <1>1, SeqFacts
  <2> QED BY <1>1, <1>2, <2>1 DEF PacketTyped, Exchanges
<1>4. Len(p_line) = 0 /\ p_staged = None /\ ~p_partial
  BY <1>1, <1>2 DEF PacketInv, LineInOrder, PacketTyped
<1>5. Dropped(Len(p_rxbuf))
  BY <1>1, <1>2, DropBuffer
<1>6. Len(p_rxbuf) \in Nat /\ Len(p_air) \in Nat /\ Len(p_rxbuf') = 0 /\ Len(p_air) <= 3
      /\ Len(p_rxbuf) + Len(p_air) <= 3 /\ Len(Replies') <= 3 /\ Len(Replies') \in Nat
  <2>1. Len(p_rxbuf) \in Nat /\ Len(p_air) \in Nat /\ Len(p_rxbuf') = 0
        /\ Len(p_rxbuf) + Len(p_air) <= 3
    BY <1>1, <1>2, <1>4 DEF PacketTyped, PacketInv, FewOutstanding
  <2>2. Len(Replies') = Len(p_rxbuf') + Len(p_air')
    BY <1>3, RepliesTyped
  <2> QED BY <1>1, <2>1, <2>2
<1>7. FewOutstanding' /\ StageInOrder' /\ LineInOrder'
  BY <1>1, <1>4, <1>6 DEF FewOutstanding, StageInOrder, LineInOrder, OnLine, Asked, Exchanges
<1>8. p_retired # <<>> => NoneIsFresh'
  <2>1. p_retired # <<>> => FreshIsBehind(3)'
    BY <1>5, DroppedKeeps DEF PacketInv, RepliesFollow
  <2> QED BY <1>6, <2>1 DEF FreshIsBehind, NoneIsFresh
<1>9. RepliesFollow'
  BY <1>1, <1>4, <1>5, <1>8, DroppedKeeps DEF PacketInv, RepliesFollow, Asked
<1>10. NoneIsLater' /\ (OwnRetiredSeen' => OwnRetiredSeen)
  BY <1>1, <1>5, DroppedKeeps DEF PacketInv, OwnReplies, NoneIsLater, OwnRetiredSeen
<1>11. OwnReplies' /\ RetirementFollows'
  <2>1. ReadSoFar' = 0
    BY <1>1 DEF ReadSoFar
  <2> QED BY <1>1, <1>6, <1>10, <2>1 DEF PacketInv, OwnReplies, RetirementFollows, RetiredHere
<1> QED BY <1>3, <1>7, <1>9, <1>11 DEF PacketInv

\* exchange_encoded drains the port's buffer.
LEMMA PacketDrainStep == PacketInv /\ Packet!Drain => PacketInv'
<1> SUFFICES ASSUME PacketInv, Packet!Drain PROVE PacketInv'
  OBVIOUS
<1>1. /\ p_phase = "drain" /\ p_rxbuf' = <<>> /\ p_phase' = "write"
      /\ UNCHANGED <<p_run, p_args, p_stage, p_exit, p_last, p_air, p_line, p_partial, p_staged, p_retired>>
  BY DEF Packet!Drain, Packet!board
<1>2. PacketTyped
  BY DEF PacketInv
<1>3. PacketTyped'
  <2>1. p_rxbuf' \in Seq(PacketReply)
    BY <1>1, SeqFacts
  <2> QED BY <1>1, <1>2, <2>1 DEF PacketTyped
<1>4. p_stage \in Exchanges /\ ~Asked /\ ~Asked' /\ p_stage # "exited" /\ p_stage # "abort"
  BY <1>1, <1>2 DEF PacketTyped, Asked, Exchanges
<1>5. Dropped(Len(p_rxbuf)) /\ Len(p_rxbuf) \in Nat
  BY <1>1, <1>2, DropBuffer DEF PacketTyped
<1>6. FewOutstanding'
  <2>1. Len(p_rxbuf) \in Nat /\ Len(p_air) \in Nat /\ Len(p_line) \in Nat /\ Len(p_rxbuf') = 0
    BY <1>1, <1>2 DEF PacketTyped
  <2> QED BY <1>1, <1>4, <2>1 DEF FewOutstanding, PacketInv
<1>7. StageInOrder' /\ LineInOrder'
  BY <1>1, <1>4, <1>5, DroppedKeeps DEF PacketInv, StageInOrder, LineInOrder, OnLine
<1>9. RepliesFollow'
  BY <1>1, <1>4, <1>5, DroppedKeeps DEF PacketInv, RepliesFollow
<1>10. NoneIsLater' /\ (OwnRetiredSeen' => OwnRetiredSeen)
  BY <1>1, <1>5, DroppedKeeps DEF PacketInv, OwnReplies, NoneIsLater, OwnRetiredSeen
<1>11. OwnReplies' /\ RetirementFollows'
  <2>1. ReadSoFar' = ReadSoFar /\ 3 - ReadSoFar \in Int
    BY <1>1 DEF ReadSoFar
  <2>2. \A i \in 1..Len(Replies') : i > 3 - ReadSoFar => Replies'[i].run = p_run
    <3>1. \A i \in 1..Len(Replies') : i > (3 - ReadSoFar) - Len(p_rxbuf) => Replies'[i].run = p_run
      BY <1>4, <1>5, <2>1, DroppedKeeps DEF PacketInv, OwnReplies
    <3> QED BY <1>5, <2>1, <3>1 DEF Dropped
  <2> QED BY <1>1, <1>4, <1>10, <2>1, <2>2 DEF PacketInv, OwnReplies, RetirementFollows, RetiredHere
<1> QED BY <1>3, <1>6, <1>7, <1>9, <1>11 DEF PacketInv

\* exchange_encoded reads a reply.
LEMMA PacketReadStep == PacketInv /\ Packet!ReadReply => PacketInv'
<1> SUFFICES ASSUME PacketInv, Packet!ReadReply PROVE PacketInv'
  OBVIOUS
<1>1. /\ p_phase = "read" /\ p_rxbuf # <<>> /\ p_last' = Head(p_rxbuf) /\ p_rxbuf' = Tail(p_rxbuf)
      /\ p_phase' = "surplus"
      /\ UNCHANGED <<p_run, p_args, p_stage, p_exit, p_air, p_line, p_partial, p_staged, p_retired>>
  BY DEF Packet!ReadReply, Packet!board
<1>2. PacketTyped
  BY DEF PacketInv
<1>3. /\ Dropped(1) /\ Len(Replies) > 0 /\ Replies[1] = p_last' /\ p_last' \in PacketReply
      /\ Len(Replies) \in Nat
  BY <1>1, <1>2, DropHead DEF Dropped
<1>4. p_stage \in Exchanges /\ Asked /\ Asked' /\ p_stage # "exited" /\ p_stage # "abort"
  BY <1>1, <1>2 DEF PacketTyped, Asked, Exchanges
<1>5. p_rxbuf' \in Seq(PacketReply) /\ Len(p_rxbuf') = Len(p_rxbuf) - 1
  BY <1>1, <1>2, SeqFacts DEF PacketTyped
<1>6. PacketTyped'
  BY <1>1, <1>2, <1>3, <1>5 DEF PacketTyped
<1>7. FewOutstanding'
  <2>1. Len(p_rxbuf) \in Nat /\ Len(p_air) \in Nat /\ Len(p_line) \in Nat
    BY <1>2 DEF PacketTyped
  <2> QED BY <1>1, <1>4, <1>5, <2>1 DEF FewOutstanding, PacketInv
<1>8. StageInOrder' /\ LineInOrder'
  BY <1>1, <1>4, <1>3, DroppedKeeps DEF PacketInv, StageInOrder, LineInOrder, OnLine
<1>9. RepliesFollow'
  <2>1. p_stage = "status" /\ p_retired # <<>> => ~IsFresh(p_last')
    BY <1>3 DEF PacketInv, RepliesFollow, NoneIsFresh
  <2> QED BY <1>1, <1>3, <1>4, <2>1, DroppedKeeps DEF PacketInv, RepliesFollow
<1>10. NoneIsLater' /\ (OwnRetiredSeen' => OwnRetiredSeen)
  BY <1>1, <1>3, DroppedKeeps DEF PacketInv, OwnReplies, NoneIsLater, OwnRetiredSeen
<1>11. OwnReplies' /\ RetirementFollows'
  <2>1. ReadSoFar' = ReadSoFar + 1 /\ ReadSoFar \in 0..3 /\ (p_stage = "retire" => ReadSoFar = 3)
    BY <1>1 DEF ReadSoFar
  <2>2. \A i \in 1..Len(Replies') : i > 3 - ReadSoFar' => Replies'[i].run = p_run
    <3>1. \A i \in 1..Len(Replies') : i > (3 - ReadSoFar) - 1 => Replies'[i].run = p_run
      BY <1>3, <1>4, <2>1, DroppedKeeps DEF PacketInv, OwnReplies
    <3>2. 3 - ReadSoFar' = (3 - ReadSoFar) - 1
      BY <2>1
    <3> QED BY <3>1, <3>2
  <2>3. p_stage = "retire" => p_last'.run = p_run
    BY <1>3, <1>4, <2>1 DEF PacketInv, OwnReplies
  <2>4. p_last'.kind = "RETIRED" /\ p_last'.run = p_run => OwnRetiredSeen
    BY <1>3 DEF OwnRetiredSeen
  <2> QED BY <1>1, <1>4, <1>10, <2>2, <2>3, <2>4
          DEF PacketInv, OwnReplies, RetirementFollows, RetiredHere
<1> QED BY <1>6, <1>7, <1>8, <1>9, <1>11 DEF PacketInv

\* A reply arrives, damaged or not.
LEMMA PacketArriveStep == PacketInv /\ Packet!Arrive => PacketInv'
<1> SUFFICES ASSUME PacketInv, Packet!Arrive PROVE PacketInv'
  OBVIOUS
<1>1. /\ p_air # <<>> /\ p_air' = Tail(p_air)
      /\ \/ p_rxbuf' = Append(p_rxbuf, Head(p_air))
         \/ p_rxbuf' = Append(p_rxbuf, [Head(p_air) EXCEPT !.damaged = TRUE])
      /\ UNCHANGED <<p_run, p_args, p_stage, p_phase, p_exit, p_last, p_line, p_partial, p_staged, p_retired>>
  BY DEF Packet!Arrive
<1>2. PacketTyped
  BY DEF PacketInv
<1>3. PICK x \in PacketReply : p_rxbuf' = Append(p_rxbuf, x) /\ Same(x, Head(p_air))
  <2>1. Head(p_air) \in PacketReply
    BY <1>1, <1>2, SeqFacts DEF PacketTyped
  <2>2. /\ [Head(p_air) EXCEPT !.damaged = TRUE] \in PacketReply
        /\ Same([Head(p_air) EXCEPT !.damaged = TRUE], Head(p_air))
    BY <2>1 DEF PacketReply, Same
  <2>3. Same(Head(p_air), Head(p_air))
    BY DEF Same
  <2> QED BY <1>1, <2>1, <2>2, <2>3
<1>4. Dropped(0)
  BY <1>1, <1>2, <1>3, DropArrival
<1>5. /\ p_rxbuf' \in Seq(PacketReply) /\ Len(p_rxbuf') = Len(p_rxbuf) + 1
      /\ p_air' \in Seq(PacketReply) /\ Len(p_air') = Len(p_air) - 1
  BY <1>1, <1>2, <1>3, SeqFacts DEF PacketTyped
<1>6. PacketTyped'
  BY <1>1, <1>2, <1>5 DEF PacketTyped
<1>7. FewOutstanding'
  <2>1. Len(p_rxbuf) \in Nat /\ Len(p_air) \in Nat /\ Len(p_line) \in Nat
    BY <1>2 DEF PacketTyped
  <2> QED BY <1>1, <1>5, <2>1 DEF FewOutstanding, PacketInv
<1>8. StageInOrder' /\ LineInOrder'
  BY <1>1, <1>4, DroppedKeeps DEF PacketInv, StageInOrder, LineInOrder, OnLine, Asked
<1>9. RepliesFollow'
  BY <1>1, <1>4, DroppedKeeps DEF PacketInv, RepliesFollow, Asked
<1>10. NoneIsLater' /\ (OwnRetiredSeen' => OwnRetiredSeen)
  BY <1>1, <1>4, DroppedKeeps DEF PacketInv, OwnReplies, NoneIsLater, OwnRetiredSeen
<1>11. OwnReplies' /\ RetirementFollows'
  <2>1. ReadSoFar' = ReadSoFar /\ 3 - ReadSoFar \in Int
    BY <1>1 DEF ReadSoFar
  <2>2. p_stage \in Exchanges => \A i \in 1..Len(Replies') : i > 3 - ReadSoFar => Replies'[i].run = p_run
    <3>1. p_stage \in Exchanges =>
            \A i \in 1..Len(Replies') : i > (3 - ReadSoFar) - 0 => Replies'[i].run = p_run
      BY <1>4, <2>1, DroppedKeeps DEF PacketInv, OwnReplies
    <3> QED BY <2>1, <3>1
  <2> QED BY <1>1, <1>10, <2>1, <2>2 DEF PacketInv, OwnReplies, RetirementFollows, RetiredHere
<1> QED BY <1>6, <1>7, <1>8, <1>9, <1>11 DEF PacketInv

\* The operator resets the board.
LEMMA PacketResetStep == PacketInv /\ Packet!HardwareReset => PacketInv'
<1> SUFFICES ASSUME PacketInv, Packet!HardwareReset PROVE PacketInv'
  OBVIOUS
<1>1. /\ p_stage = "exited" /\ p_phase' = "reset" /\ p_line' = <<>> /\ p_partial' = FALSE
      /\ p_staged' = None /\ p_retired' = <<>>
      /\ UNCHANGED <<p_run, p_args, p_stage, p_exit, p_rxbuf, p_last, p_air>>
  BY DEF Packet!HardwareReset
<1>2. PacketTyped
  BY DEF PacketInv
<1>3. PacketTyped'
  <2>1. /\ p_line' \in Seq(PacketRequest) /\ p_retired' \in Seq([run : Nat, value : OperandValues])
        /\ Len(p_retired') = 0
    BY <1>1, SeqFacts
  <2>2. p_partial' \in BOOLEAN
    BY <1>1, Zenon
  <2> QED BY <1>1, <1>2, <2>1, <2>2 DEF PacketTyped
<1>5. Dropped(0)
  BY <1>1, <1>2, DropNothing
<1>6. FewOutstanding' /\ StageInOrder' /\ LineInOrder' /\ RepliesFollow'
  BY <1>1, LenEmpty DEF FewOutstanding, StageInOrder, LineInOrder, RepliesFollow, Exchanges
<1>7. NoneIsLater'
  BY <1>1, <1>5, DroppedKeeps DEF PacketInv, OwnReplies, NoneIsLater
<1>8. OwnReplies' /\ RetirementFollows'
  BY <1>1, <1>7 DEF OwnReplies, RetirementFollows, Exchanges
<1> QED BY <1>3, <1>6, <1>8 DEF PacketInv

\* A request written is the last one on the line.
LEMMA LineGrows ==
  ASSUME PacketTyped, NEW x \in PacketRequest, p_line' = Append(p_line, x)
  PROVE  /\ p_line' \in Seq(PacketRequest) /\ Len(p_line') = Len(p_line) + 1
         /\ \A i \in 1..Len(p_line) : p_line'[i] = p_line[i]
         /\ p_line'[Len(p_line) + 1] = x
         /\ \A i \in 1..Len(p_line') : i \in 1..Len(p_line) \/ i = Len(p_line) + 1
  BY DEF PacketTyped

\* A request written, whole or torn, keeps the order of the line.
LEMMA WrittenInOrder ==
  ASSUME PacketInv, p_stage \in Exchanges, p_phase = "write", NEW x \in PacketRequest,
         x.run = p_run, x.value = p_args.value, x.kind \in {p_stage, "part"},
         p_line' = Append(p_line, x),
         UNCHANGED <<p_run, p_args, p_rxbuf, p_air, p_partial, p_staged, p_retired>>,
         (p_stage' = p_stage /\ x.kind = p_stage) \/ p_stage' = "exited"
  PROVE  LineInOrder'
<1>1. PacketTyped /\ LineInOrder /\ p_stage # "abort" /\ p_stage # "exited" /\ ~Asked
  BY StageFacts DEF PacketInv, Asked
<1>2. /\ Len(p_line') = Len(p_line) + 1 /\ Len(p_line) \in Nat
      /\ \A i \in 1..Len(p_line) : p_line'[i] = p_line[i]
      /\ p_line'[Len(p_line) + 1] = x
      /\ \A i \in 1..Len(p_line') : i \in 1..Len(p_line) \/ i = Len(p_line) + 1
  BY <1>1, LineGrows, LineTyped
<1>3. FreshIsBehind(1) => FreshIsBehind(1)'
  BY <1>1, DropNothing, DroppedKeeps
<1>4. p_stage' # "abort" /\ (p_stage' \in Exchanges => p_stage' = p_stage)
  BY <1>1, StageFacts
<1>5. ~p_partial
  BY <1>1 DEF LineInOrder
<1>6. \A i \in 1..Len(p_line) :
         /\ p_line[i].run = p_run /\ p_line[i].value = p_args.value /\ p_line[i].kind # "part"
  <2>1. \A i \in 1..Len(p_line) : p_line[i].run = p_run /\ p_line[i].kind # "part"
    BY <1>1 DEF LineInOrder
  <2>2. p_run \in Nat
    BY <1>1 DEF PacketTyped
  <2> QED BY <1>1, <2>1, <2>2 DEF LineInOrder
<1>7. x.kind = "instruction" =>
         /\ p_staged = None /\ p_retired = <<>>
         /\ \A i \in 1..Len(p_line) : p_line[i].kind # "instruction"
         /\ IF p_line = <<>> THEN FreshIsBehind(1) ELSE p_line[Len(p_line)].kind = "negotiate"
  BY <1>1 DEF PacketInv, StageInOrder, OnLine, RepliesFollow
<1>8. x.kind = "part" => p_stage' = "exited"
  BY StageFacts DEF Exchanges
<1>9. ASSUME NEW i \in 1..Len(p_line')
      PROVE /\ p_line'[i].run = p_run /\ p_line'[i].value = p_args.value
            /\ p_line'[i].kind = "part" => i = Len(p_line') /\ p_stage' = "exited"
            /\ p_line'[i].kind = "instruction" =>
                 /\ p_retired = <<>> /\ p_staged = None
                 /\ \A j \in 1..Len(p_line') : p_line'[j].kind = "instruction" => j = i
                 /\ i = 1 => FreshIsBehind(1)
                 /\ i > 1 => p_line'[i - 1].kind = "negotiate"
  <2>1. CASE i \in 1..Len(p_line)
    <3>1. p_line'[i] = p_line[i] /\ (i > 1 => i - 1 \in 1..Len(p_line) /\ p_line'[i - 1] = p_line[i - 1])
      BY <2>1, <1>2
    <3>2. p_line[i].kind = "instruction" => x.kind # "instruction"
      BY <2>1, <1>7
    <3> QED BY <2>1, <3>1, <3>2, <1>1, <1>2, <1>6 DEF LineInOrder
  <2>2. CASE i = Len(p_line) + 1
    <3>1. p_line'[i] = x /\ i = Len(p_line')
      BY <2>2, <1>2
    <3>2. i = 1 => p_line = <<>>
      BY <2>2, <1>1, <1>2 DEF PacketTyped
    <3>3. i > 1 => p_line # <<>> /\ p_line'[i - 1] = p_line[Len(p_line)]
      BY <2>2, <1>1, <1>2, LenEmpty
    <3>4. x.kind = "instruction" =>
            \A j \in 1..Len(p_line') : p_line'[j].kind = "instruction" => j = i
      BY <2>2, <1>2, <1>7
    <3>5. x.kind = "instruction" /\ i = 1 => FreshIsBehind(1)
      BY <3>2, <1>7
    <3>6. x.kind = "instruction" /\ i > 1 => p_line'[i - 1].kind = "negotiate"
      BY <3>3, <1>7
    <3> QED BY <3>1, <3>4, <3>5, <3>6, <1>7, <1>8
  <2> QED BY <2>1, <2>2, <1>2
<1>10. \A i \in 1..Len(p_line') : p_line'[i].run = p_run' /\ p_line'[i].value = p_args'.value
  BY <1>9
<1> QED BY <1>3, <1>4, <1>5, <1>9, <1>10 DEF LineInOrder

\* exchange_encoded writes its request.
LEMMA PacketWriteStep == PacketInv /\ Packet!Write => PacketInv'
<1> SUFFICES ASSUME PacketInv, Packet!Write PROVE PacketInv'
  OBVIOUS
<1>1. /\ p_phase = "write" /\ p_line' = Append(p_line, Packet!Request) /\ p_phase' = "read"
      /\ UNCHANGED <<p_run, p_args, p_stage, p_exit, p_rxbuf, p_last, p_air, p_partial, p_staged, p_retired>>
  BY DEF Packet!Write
<1>2. PacketTyped
  BY DEF PacketInv
<1>3. p_stage \in Exchanges /\ ~Asked /\ Asked' /\ p_stage # "exited" /\ p_stage # "abort"
  BY <1>1, <1>2 DEF PacketTyped, Asked, Exchanges
<1>4. PICK x \in PacketRequest : p_line' = Append(p_line, x) /\ x.run = p_run /\ x.value = p_args.value
                                 /\ x.kind = p_stage
  BY <1>1, <1>2, <1>3, RequestFacts
<1>5. /\ p_line' \in Seq(PacketRequest) /\ Len(p_line') = Len(p_line) + 1 /\ Len(p_line) \in Nat
      /\ \A i \in 1..Len(p_line) : p_line'[i] = p_line[i]
      /\ p_line'[Len(p_line) + 1] = x
      /\ \A i \in 1..Len(p_line') : i \in 1..Len(p_line) \/ i = Len(p_line) + 1
  BY <1>2, <1>4, LineGrows, LineTyped
<1>6. PacketTyped'
  <2>1. p_run > 0
    BY <1>2, <1>3 DEF PacketTyped
  <2> QED BY <1>1, <1>2, <1>3, <1>5, <2>1 DEF PacketTyped
<1>7. Dropped(0)
  BY <1>1, <1>2, DropNothing
<1>8. FewOutstanding'
  <2>1. Len(p_rxbuf) \in Nat /\ Len(p_air) \in Nat
    BY <1>2 DEF PacketTyped
  <2> QED BY <1>1, <1>3, <1>5, <2>1 DEF FewOutstanding, PacketInv
<1>9. LineInOrder'
  BY <1>1, <1>3, <1>4, WrittenInOrder
<1>10. StageInOrder'
  <2>1. ASSUME NEW k, k # p_stage, ~OnLine({k}) PROVE ~OnLine({k})'
    BY <2>1, <1>4, <1>5 DEF OnLine
  <2> QED BY <1>1, <1>3, <2>1 DEF PacketInv, StageInOrder
<1>11. RepliesFollow'
  <2>1. p_line' # <<>> /\ p_line'[Len(p_line')] = x
    BY <1>5, LenEmpty
  <2> QED BY <1>1, <1>3, <1>4, <1>7, <2>1, DroppedKeeps DEF PacketInv, RepliesFollow
<1>12. NoneIsLater' /\ (OwnRetiredSeen' => OwnRetiredSeen)
  BY <1>1, <1>7, DroppedKeeps DEF PacketInv, OwnReplies, NoneIsLater, OwnRetiredSeen
<1>13. OwnReplies' /\ RetirementFollows'
  <2>1. ReadSoFar' = ReadSoFar /\ Replies' = Replies
    BY <1>1 DEF ReadSoFar, Replies
  <2> QED BY <1>1, <1>3, <1>12, <2>1 DEF PacketInv, OwnReplies, RetirementFollows, RetiredHere
<1> QED BY <1>6, <1>8, <1>9, <1>10, <1>11, <1>13 DEF PacketInv

\* A run ends: nothing is asked of what it leaves behind but order.
LEMMA PacketEnds ==
  ASSUME PacketInv, p_stage # "exited", p_stage' = "exited", p_phase' = "done", p_exit' \in {0, 2},
         UNCHANGED <<p_run, p_args, p_rxbuf, p_last, p_air, p_partial, p_staged, p_retired>>,
         LineInOrder', p_line' \in Seq(PacketRequest),
         p_exit' = 0 /\ p_args.operation = "set" => RetiredHere
  PROVE  PacketInv'
<1>1. PacketTyped
  BY DEF PacketInv
<1>2. PacketTyped'
  <2>1. p_run > 0
    BY <1>1 DEF PacketTyped
  <2>2. /\ p_run' \in 0..PacketRuns /\ p_args'.operation \in {"status", "set"}
        /\ p_partial' \in BOOLEAN /\ p_staged' \in OperandValues \cup {None}
        /\ p_retired' \in Seq([run : Nat, value : OperandValues]) /\ Len(p_retired') <= 1
    BY <1>1 DEF PacketTyped
  <2>3. /\ p_rxbuf' \in Seq(PacketReply) /\ p_air' \in Seq(PacketReply)
        /\ p_line' \in Seq(PacketRequest) /\ p_exit' \in {None, 0, 2} /\ p_run' > 0
    BY <1>1, <2>1 DEF PacketTyped
  <2>4. p_stage' = "exited" /\ p_phase' = "done"
    OBVIOUS
  <2> QED BY <2>2, <2>3, <2>4 DEF PacketTyped
<1>3. Dropped(0)
  BY <1>1, DropNothing
<1>4. FewOutstanding' /\ StageInOrder'
  BY DEF FewOutstanding, StageInOrder
<1>5. RepliesFollow'
  BY <1>3, DroppedKeeps DEF PacketInv, RepliesFollow
<1>6. NoneIsLater' /\ (OwnRetiredSeen' => OwnRetiredSeen)
  BY <1>3, DroppedKeeps DEF PacketInv, OwnReplies, NoneIsLater, OwnRetiredSeen
<1>7. OwnReplies' /\ RetirementFollows'
  <2>1. p_phase # "reset"
    BY <1>1 DEF PacketTyped, Exchanges
  <2> QED BY <1>6, <2>1 DEF PacketInv, OwnReplies, RetirementFollows, RetiredHere, Exchanges
<1> QED BY <1>2, <1>4, <1>5, <1>7 DEF PacketInv

\* A bounded call raises or is abandoned.
LEMMA PacketRaisesStep == PacketInv /\ Packet!CallRaises => PacketInv'
<1> SUFFICES ASSUME PacketInv, Packet!CallRaises PROVE PacketInv'
  OBVIOUS
<1>1. /\ p_stage # "exited" /\ p_stage' = "exited" /\ p_exit' = 2 /\ p_phase' = "done"
      /\ \/ p_line' = p_line
         \/ p_phase = "write" /\ p_line' = Append(p_line, Packet!Request)
         \/ p_phase = "write" /\ p_line' = Append(p_line, [Packet!Request EXCEPT !.kind = "part"])
      /\ UNCHANGED <<p_run, p_args, p_rxbuf, p_last, p_air, p_partial, p_staged, p_retired>>
  BY DEF Packet!CallRaises, Packet!Deadline, Packet!Fail
<1>2. PacketTyped
  BY DEF PacketInv
<1>3. CASE p_line' = p_line
  <2>1. FreshIsBehind(1) => FreshIsBehind(1)'
    BY <1>1, <1>2, DropNothing, DroppedKeeps
  <2>2. LineInOrder'
    BY <1>1, <1>3, <2>1 DEF PacketInv, LineInOrder, Exchanges
  <2>3. p_line' \in Seq(PacketRequest)
    BY <1>2, <1>3 DEF PacketTyped
  <2> QED BY <1>1, <2>2, <2>3, PacketEnds
<1>4. CASE p_phase = "write" /\ p_line' # p_line
  <2>1. p_stage \in Exchanges
    BY <1>2, <1>4 DEF PacketTyped
  <2>2. PICK x \in PacketRequest : p_line' = Append(p_line, x) /\ x.run = p_run /\ x.value = p_args.value
                                   /\ x.kind \in {p_stage, "part"}
    BY <1>1, <1>2, <1>4, <2>1, RequestFacts
  <2>3. LineInOrder' /\ p_line' \in Seq(PacketRequest)
    BY <1>1, <1>2, <1>4, <2>1, <2>2, WrittenInOrder, LineGrows
  <2> QED BY <1>1, <2>3, PacketEnds
<1> QED BY <1>1, <1>3, <1>4

\* _run() accepts a reply and goes on, exits with 0, or fails.
LEMMA PacketConcludeStep == PacketInv /\ Packet!Conclude => PacketInv'
<1> SUFFICES ASSUME PacketInv, Packet!Conclude PROVE PacketInv'
  OBVIOUS
<1>1. /\ p_phase = "surplus"
      /\ UNCHANGED <<p_run, p_args, p_rxbuf, p_last, p_air, p_line, p_partial, p_staged, p_retired>>
  BY DEF Packet!Conclude, Packet!board
<1>2. PacketTyped
  BY DEF PacketInv
<1>3. p_stage \in Exchanges /\ p_stage # "exited" /\ p_stage # "abort" /\ Asked
  BY <1>1, <1>2, StageFacts DEF PacketTyped, Asked
<1>4. Dropped(0)
  BY <1>1, <1>2, DropNothing
<1>5. FreshIsBehind(1) => FreshIsBehind(1)'
  BY <1>4, DroppedKeeps
<1>6. ASSUME p_stage' = "exited", p_phase' = "done", p_exit' \in {0, 2},
             p_exit' = 0 /\ p_args.operation = "set" => RetiredHere
      PROVE  PacketInv'
  <2>1. LineInOrder'
    BY <1>1, <1>5, <1>6, StageFacts DEF PacketInv, LineInOrder
  <2>2. p_line' \in Seq(PacketRequest)
    BY <1>1, <1>2 DEF PacketTyped
  <2> QED BY <1>1, <1>3, <1>6, <2>1, <2>2, PacketEnds
<1>7. CASE Packet!Valid(p_last) /\ ~Packet!IsLast(p_stage) /\ p_phase' = "drain" /\ p_exit' = p_exit
           /\ LET all == Packet!Stages(p_args.operation)
              IN  p_stage' = all[1 + CHOOSE i \in DOMAIN all : all[i] = p_stage]
  <2>1. p_stage \in {"status", "negotiate", "instruction"} /\ p_args.operation \in {"status", "set"}
        /\ (p_stage = "instruction" => p_args.operation = "set")
    BY <1>2, <1>3, <1>7 DEF Packet!IsLast, Exchanges, PacketTyped, PacketInv, StageInOrder
  <2>2. /\ p_stage = "status" => p_stage' = "negotiate"
        /\ p_stage = "negotiate" =>
             \/ p_stage' = "instruction" /\ p_args.operation = "set"
             \/ p_stage' = "status_again" /\ p_args.operation = "status"
        /\ p_stage = "instruction" => p_stage' = "retire"
    BY <1>7, <2>1, NextStage
  <2>3. p_stage' \in Exchanges /\ p_stage' \notin {"exited", "abort"} /\ ~Asked'
    BY <1>7, <2>1, <2>2 DEF Exchanges, Asked
  <2>4. p_stage = "status" => IsFresh(p_last)
    BY <1>7 DEF Packet!Valid, Packet!FreshStatus, IsFresh
  <2>5. p_stage = "status" => p_retired = <<>>
    BY <1>1, <2>4 DEF PacketInv, RepliesFollow
  <2>6. PacketTyped'
    BY <1>1, <1>2, <1>3, <1>7, <2>3 DEF PacketTyped
  <2>7. FewOutstanding'
    BY <1>1, <1>3, <1>7, <2>3 DEF PacketInv, FewOutstanding
  <2>8. StageInOrder'
    <3>1. /\ ~OnLine({"instruction"}) => ~OnLine({"instruction"})'
          /\ ~OnLine({"retire"}) => ~OnLine({"retire"})'
      BY <1>1 DEF OnLine
    <3>2. StageInOrder
      BY DEF PacketInv
    <3>3. CASE p_stage = "status"
      BY <1>1, <1>3, <2>2, <2>3, <2>5, <3>1, <3>2, <3>3 DEF StageInOrder
    <3>4. CASE p_stage = "negotiate"
      BY <1>1, <1>3, <2>2, <2>3, <3>1, <3>2, <3>4 DEF StageInOrder
    <3>5. CASE p_stage = "instruction"
      BY <1>1, <1>3, <2>1, <2>2, <2>3, <3>1, <3>2, <3>5 DEF StageInOrder
    <3> QED BY <2>1, <3>3, <3>4, <3>5
  <2>9. LineInOrder'
    BY <1>1, <1>3, <1>5, <2>3 DEF PacketInv, LineInOrder
  <2>10. RepliesFollow'
    BY <1>1, <1>3, <1>4, <2>1, <2>2, <2>3, <1>7, DroppedKeeps DEF PacketInv, RepliesFollow
  <2>11. NoneIsLater' /\ (OwnRetiredSeen' => OwnRetiredSeen)
    BY <1>1, <1>4, DroppedKeeps DEF PacketInv, OwnReplies, NoneIsLater, OwnRetiredSeen
  <2>12. ReadSoFar' = ReadSoFar /\ Replies' = Replies
    BY <1>1, <1>7, <2>1, <2>2 DEF ReadSoFar, Replies
  <2>13. OwnReplies' /\ RetirementFollows'
    BY <1>1, <1>3, <1>7, <2>11, <2>12 DEF PacketInv, OwnReplies, RetirementFollows, RetiredHere
  <2> QED BY <2>6, <2>7, <2>8, <2>9, <2>10, <2>13 DEF PacketInv
<1>8. CASE Packet!Valid(p_last) /\ Packet!IsLast(p_stage) /\ p_stage' = "exited" /\ p_phase' = "done"
           /\ p_exit' = 0
  <2>1. ASSUME p_args.operation = "set" PROVE RetiredHere
    <3>1. p_stage = "retire"
      BY <1>8, <2>1 DEF Packet!IsLast, PacketInv, StageInOrder
    <3>2. p_last.kind = "RETIRED" /\ p_last.run = p_run
      BY <1>1, <1>8, <3>1 DEF Packet!Valid, Packet!RetiredAck, PacketInv, OwnReplies
    <3> QED BY <1>1, <3>2 DEF PacketInv, RetirementFollows
  <2> QED BY <1>6, <1>8, <2>1
<1>9. CASE p_stage' = "exited" /\ p_phase' = "done" /\ p_exit' = 2
  BY <1>6, <1>9
<1> QED BY <1>7, <1>8, <1>9 DEF Packet!Conclude, Packet!Fail

\* The endpoint takes the first request of the line.
LEMMA LineShrinks ==
  ASSUME PacketTyped, p_line # <<>>, p_line' = Tail(p_line)
  PROVE  /\ p_line' \in Seq(PacketRequest) /\ Len(p_line') = Len(p_line) - 1 /\ Len(p_line) > 0
         /\ \A i \in 1..Len(p_line') : p_line'[i] = p_line[i + 1] /\ i + 1 \in 1..Len(p_line)
         /\ Head(p_line) = p_line[1] /\ 1 \in 1..Len(p_line) /\ Len(p_line) \in Nat
         /\ Len(p_line) = 1 => p_line' = <<>>
         /\ Len(p_line) > 1 => p_line' # <<>> /\ p_line'[Len(p_line')] = p_line[Len(p_line)]
<1>1. /\ p_line' \in Seq(PacketRequest) /\ Len(p_line') = Len(p_line) - 1 /\ Len(p_line) > 0
      /\ \A i \in 1..Len(p_line') : p_line'[i] = p_line[i + 1] /\ i + 1 \in 1..Len(p_line)
      /\ Head(p_line) = p_line[1] /\ 1 \in 1..Len(p_line) /\ Len(p_line) \in Nat
  BY DEF PacketTyped
<1>2. Len(p_line) = 1 => p_line' = <<>>
  BY <1>1, SeqFacts
<1>3. ASSUME Len(p_line) > 1
      PROVE  p_line' # <<>> /\ p_line'[Len(p_line')] = p_line[Len(p_line)]
  <2>1. Len(p_line') \in 1..Len(p_line') /\ Len(p_line') + 1 = Len(p_line) /\ Len(p_line') # 0
    BY <1>1, <1>3
  <2>2. p_line'[Len(p_line')] = p_line[Len(p_line') + 1]
    BY <1>1, <2>1
  <2> QED BY <2>1, <2>2, LenEmpty
<1> QED BY <1>1, <1>2, <1>3

\* What the endpoint takes leaves the rest of the line in order.
LEMMA TakenInOrder ==
  ASSUME PacketInv, p_line # <<>>, p_line' = Tail(p_line),
         UNCHANGED <<p_run, p_args, p_stage, p_phase>>,
         p_partial' => p_line[1].kind = "part",
         \/ p_retired' = p_retired /\ p_staged' = p_staged
         \/ p_line[1].kind = "instruction"
         \/ p_staged # None,
         p_line[1].kind = "negotiate" => FreshIsBehind(1)'
  PROVE  LineInOrder'
<1>1. PacketTyped /\ LineInOrder
  BY DEF PacketInv
<1>2. /\ Len(p_line') = Len(p_line) - 1 /\ Len(p_line) \in Nat /\ Len(p_line) > 0
      /\ \A i \in 1..Len(p_line') : p_line'[i] = p_line[i + 1] /\ i + 1 \in 1..Len(p_line)
      /\ 1 \in 1..Len(p_line)
      /\ Len(p_line) = 1 => p_line' = <<>>
  BY <1>1, LineShrinks
<1>3. ~(p_stage = "abort" /\ p_phase = "settle")
  <2>1. p_stage = "abort" => p_phase = "break"
    BY <1>1, <1>2 DEF LineInOrder
  <2> QED BY <2>1
<1>4. p_partial' => p_line' = <<>> /\ p_stage \in {"exited", "abort"}
  BY <1>1, <1>2 DEF LineInOrder
<1>5. ASSUME NEW i \in 1..Len(p_line'), p_line'[i].kind = "instruction"
      PROVE  /\ p_retired' = <<>> /\ p_staged' = None
             /\ \A j \in 1..Len(p_line') : p_line'[j].kind = "instruction" => j = i
             /\ i = 1 => FreshIsBehind(1)'
             /\ i > 1 => p_line'[i - 1].kind = "negotiate"
  <2>1. i + 1 \in 1..Len(p_line) /\ p_line[i + 1].kind = "instruction" /\ i + 1 > 1 /\ i + 1 # 1
    BY <1>2, <1>5
  <2>2. p_line[1].kind # "instruction" /\ p_staged = None /\ p_retired = <<>>
        /\ p_line[(i + 1) - 1].kind = "negotiate"
    BY <1>1, <1>2, <2>1 DEF LineInOrder
  <2>3. ASSUME NEW j \in 1..Len(p_line'), p_line'[j].kind = "instruction" PROVE j = i
    <3>1. j + 1 \in 1..Len(p_line) /\ p_line[j + 1].kind = "instruction"
      BY <1>2, <2>3
    <3>2. j + 1 = i + 1
      BY <1>1, <2>1, <3>1 DEF LineInOrder
    <3> QED BY <3>2
  <2>4. i = 1 => FreshIsBehind(1)'
    BY <2>2
  <2>5. i > 1 => p_line'[i - 1].kind = "negotiate"
    BY <1>2, <2>2
  <2> QED BY <2>2, <2>3, <2>4, <2>5
<1>6. ASSUME NEW i \in 1..Len(p_line')
      PROVE  /\ p_stage = "abort" => p_phase = "break" /\ p_line'[i].run < p_run
             /\ p_line'[i].run < p_run \/ (p_line'[i].run = p_run /\ p_line'[i].value = p_args.value)
             /\ p_stage \in Exchanges => p_line'[i].run = p_run
             /\ p_line'[i].kind = "part" => i = Len(p_line') /\ p_stage \in {"exited", "abort"}
  <2>1. i + 1 \in 1..Len(p_line) /\ p_line'[i] = p_line[i + 1]
        /\ (i + 1 = Len(p_line) => i = Len(p_line'))
    <3>1. i + 1 \in 1..Len(p_line) /\ p_line'[i] = p_line[i + 1]
      BY <1>2
    <3>2. Len(p_line') = Len(p_line) - 1 /\ Len(p_line) \in Nat
      BY <1>2
    <3> QED BY ONLY <3>1, <3>2, i \in 1..Len(p_line')
  <2>2. /\ p_stage = "abort" => p_phase = "break" /\ p_line[i + 1].run < p_run
        /\ p_line[i + 1].run < p_run \/ (p_line[i + 1].run = p_run /\ p_line[i + 1].value = p_args.value)
        /\ p_stage \in Exchanges => p_line[i + 1].run = p_run
        /\ p_line[i + 1].kind = "part" => i + 1 = Len(p_line) /\ p_stage \in {"exited", "abort"}
    BY <1>1, <2>1 DEF LineInOrder
  <2> QED BY <2>1, <2>2
<1> QED BY <1>3, <1>4, <1>5, <1>6 DEF LineInOrder

\* What a request leads to whatever it is: it is of this run or an earlier one.
LEMMA TakenFacts ==
  ASSUME PacketInv, p_line # <<>>, p_line' = Tail(p_line)
  PROVE  /\ PacketTyped /\ p_run > 0 /\ Head(p_line) = p_line[1] /\ 1 \in 1..Len(p_line)
         /\ p_line[1] \in PacketRequest /\ p_line[1].run \in Nat /\ p_line[1].value \in OperandValues
         /\ p_line[1].run <= p_run /\ (p_line[1].run # p_run => p_line[1].run < p_run)
         /\ p_line[1].run = p_run => p_line[1].value = p_args.value
         /\ p_stage \in Exchanges => p_line[1].run = p_run
         /\ \A kinds : OnLine(kinds)' => OnLine(kinds)
         /\ ~p_partial
         /\ p_line' \in Seq(PacketRequest) /\ Len(p_line') = Len(p_line) - 1 /\ Len(p_line) \in Nat
         /\ p_line[1].kind \in PacketKinds
<1>1. PacketTyped /\ LineInOrder
  BY DEF PacketInv
<1>2. /\ Head(p_line) = p_line[1] /\ 1 \in 1..Len(p_line)
      /\ p_line' \in Seq(PacketRequest) /\ Len(p_line') = Len(p_line) - 1 /\ Len(p_line) \in Nat
      /\ \A i \in 1..Len(p_line') : p_line'[i] = p_line[i + 1] /\ i + 1 \in 1..Len(p_line)
  BY <1>1, LineShrinks
<1>3. /\ p_line[1] \in PacketRequest /\ p_line[1].run \in Nat /\ p_line[1].value \in OperandValues
      /\ p_line[1].kind \in PacketKinds
  BY <1>1, <1>2, LineTyped
<1>4. p_run \in Nat /\ p_run > 0
  BY <1>1 DEF PacketTyped
<1>5. /\ p_line[1].run < p_run \/ (p_line[1].run = p_run /\ p_line[1].value = p_args.value)
      /\ p_stage \in Exchanges => p_line[1].run = p_run
      /\ ~p_partial
  BY <1>1, <1>2 DEF LineInOrder
<1>6. ASSUME NEW kinds PROVE OnLine(kinds)' => OnLine(kinds)
  BY <1>2 DEF OnLine
<1> QED BY <1>1, <1>2, <1>3, <1>4, <1>5, <1>6

\* A request that leaves staging and retirement alone, and its answer.
LEMMA PlainAnswer ==
  ASSUME PacketInv, p_line # <<>>, p_line' = Tail(p_line),
         UNCHANGED <<p_run, p_args, p_stage, p_phase, p_exit, p_rxbuf, p_last, p_partial, p_staged, p_retired>>,
         NEW r \in PacketReply, p_air' = Append(p_air, r), r.run = p_line[1].run, r.kind # "RETIRED",
         IsFresh(r) => p_line[1].kind \in {"status", "status_again"} /\ p_staged = None /\ p_retired = <<>>
  PROVE  PacketInv'
<1>1. /\ PacketTyped /\ p_run > 0 /\ 1 \in 1..Len(p_line)
      /\ p_line[1].run <= p_run /\ (p_stage \in Exchanges => p_line[1].run = p_run)
      /\ \A kinds : OnLine(kinds)' => OnLine(kinds)
      /\ ~p_partial
      /\ p_line' \in Seq(PacketRequest) /\ Len(p_line') = Len(p_line) - 1 /\ Len(p_line) \in Nat
  BY TakenFacts
<1>2. p_air' \in Seq(PacketReply) /\ Len(p_air') = Len(p_air) + 1
  BY <1>1, SeqFacts DEF PacketTyped
<1>3. PacketTyped'
  BY <1>1, <1>2 DEF PacketTyped
<1>4. Answered(r)
  BY <1>1, AnswerFollows
<1>5. FewOutstanding'
  <2>1. Len(p_rxbuf) \in Nat /\ Len(p_air) \in Nat
    BY <1>1 DEF PacketTyped
  <2> QED BY <1>1, <1>2, <2>1 DEF FewOutstanding, PacketInv
<1>6. StageInOrder'
  <2>1. Asked' = Asked
    BY DEF Asked
  <2> QED BY <1>1, <2>1 DEF PacketInv, StageInOrder
<1>7. p_line[1].kind = "negotiate" => FreshIsBehind(1)'
  BY <1>4, AnsweredKeeps
<1>8. LineInOrder'
  BY <1>1, <1>7, TakenInOrder
<1>9. RepliesFollow'
  <2>1. /\ p_staged # None => FreshIsBehind(2)' /\ p_retired = <<>>
        /\ p_retired # <<>> => FreshIsBehind(3)'
        /\ p_stage = "status" /\ p_retired # <<>> => NoneIsFresh' /\ (p_phase = "surplus" => ~IsFresh(p_last))
    BY <1>4, AnsweredKeeps DEF PacketInv, RepliesFollow
  <2>2. (p_stage = "negotiate" /\ Asked) \/ (p_stage = "instruction" /\ ~Asked) =>
          IF p_line' = <<>> THEN FreshIsBehind(1)' ELSE p_line'[Len(p_line')].kind = "negotiate"
    <3>1. (p_stage = "negotiate" /\ Asked) \/ (p_stage = "instruction" /\ ~Asked) =>
            p_line[Len(p_line)].kind = "negotiate"
      BY DEF PacketInv, RepliesFollow
    <3>2. /\ Len(p_line) = 1 => p_line' = <<>>
          /\ Len(p_line) > 1 => p_line' # <<>> /\ p_line'[Len(p_line')] = p_line[Len(p_line)]
          /\ Len(p_line) = 1 \/ Len(p_line) > 1
      BY <1>1, LineShrinks
    <3> QED BY <1>7, <3>1, <3>2
  <2>3. Asked' = Asked
    BY DEF Asked
  <2> QED BY <2>1, <2>2, <2>3 DEF RepliesFollow
<1>10. NoneIsLater' /\ (OwnRetiredSeen' => OwnRetiredSeen)
  BY <1>1, <1>4, AnsweredKeeps DEF PacketInv, OwnReplies, NoneIsLater, OwnRetiredSeen
<1>11. OwnReplies' /\ RetirementFollows'
  <2>1. ReadSoFar' = ReadSoFar /\ 3 - ReadSoFar \in Int
    BY DEF ReadSoFar
  <2>2. p_stage \in Exchanges => \A i \in 1..Len(Replies') : i > 3 - ReadSoFar => Replies'[i].run = p_run
    BY <1>1, <1>4, <2>1, AnsweredKeeps DEF PacketInv, OwnReplies
  <2> QED BY <1>10, <2>1, <2>2 DEF PacketInv, OwnReplies, RetirementFollows, RetiredHere
<1> QED BY <1>3, <1>5, <1>6, <1>8, <1>9, <1>11 DEF PacketInv

\* A torn request leaves the endpoint inside a frame.
LEMMA PartTaken ==
  ASSUME PacketInv, p_line # <<>>, p_line' = Tail(p_line), p_line[1].kind = "part", p_partial' = TRUE,
         UNCHANGED <<p_run, p_args, p_stage, p_phase, p_exit, p_rxbuf, p_last, p_air, p_staged, p_retired>>
  PROVE  PacketInv'
<1>1. /\ PacketTyped /\ p_run > 0 /\ 1 \in 1..Len(p_line)
      /\ \A kinds : OnLine(kinds)' => OnLine(kinds)
      /\ p_line' \in Seq(PacketRequest) /\ Len(p_line') = Len(p_line) - 1 /\ Len(p_line) \in Nat
  BY TakenFacts
<1>2. p_stage \in {"exited", "abort"}
  BY <1>1 DEF PacketInv, LineInOrder
<1>3. PacketTyped'
  <2>1. p_partial' \in BOOLEAN
    BY Zenon
  <2> QED BY <1>1, <2>1 DEF PacketTyped
<1>4. Dropped(0)
  BY <1>1, DropNothing
<1>5. FewOutstanding' /\ StageInOrder'
  <2>1. Len(p_rxbuf) \in Nat /\ Len(p_air) \in Nat
    BY <1>1 DEF PacketTyped
  <2> QED BY <1>1, <1>2, <2>1 DEF FewOutstanding, StageInOrder, PacketInv
<1>6. LineInOrder'
  BY <1>1, TakenInOrder
<1>7. RepliesFollow'
  BY <1>2, <1>4, DroppedKeeps DEF PacketInv, RepliesFollow
<1>8. NoneIsLater' /\ (OwnRetiredSeen' => OwnRetiredSeen)
  BY <1>4, DroppedKeeps DEF PacketInv, OwnReplies, NoneIsLater, OwnRetiredSeen
<1>9. OwnReplies' /\ RetirementFollows'
  BY <1>2, <1>8 DEF PacketInv, OwnReplies, RetirementFollows, RetiredHere, Exchanges
<1> QED BY <1>3, <1>5, <1>6, <1>7, <1>9 DEF PacketInv

\* The endpoint stages an instruction.
LEMMA InstructionTaken ==
  ASSUME PacketInv, p_line # <<>>, p_line' = Tail(p_line), p_line[1].kind = "instruction",
         p_staged' = p_line[1].value,
         UNCHANGED <<p_run, p_args, p_stage, p_phase, p_exit, p_rxbuf, p_last, p_partial, p_retired>>,
         NEW r \in PacketReply, p_air' = Append(p_air, r), r.run = p_line[1].run, r.kind = "RESULT"
  PROVE  PacketInv'
<1>1. /\ PacketTyped /\ p_run > 0 /\ 1 \in 1..Len(p_line)
      /\ p_line[1].run <= p_run /\ (p_stage \in Exchanges => p_line[1].run = p_run)
      /\ p_line[1].value \in OperandValues
      /\ \A kinds : OnLine(kinds)' => OnLine(kinds)
      /\ ~p_partial
      /\ p_line' \in Seq(PacketRequest) /\ Len(p_line') = Len(p_line) - 1 /\ Len(p_line) \in Nat
  BY TakenFacts
<1>2. p_air' \in Seq(PacketReply) /\ Len(p_air') = Len(p_air) + 1
  BY <1>1, SeqFacts DEF PacketTyped
<1>3. PacketTyped'
  BY <1>1, <1>2 DEF PacketTyped
<1>4. Answered(r) /\ ~IsFresh(r)
  BY <1>1, AnswerFollows DEF IsFresh
<1>5. FewOutstanding'
  <2>1. Len(p_rxbuf) \in Nat /\ Len(p_air) \in Nat
    BY <1>1 DEF PacketTyped
  <2> QED BY <1>1, <1>2, <2>1 DEF FewOutstanding, PacketInv
<1>6. OnLine({"instruction"}) /\ p_retired = <<>> /\ FreshIsBehind(1)
  BY <1>1 DEF OnLine, PacketInv, LineInOrder
<1>7. Asked' = Asked
  BY DEF Asked
<1>8. StageInOrder'
  BY <1>1, <1>6, <1>7 DEF PacketInv, StageInOrder
<1>9. LineInOrder'
  BY <1>1, TakenInOrder
<1>10. RepliesFollow'
  <2>1. p_stage \notin {"status", "negotiate"} /\ ~(p_stage = "instruction" /\ ~Asked)
    BY <1>6 DEF PacketInv, StageInOrder
  <2>2. FreshIsBehind(2)'
    BY <1>4, <1>6, AnsweredKeeps
  <2> QED BY <1>6, <1>7, <2>1, <2>2 DEF RepliesFollow
<1>11. NoneIsLater' /\ (OwnRetiredSeen' => OwnRetiredSeen)
  BY <1>1, <1>4, AnsweredKeeps DEF PacketInv, OwnReplies, NoneIsLater, OwnRetiredSeen
<1>12. OwnReplies' /\ RetirementFollows'
  <2>1. ReadSoFar' = ReadSoFar /\ 3 - ReadSoFar \in Int
    BY DEF ReadSoFar
  <2>2. p_stage \in Exchanges => \A i \in 1..Len(Replies') : i > 3 - ReadSoFar => Replies'[i].run = p_run
    BY <1>1, <1>4, <2>1, AnsweredKeeps DEF PacketInv, OwnReplies
  <2> QED BY <1>11, <2>1, <2>2 DEF PacketInv, OwnReplies, RetirementFollows, RetiredHere
<1> QED BY <1>3, <1>5, <1>8, <1>9, <1>10, <1>12 DEF PacketInv

\* The endpoint retires what is staged.
LEMMA RetireTaken ==
  ASSUME PacketInv, p_line # <<>>, p_line' = Tail(p_line), p_line[1].kind = "retire",
         p_staged = p_line[1].value, p_staged' = None,
         p_retired' = Append(p_retired, [run |-> p_line[1].run, value |-> p_staged]),
         UNCHANGED <<p_run, p_args, p_stage, p_phase, p_exit, p_rxbuf, p_last, p_partial>>,
         NEW r \in PacketReply, p_air' = Append(p_air, r), r.run = p_line[1].run, r.kind = "RETIRED"
  PROVE  PacketInv'
<1>1. /\ PacketTyped /\ p_run > 0 /\ 1 \in 1..Len(p_line)
      /\ p_line[1].run \in Nat /\ p_line[1].run <= p_run /\ (p_stage \in Exchanges => p_line[1].run = p_run)
      /\ p_line[1].run = p_run => p_line[1].value = p_args.value
      /\ p_line[1].value \in OperandValues
      /\ \A kinds : OnLine(kinds)' => OnLine(kinds)
      /\ ~p_partial
      /\ p_line' \in Seq(PacketRequest) /\ Len(p_line') = Len(p_line) - 1 /\ Len(p_line) \in Nat
  BY TakenFacts
<1>2. p_air' \in Seq(PacketReply) /\ Len(p_air') = Len(p_air) + 1
  BY <1>1, SeqFacts DEF PacketTyped
<1>3. p_staged # None /\ p_retired = <<>> /\ FreshIsBehind(2)
  BY <1>1, PacketConstants DEF PacketInv, RepliesFollow
<1>4. p_retired' = <<[run |-> p_line[1].run, value |-> p_line[1].value]>> /\ p_retired' # <<>>
  BY <1>3
<1>5. PacketTyped'
  <2> DEFINE e == [run |-> p_line[1].run, value |-> p_line[1].value]
  <2>1. e \in [run : Nat, value : OperandValues] /\ p_retired' = Append(p_retired, e) /\ p_retired = <<>>
    BY <1>1, <1>3
  <2> HIDE DEF e
  <2>2. p_retired' \in Seq([run : Nat, value : OperandValues]) /\ Len(p_retired') <= 1
    BY <2>1, SeqFacts, LenEmpty
  <2> QED BY <1>1, <1>2, <2>2 DEF PacketTyped
<1>6. Answered(r) /\ ~IsFresh(r)
  BY <1>1, AnswerFollows DEF IsFresh
<1>7. FewOutstanding'
  <2>1. Len(p_rxbuf) \in Nat /\ Len(p_air) \in Nat
    BY <1>1 DEF PacketTyped
  <2> QED BY <1>1, <1>2, <2>1 DEF FewOutstanding, PacketInv
<1>8. OnLine({"retire"})
  BY <1>1 DEF OnLine
<1>9. p_stage \notin {"status", "negotiate", "instruction"} /\ ~(p_stage = "retire" /\ ~Asked)
  BY <1>8 DEF PacketInv, StageInOrder
<1>10. Asked' = Asked
  BY DEF Asked
<1>11. StageInOrder'
  BY <1>9, <1>10 DEF PacketInv, StageInOrder
<1>12. LineInOrder'
  BY <1>1, <1>3, TakenInOrder
<1>13. RepliesFollow'
  <2>1. FreshIsBehind(3)'
    BY <1>3, <1>6, AnsweredKeeps
  <2> QED BY <1>9, <1>10, <2>1 DEF RepliesFollow
<1>14. NoneIsLater'
  BY <1>1, <1>6, AnsweredKeeps DEF PacketInv, OwnReplies, NoneIsLater
<1>15. OwnReplies'
  <2>1. ReadSoFar' = ReadSoFar /\ 3 - ReadSoFar \in Int
    BY DEF ReadSoFar
  <2>2. p_stage \in Exchanges => \A i \in 1..Len(Replies') : i > 3 - ReadSoFar => Replies'[i].run = p_run
    BY <1>1, <1>6, <2>1, AnsweredKeeps DEF PacketInv, OwnReplies
  <2> QED BY <1>14, <2>1, <2>2 DEF PacketInv, OwnReplies
<1>16. ~RetiredHere
  BY <1>3 DEF RetiredHere
<1>17. RetirementFollows'
  <2>1. ASSUME p_phase # "reset", OwnRetiredSeen' PROVE RetiredHere'
    <3>1. ~OwnRetiredSeen
      BY <1>16, <2>1 DEF PacketInv, RetirementFollows
    <3>2. r.run = p_run
      BY <1>6, <2>1, <3>1, AnsweredKeeps DEF OwnRetiredSeen
    <3> QED BY <1>1, <1>4, <3>2 DEF RetiredHere
  <2> QED BY <1>16, <2>1 DEF PacketInv, RetirementFollows
<1> QED BY <1>5, <1>7, <1>11, <1>12, <1>13, <1>15, <1>17 DEF PacketInv

\* The fields of the endpoint's replies.
LEMMA ReplyFacts ==
  ASSUME PacketTyped, NEW q \in PacketRequest, NEW kind \in {"INFO", "CAPS", "RESULT", "RETIRED", "FAULT"}
  PROVE  /\ Packet!Reply(q, kind) \in PacketReply
         /\ Packet!Reply(q, kind).kind = kind /\ Packet!Reply(q, kind).run = q.run
         /\ IsFresh(Packet!Reply(q, kind)) => kind = "INFO" /\ p_staged = None /\ p_retired = <<>>
         /\ [Packet!Reply(q, kind) EXCEPT !.seq = @ + 1] \in PacketReply
         /\ [Packet!Reply(q, kind) EXCEPT !.seq = @ + 1].kind = kind
         /\ [Packet!Reply(q, kind) EXCEPT !.seq = @ + 1].run = q.run
<1> DEFINE s(m) == [kind |-> kind, run |-> q.run, value |-> q.value, damaged |-> FALSE,
                    staged |-> p_staged, seq |-> m]
<1>1. /\ q.run \in Nat /\ q.value \in OperandValues /\ p_staged \in OperandValues \cup {None}
      /\ Len(p_retired) \in Nat /\ (Len(p_retired) = 0 => p_retired = <<>>)
  BY SeqFacts DEF PacketTyped, PacketRequest
<1>2. Packet!Reply(q, kind) = s(Len(p_retired))
  BY DEF Packet!Reply
<1>4. \A m \in Nat : s(m) \in PacketReply
  BY <1>1 DEF PacketReply
<1>5. \A m \in Nat : s(m).kind = kind /\ s(m).run = q.run /\ s(m).staged = p_staged /\ s(m).seq = m
  OBVIOUS
<1> DEFINE t == Packet!Reply(q, kind)
<1> HIDE DEF s
<1>6. t \in PacketReply /\ t.kind = kind /\ t.run = q.run /\ t.staged = p_staged /\ t.seq = Len(p_retired)
  BY <1>1, <1>2, <1>4, <1>5
<1>7. IsFresh(t) => kind = "INFO" /\ p_staged = None /\ p_retired = <<>>
  BY <1>1, <1>6 DEF IsFresh
<1> HIDE DEF t
<1>8. [t EXCEPT !.seq = @ + 1] \in PacketReply
  BY <1>6 DEF PacketReply
<1>9. [t EXCEPT !.seq = @ + 1].kind = kind /\ [t EXCEPT !.seq = @ + 1].run = q.run
  BY <1>6 DEF PacketReply
<1> QED BY <1>6, <1>7, <1>8, <1>9 DEF t

\* The endpoint takes a request.
LEMMA EndpointTakesStep == PacketInv /\ Packet!EndpointTakes => PacketInv'
<1> SUFFICES ASSUME PacketInv, Packet!EndpointTakes PROVE PacketInv'
  OBVIOUS
<1> DEFINE q == p_line[1]
<1>1. p_line # <<>> /\ p_line' = Tail(p_line) /\ Head(p_line) = q
  <2>1. p_line # <<>> /\ p_line' = Tail(p_line)
    BY DEF Packet!EndpointTakes
  <2> QED BY <2>1, TakenFacts
<1>2. PacketTyped /\ ~p_partial /\ q \in PacketRequest /\ q.value \in OperandValues
  BY <1>1, TakenFacts
<1>3. UNCHANGED <<p_run, p_args, p_stage, p_phase, p_exit, p_rxbuf, p_last>>
  BY DEF Packet!EndpointTakes, Packet!host
<1> HIDE DEF q
<1>4. \/ /\ q.kind = "part" /\ p_partial' = TRUE /\ UNCHANGED <<p_air, p_staged, p_retired>>
      \/ /\ q.kind \in {"status", "status_again"}
         /\ p_air' = Append(p_air, Packet!Reply(q, "INFO"))
         /\ UNCHANGED <<p_partial, p_staged, p_retired>>
      \/ /\ q.kind = "negotiate"
         /\ p_air' = Append(p_air, Packet!Reply(q, IF p_staged = None THEN "CAPS" ELSE "FAULT"))
         /\ UNCHANGED <<p_partial, p_staged, p_retired>>
      \/ /\ q.kind = "instruction" /\ UNCHANGED <<p_partial, p_retired>>
         /\ \/ /\ p_air' = Append(p_air, Packet!Reply(q, "RESULT")) /\ p_staged' = q.value
            \/ /\ p_air' = Append(p_air, Packet!Reply(q, "FAULT")) /\ UNCHANGED p_staged
      \/ /\ q.kind = "retire" /\ UNCHANGED p_partial
         /\ \/ /\ p_staged = q.value /\ p_staged' = None
               /\ p_retired' = Append(p_retired, [run |-> q.run, value |-> p_staged])
               /\ p_air' = Append(p_air, [Packet!Reply(q, "RETIRED") EXCEPT !.seq = @ + 1])
            \/ /\ p_air' = Append(p_air, Packet!Reply(q, "FAULT"))
               /\ UNCHANGED <<p_staged, p_retired>>
  BY <1>1, <1>2 DEF Packet!EndpointTakes
<1>5. CASE q.kind = "part" /\ p_partial' = TRUE /\ UNCHANGED <<p_air, p_staged, p_retired>>
  BY <1>1, <1>3, <1>5, PartTaken DEF q
<1>6. ASSUME NEW kind \in {"INFO", "CAPS", "FAULT"}, p_air' = Append(p_air, Packet!Reply(q, kind)),
             kind = "INFO" => q.kind \in {"status", "status_again"},
             UNCHANGED <<p_partial, p_staged, p_retired>>
      PROVE  PacketInv'
  <2>1. /\ Packet!Reply(q, kind) \in PacketReply
        /\ Packet!Reply(q, kind).kind = kind /\ Packet!Reply(q, kind).run = q.run
        /\ IsFresh(Packet!Reply(q, kind)) => kind = "INFO" /\ p_staged = None /\ p_retired = <<>>
    <3>1. kind \in {"INFO", "CAPS", "RESULT", "RETIRED", "FAULT"}
      OBVIOUS
    <3> QED BY <1>2, <3>1, ReplyFacts
  <2>2. PICK r \in PacketReply :
          /\ p_air' = Append(p_air, r) /\ r.run = q.run /\ r.kind # "RETIRED"
          /\ IsFresh(r) => q.kind \in {"status", "status_again"} /\ p_staged = None /\ p_retired = <<>>
    BY <1>6, <2>1
  <2> QED BY <1>1, <1>3, <1>6, <2>2, PlainAnswer DEF q
<1>7. CASE q.kind = "instruction" /\ UNCHANGED <<p_partial, p_retired>>
           /\ p_air' = Append(p_air, Packet!Reply(q, "RESULT")) /\ p_staged' = q.value
  <2>1. /\ Packet!Reply(q, "RESULT") \in PacketReply
        /\ Packet!Reply(q, "RESULT").kind = "RESULT" /\ Packet!Reply(q, "RESULT").run = q.run
    BY <1>2, ReplyFacts
  <2>2. PICK r \in PacketReply : p_air' = Append(p_air, r) /\ r.run = q.run /\ r.kind = "RESULT"
    BY <1>7, <2>1
  <2> QED BY <1>1, <1>3, <1>7, <2>2, InstructionTaken DEF q
<1>8. CASE q.kind = "retire" /\ UNCHANGED p_partial /\ p_staged = q.value /\ p_staged' = None
           /\ p_retired' = Append(p_retired, [run |-> q.run, value |-> p_staged])
           /\ p_air' = Append(p_air, [Packet!Reply(q, "RETIRED") EXCEPT !.seq = @ + 1])
  <2>1. PICK r \in PacketReply : p_air' = Append(p_air, r) /\ r.run = q.run /\ r.kind = "RETIRED"
    BY <1>2, <1>8, ReplyFacts
  <2> QED BY <1>1, <1>3, <1>8, <2>1, RetireTaken DEF q
<1> QED
  <2>1. CASE q.kind \in {"status", "status_again"}
    BY <1>4, <1>6, <2>1
  <2>2. CASE q.kind = "negotiate"
    BY <1>4, <1>6, <2>2
  <2>3. CASE q.kind = "instruction"
    BY <1>4, <1>6, <1>7, <2>3
  <2>4. CASE q.kind = "retire"
    BY <1>4, <1>6, <1>8, <2>4
  <2>5. CASE q.kind = "part"
    BY <1>4, <1>5, <2>5
  <2>6. q.kind \in PacketKinds
    BY <1>1, TakenFacts DEF q
  <2> QED BY <2>1, <2>2, <2>3, <2>4, <2>5, <2>6 DEF PacketKinds

\* Every step of the runs preserves the invariant.
LEMMA PacketNextStep == PacketInv /\ PacketLate <= 3 /\ [Packet!Next]_(Packet!vars) => PacketInv'
<1> SUFFICES ASSUME PacketInv, PacketLate <= 3, [Packet!Next]_(Packet!vars) PROVE PacketInv'
  OBVIOUS
<1>1. CASE UNCHANGED Packet!vars
  <2>1. /\ UNCHANGED <<p_run, p_args, p_stage, p_phase, p_exit, p_rxbuf, p_last>>
        /\ UNCHANGED <<p_air, p_line, p_partial, p_staged, p_retired>>
    BY <1>1 DEF Packet!vars, Packet!host, Packet!board
  <2>2. /\ ReadSoFar' = ReadSoFar /\ Replies' = Replies /\ Asked' = Asked
        /\ \A kinds : OnLine(kinds)' = OnLine(kinds)
    BY <2>1 DEF ReadSoFar, Replies, Asked, OnLine
  <2>3. /\ \A k \in {1, 2, 3} : FreshIsBehind(k) => FreshIsBehind(k)'
        /\ NoneIsFresh => NoneIsFresh'
    BY <2>1, DropNothing, DroppedKeeps DEF PacketInv
  <2>4. NoneIsLater' = NoneIsLater /\ OwnRetiredSeen' = OwnRetiredSeen /\ RetiredHere' = RetiredHere
    BY <2>1, <2>2 DEF NoneIsLater, OwnRetiredSeen, RetiredHere
  <2>5. PacketTyped' /\ FewOutstanding' /\ StageInOrder'
    BY <2>1, <2>2 DEF PacketInv, PacketTyped, FewOutstanding, StageInOrder
  <2>6. LineInOrder' /\ RepliesFollow'
    BY <2>1, <2>2, <2>3 DEF PacketInv, LineInOrder, RepliesFollow
  <2>7. OwnReplies' /\ RetirementFollows'
    BY <2>1, <2>2, <2>4 DEF PacketInv, OwnReplies, RetirementFollows
  <2> QED BY <2>5, <2>6, <2>7 DEF PacketInv
<1>2. CASE Packet!Next
  BY <1>2, PacketStartStep, PacketBreakStep, PacketSettledStep, PacketDrainStep, PacketWriteStep,
     PacketRaisesStep, PacketReadStep, PacketConcludeStep, EndpointTakesStep, PacketArriveStep,
     PacketResetStep DEF Packet!Next
<1> QED BY <1>1, <1>2

\* The invariant implies what the run checks.
LEMMA PacketInvImplies == PacketInv => SuccessIsOwn
<1> SUFFICES ASSUME PacketInv PROVE SuccessIsOwn
  OBVIOUS
<1>1. PacketTyped
  BY DEF PacketInv
<1>2. Packet!TypeOK
  <2>1. Len(p_retired) <= PacketRuns
    <3>1. Len(p_retired) \in Nat /\ PacketRuns \in Nat /\ p_run \in Nat /\ p_run <= PacketRuns
          /\ Len(p_retired) <= 1 /\ (p_retired # <<>> => p_run > 0) /\ (Len(p_retired) = 0 => p_retired = <<>>)
      BY <1>1, PacketConstants, SeqFacts DEF PacketTyped
    <3>2. p_retired = <<>> => Len(p_retired) = 0
      BY LenEmpty
    <3> QED BY <3>1, <3>2
  <2> QED BY <1>1, <2>1 DEF PacketTyped, Packet!TypeOK, Exchanges
<1>3. Packet!SuccessIsRetired
  BY DEF PacketInv, RetirementFollows, RetiredHere, Packet!SuccessIsRetired
<1>4. Packet!InstructionMeetsFreshEndpoint
  BY <1>1, SeqFacts DEF PacketInv, LineInOrder, PacketTyped, Packet!InstructionMeetsFreshEndpoint
<1> QED BY <1>2, <1>3, <1>4 DEF SuccessIsOwn, Packet!SuccessIsOwn

\* Any number of runs of lsc1_packet_uart.py over one line, with any operands, any number
\* of damaged replies, torn requests, failed runs and board resets, as long as no more than
\* three replies and requests are outstanding when a port is opened: a run that exits 0
\* after an instruction has had exactly that instruction retired, by itself, and an
\* instruction only ever meets an endpoint that has retired nothing since its reset.
THEOREM SuccessStaysOwn ==
  ASSUME PacketLate <= 3
  PROVE  Packet!Spec => []SuccessIsOwn
<1>1. Packet!Init => PacketInv
  BY PacketInitInv
<1>2. PacketInv /\ [Packet!Next]_(Packet!vars) => PacketInv'
  BY PacketNextStep
<1>3. PacketInv => SuccessIsOwn
  BY PacketInvImplies
<1> QED BY <1>1, <1>2, <1>3, PTL DEF Packet!Spec

-----------------------------------------------------------------------------
(* The ULX3S tool: what a failed run can leave behind, and the invariant. *)

\* A unit on the line or a byte of an answer: what it was computed from, and its place.
UByte == [val : OperandValues \cup {None, Ulx3s!STATUS}, pos : Int]

\* The core and the line together hold a part of one compute request of value v, in
\* order and without a gap.
Computing(v) ==
    /\ \A i \in 1..Len(u_held) : u_held[i] = [val |-> v, pos |-> i + 2]
    /\ \A i \in 1..Len(u_line) : u_line[i] = [val |-> v, pos |-> Len(u_held) + i + 2]
    /\ Len(u_held) + Len(u_line) <= Ulx3sOperands + 1

\* What a run that ended early can have left on the line: nothing, a resync's ABORT, a
\* one-byte request before an idle core, or the rest of a compute request.
LineInShape ==
    \/ u_line = <<>>
    \/ u_line = <<Ulx3s!ABORT>>
    \/ u_held = <<>> /\ u_line \in {<<Ulx3s!STATUS>>, <<Ulx3s!CLEAR>>}
    \/ \E v \in OperandValues : Computing(v)

\* No byte is on its way to the host or held there.
Silent == u_rx = <<>> /\ u_air = <<>> /\ u_got = <<>>

\* The board has sent nothing since this run's ABORT, and nothing has failed since.
Unanswered == Silent /\ u_answer = <<>> /\ u_harmed = FALSE

\* The bytes the board sent since the ABORT are, in order: those recv_exact returned,
\* those in the kernel's buffer, those on their way.
Traced ==
    /\ Len(u_answer) = Len(u_got) + Len(u_rx) + Len(u_air)
    /\ \A i \in 1..Len(u_got) : u_answer[i] = u_got[i]
    /\ \A i \in 1..Len(u_rx) : u_answer[i + Len(u_got)] = u_rx[i]
    /\ \A i \in 1..Len(u_air) : u_answer[i + Len(u_got) + Len(u_rx)] = u_air[i]

\* The request is answered: the core and the line are empty, every byte sent is traced,
\* and the answer is the oracle's unless the board or the link failed.
Complete ==
    /\ u_line = <<>> /\ u_held = <<>> /\ u_args.tx # "clear"
    /\ Traced /\ Len(u_answer) <= Ulx3sReply + 1
    /\ u_harmed = TRUE \/ u_answer = Ulx3s!Oracle(u_args)

\* Where main() is before it writes: what it finds was left by earlier runs.
Under == {"open", "drain", "args", "resync"}

\* Each variable has its type; a compute request that is sent carries no 0x7f, which is
\* what main() checks before resync.
Ulx3sTyped ==
    /\ u_run \in 0..Ulx3sRuns /\ u_sent \in 0..(Ulx3sOperands + 1) /\ u_harmed \in BOOLEAN
    /\ u_got \in Seq(UByte) /\ u_rx \in Seq(UByte) /\ u_air \in Seq(UByte)
    /\ u_answer \in Seq(UByte) /\ u_line \in Seq(UByte) /\ u_held \in Seq(UByte)
    /\ u_pc \in Under \cup {"abort", "send", "recv", "exited"}
    /\ u_run > 0 => u_args \in Ulx3s!Args
    /\ u_pc # "exited" => u_run > 0
    /\ u_pc \in Under => u_sent = 0 /\ u_got = <<>>
    /\ u_pc \in {"resync", "abort", "send"} /\ u_args.tx = "compute" => u_args.payload = "good"
    /\ Len(u_got) <= Ulx3sReply /\ Len(u_held) <= Ulx3sOperands
    /\ \A i \in 1..Len(u_held) : u_held[i].pos > 0
    /\ u_pc = "exited" /\ u_run > 0 =>
         \E s \in 0..2, h \in {"return", "raise"} : u_exit = [status |-> s, how |-> h]

\* Outside of its exchange, a run finds what an earlier one left: no more answer bytes
\* than drain's max_bytes takes in one go, and none while the line still has units.
LeftBehind ==
    u_pc \in Under \cup {"exited"} =>
        /\ LineInShape /\ Len(u_rx) + Len(u_air) <= Ulx3sReply + 1
        /\ u_line # <<>> => u_rx = <<>> /\ u_air = <<>>

\* While the ABORT of resync goes out, it is all there is; once taken it cleared the core.
Aborting ==
    u_pc = "abort" =>
        /\ Silent
        /\ \/ u_sent = 0 /\ u_line = <<>>
           \/ u_sent = 1 /\ u_line = <<Ulx3s!ABORT>>
           \/ u_sent = 1 /\ u_line = <<>> /\ u_held = <<>> /\ Unanswered

\* A request of one byte.
Plain == u_args.tx \in {"status", "clear"}

\* Where the request is when m of its units have been written: answered, held by the
\* core or on the line as part of a compute request, not begun, on the line, or taken.
Submission(m) ==
    \/ Complete /\ u_got = <<>> /\ m = (IF u_args.tx = "compute" THEN Ulx3sOperands + 1 ELSE 1)
    \/ Unanswered /\ u_args.tx = "compute" /\ Computing(u_args.value)
       /\ Len(u_held) + Len(u_line) = m
    \/ Unanswered /\ Plain /\ u_held = <<>> /\ m = 0 /\ u_line = <<>>
    \/ Unanswered /\ Plain /\ u_held = <<>> /\ m = 1 /\ u_line = Ulx3s!Request(u_args)
    \/ Unanswered /\ u_args.tx = "clear" /\ u_held = <<>> /\ m = 1 /\ u_line = <<>>

\* While main() sends the request, the units written are all accounted for.
Submitting == u_pc = "send" => Submission(u_sent)

\* When main() starts to receive, the request is answered.
Receiving == u_pc = "recv" => Complete

\* A verdict of a finished run: a match is the answer, and a mismatch names a failure.
Concluded ==
    u_pc = "exited" /\ u_run > 0 =>
        /\ u_exit.status = 0 /\ u_args.tx # "clear" =>
             u_line = <<>> /\ u_got = Ulx3s!Oracle(u_args) /\ u_answer = u_got
        /\ u_exit = [status |-> 1, how |-> "return"] => u_line = <<>> /\ u_harmed = TRUE

\* The inductive invariant of the ULX3S tool.
Ulx3sInv == /\ Ulx3sTyped /\ LeftBehind /\ Aborting /\ Submitting /\ Receiving /\ Concluded

-----------------------------------------------------------------------------
(* What a request, a write and a drain do. *)

\* The constants are naturals, and an answer with one byte too many fits in one drain.
LEMMA Ulx3sConstants ==
    /\ Ulx3sOperands \in Nat /\ Ulx3sReply \in Nat /\ Ulx3sReply > 0
    /\ DrainMax \in Nat /\ Ulx3sReply + 1 <= DrainMax /\ Ulx3sRuns \in Nat
  BY Ulx3sAssumption DEF Ulx3s!UartAssumption

\* The places and the type of the single-byte units.
LEMMA UnitFacts ==
    /\ Ulx3s!ABORT.pos = 0 /\ Ulx3s!STATUS.pos = 1 /\ Ulx3s!CLEAR.pos = 2
    /\ Ulx3s!ABORT \in UByte /\ Ulx3s!STATUS \in UByte /\ Ulx3s!CLEAR \in UByte
    /\ Ulx3s!Garbled \in UByte
    /\ \A v \in OperandValues \cup {None, Ulx3s!STATUS}, k \in Int : [val |-> v, pos |-> k] \in UByte
  BY DEF Ulx3s!ABORT, Ulx3s!STATUS, Ulx3s!CLEAR, Ulx3s!Garbled, UByte

\* A drain leaves nothing of at most Reply + 1 bytes.
LEMMA RestIsEmpty ==
  ASSUME NEW bytes \in Seq(UByte), Len(bytes) <= Ulx3sReply + 1
  PROVE  Ulx3s!Rest(bytes) = <<>>
<1>1. Len(bytes) \in Nat /\ Len(bytes) < DrainMax + 1
  BY Ulx3sConstants
<1>2. Ulx3s!Rest(bytes) \in Seq(UByte) /\ Len(Ulx3s!Rest(bytes)) = 0
  BY <1>1, Ulx3sConstants DEF Ulx3s!Rest
<1> QED BY <1>2, LenEmpty

\* The units of a request that main() accepts.
LEMMA Ulx3sRequestFacts ==
  ASSUME NEW a \in Ulx3s!Args, a.tx = "compute" => a.payload = "good"
  PROVE  /\ Ulx3s!Request(a) \in Seq(UByte)
         /\ Len(Ulx3s!Request(a)) = IF a.tx = "compute" THEN Ulx3sOperands + 1 ELSE 1
         /\ a.tx = "status" => Ulx3s!Request(a) = <<Ulx3s!STATUS>>
         /\ a.tx = "clear" => Ulx3s!Request(a) = <<Ulx3s!CLEAR>>
         /\ a.tx = "compute" => \A i \in 1..(Ulx3sOperands + 1) :
              Ulx3s!Request(a)[i] = [val |-> a.value, pos |-> i + 2]
<1>1. a.tx \in {"compute", "status", "clear"} /\ a.value \in OperandValues
  BY DEF Ulx3s!Args
<1>2. CASE a.tx = "compute"
  <2>1. Ulx3s!Request(a) = [i \in 1..(Ulx3sOperands + 1) |-> [val |-> a.value, pos |-> i + 2]]
    BY <1>2 DEF Ulx3s!Request
  <2>2. \A i \in 1..(Ulx3sOperands + 1) : [val |-> a.value, pos |-> i + 2] \in UByte
    BY <1>1, UnitFacts
  <2> QED BY <1>2, <2>1, <2>2, Ulx3sConstants
<1>3. CASE a.tx = "status"
  BY <1>3, UnitFacts DEF Ulx3s!Request
<1>4. CASE a.tx = "clear"
  BY <1>4, UnitFacts DEF Ulx3s!Request
<1> QED BY <1>1, <1>2, <1>3, <1>4

\* What send_bytes has to write: the ABORT, or the request.
LEMMA OutgoingFacts ==
  ASSUME Ulx3sTyped, u_pc \in {"abort", "send"}
  PROVE  /\ Ulx3s!Outgoing \in Seq(UByte) /\ Len(Ulx3s!Outgoing) \in Nat
         /\ u_pc = "abort" => Ulx3s!Outgoing = <<Ulx3s!ABORT>>
         /\ u_pc = "send" => Ulx3s!Outgoing = Ulx3s!Request(u_args)
<1>1. CASE u_pc = "abort"
  BY <1>1, UnitFacts DEF Ulx3s!Outgoing, Ulx3s!Preamble
<1>2. CASE u_pc = "send"
  <2>1. u_args \in Ulx3s!Args /\ (u_args.tx = "compute" => u_args.payload = "good")
    BY <1>2 DEF Ulx3sTyped
  <2>2. Ulx3s!Request(u_args) \in Seq(UByte)
    BY <2>1, Ulx3sRequestFacts
  <2> QED BY <1>2, <2>2 DEF Ulx3s!Outgoing
<1> QED BY <1>1, <1>2

\* What is left of a sequence once its first k elements are gone.
LEMMA SubSeqFacts ==
  ASSUME NEW S, NEW s \in Seq(S), NEW k \in 0..Len(s)
  PROVE  LET rest == SubSeq(s, k + 1, Len(s))
         IN /\ rest \in Seq(S) /\ Len(rest) = Len(s) - k
            /\ \A i \in 1..Len(rest) : rest[i] = s[k + i]
  OBVIOUS

\* What the line holds after k more units have been handed over.
LEMMA HandedFacts ==
  ASSUME Ulx3sTyped, u_pc \in {"abort", "send"}, u_sent <= Len(Ulx3s!Outgoing),
         NEW k \in 0..Len(Ulx3s!Left), u_line' = u_line \o SubSeq(Ulx3s!Left, 1, k)
  PROVE  /\ Len(Ulx3s!Left) = Len(Ulx3s!Outgoing) - u_sent
         /\ u_line' \in Seq(UByte) /\ Len(u_line') = Len(u_line) + k
         /\ \A i \in 1..Len(u_line) : u_line'[i] = u_line[i]
         /\ \A i \in 1..k : u_line'[Len(u_line) + i] = Ulx3s!Outgoing[u_sent + i]
<1> DEFINE out == Ulx3s!Outgoing
<1>1. out \in Seq(UByte) /\ Len(out) \in Nat /\ u_sent \in Nat /\ u_sent <= Len(out)
  BY OutgoingFacts, Ulx3sConstants DEF Ulx3sTyped
<1>2. u_line \in Seq(UByte) /\ Len(u_line) \in Nat
  BY DEF Ulx3sTyped
<1>3. Ulx3s!Left = SubSeq(out, u_sent + 1, Len(out))
  BY DEF Ulx3s!Left
<1> HIDE DEF out
<1>4. /\ Ulx3s!Left \in Seq(UByte) /\ Len(Ulx3s!Left) = Len(out) - u_sent
      /\ \A i \in 1..Len(Ulx3s!Left) : Ulx3s!Left[i] = out[u_sent + i]
  <2>1. u_sent \in 0..Len(out)
    BY ONLY <1>1
  <2> QED BY ONLY <1>1, <1>3, <2>1, SubSeqFacts
<1>5. /\ SubSeq(Ulx3s!Left, 1, k) \in Seq(UByte) /\ Len(SubSeq(Ulx3s!Left, 1, k)) = k
      /\ \A i \in 1..k : SubSeq(Ulx3s!Left, 1, k)[i] = out[u_sent + i]
  BY <1>1, <1>4
<1> DEFINE part == SubSeq(Ulx3s!Left, 1, k)
<1>6. part \in Seq(UByte) /\ Len(part) = k /\ \A i \in 1..k : part[i] = out[u_sent + i]
  BY <1>5
<1>7. u_line' = u_line \o part
  OBVIOUS
<1> HIDE DEF part
<1>8. /\ u_line' \in Seq(UByte) /\ Len(u_line') = Len(u_line) + k
      /\ \A i \in 1..Len(u_line) : u_line'[i] = u_line[i]
      /\ \A i \in 1..k : u_line'[Len(u_line) + i] = part[i]
  <2> DEFINE whole == u_line \o part
  <2>1. part \in Seq(UByte) /\ u_line \in Seq(UByte) /\ Len(part) = k /\ Len(u_line) \in Nat /\ k \in Nat
    BY <1>2, <1>4, <1>6, <1>1
  <2>2. whole \in Seq(UByte) /\ Len(whole) = Len(u_line) + k
    BY <2>1
  <2>3. \A i \in 1..Len(u_line) : whole[i] = u_line[i]
    BY <2>1
  <2>4. \A i \in 1..k : whole[Len(u_line) + i] = part[i]
    BY <2>1
  <2> QED BY <1>7, <2>2, <2>3, <2>4
<1> QED BY <1>4, <1>6, <1>8 DEF out

-----------------------------------------------------------------------------
(* The steps of main() before it writes. *)

\* A board that was just powered, before any run.
LEMMA Ulx3sInitInv == Ulx3s!Init => Ulx3sInv
<1> SUFFICES ASSUME Ulx3s!Init PROVE Ulx3sInv
  OBVIOUS
<1> USE DEF Ulx3s!Init
<1>1. Ulx3sTyped
  <2>1. u_harmed \in BOOLEAN
    BY Zenon
  <2> QED BY <2>1, Ulx3sConstants, LenEmpty, SeqFacts DEF Ulx3sTyped, Under
<1>2. LeftBehind
  BY Ulx3sConstants DEF LeftBehind, LineInShape
<1> QED BY <1>1, <1>2 DEF Ulx3sInv, Aborting, Submitting, Receiving, Concluded

\* A step that changes none of the variables keeps the invariant.
LEMMA Ulx3sStutter ==
  ASSUME Ulx3sInv, UNCHANGED Ulx3s!vars PROVE Ulx3sInv'
<1> USE DEF Ulx3s!vars, Ulx3s!host, Ulx3s!board
<1>1. Ulx3sTyped'
  BY DEF Ulx3sInv, Ulx3sTyped
<1>2. LeftBehind'
  BY DEF Ulx3sInv, LeftBehind, LineInShape, Computing
<1>3. Aborting'
  BY DEF Ulx3sInv, Aborting, Silent, Unanswered
<1>4. Submitting'
  BY DEF Ulx3sInv, Submitting, Submission, Silent, Unanswered, Complete, Traced, Computing, Plain
<1>5. Receiving' /\ Concluded'
  BY DEF Ulx3sInv, Receiving, Concluded, Complete, Traced
<1> QED BY <1>1, <1>2, <1>3, <1>4, <1>5 DEF Ulx3sInv

\* A new process finds the board as the last one left it.
LEMMA Ulx3sStart ==
  ASSUME Ulx3sInv, Ulx3s!Start PROVE Ulx3sInv'
<1> USE DEF Ulx3s!Start
<1>1. Ulx3sTyped'
  <2>1. u_harmed' \in BOOLEAN
    BY Zenon
  <2> QED BY <2>1, Ulx3sConstants, LenEmpty, SeqFacts DEF Ulx3sInv, Ulx3sTyped, Under
<1>2. LeftBehind'
  BY DEF Ulx3sInv, LeftBehind, LineInShape, Computing, Under
<1> QED BY <1>1, <1>2 DEF Ulx3sInv, Aborting, Submitting, Receiving, Concluded

\* Every status a run ends with is one that Python returns.
LEMMA Ended ==
  ASSUME NEW s \in 0..2, Ulx3s!Return(s) \/ (s = 1 /\ Ulx3s!Traceback)
  PROVE  \E t \in 0..2, h \in {"return", "raise"} : u_exit' = [status |-> t, how |-> h]
<1>1. CASE Ulx3s!Return(s)
  BY <1>1, Zenon DEF Ulx3s!Return
<1>2. CASE s = 1 /\ Ulx3s!Traceback
  <2>1. u_exit' = [status |-> s, how |-> "raise"]
    BY <1>2 DEF Ulx3s!Traceback
  <2> QED BY <2>1, Zenon
<1> QED BY <1>1, <1>2

\* open_port discards what the kernel has buffered, not what is on its way.
LEMMA Ulx3sOpen ==
  ASSUME Ulx3sInv, Ulx3s!Open PROVE Ulx3sInv'
<1>1. CASE u_pc' = "drain" /\ u_rx' = <<>> /\ UNCHANGED u_exit
  <2> USE <1>1 DEF Ulx3s!Open
  <2>1. Ulx3sTyped'
    BY SeqFacts DEF Ulx3sInv, Ulx3sTyped, Under, Ulx3s!board
  <2>2. LeftBehind'
    <3>1. LineInShape'
      BY DEF Ulx3sInv, LeftBehind, LineInShape, Computing, Under, Ulx3s!board
    <3>2. Len(u_rx) \in Nat /\ Len(u_air) \in Nat /\ Len(u_rx') = 0
      BY LenEmpty DEF Ulx3sInv, Ulx3sTyped
    <3>3. Len(u_rx') + Len(u_air') <= Ulx3sReply + 1
      BY <3>2, Ulx3sConstants DEF Ulx3sInv, LeftBehind, Under, Ulx3s!board
    <3> QED BY <3>1, <3>3 DEF Ulx3sInv, LeftBehind, Under, Ulx3s!board
  <2> QED BY <2>1, <2>2 DEF Ulx3sInv, Aborting, Submitting, Receiving, Concluded
<1>2. CASE Ulx3s!Return(2) /\ UNCHANGED u_rx
  <2>1. \E t \in 0..2, h \in {"return", "raise"} : u_exit' = [status |-> t, how |-> h]
    BY <1>2, Ended
  <2> USE <1>2 DEF Ulx3s!Open, Ulx3s!Return
  <2>2. Ulx3sTyped'
    BY <2>1 DEF Ulx3sInv, Ulx3sTyped, Under, Ulx3s!board
  <2>3. LeftBehind'
    BY DEF Ulx3sInv, LeftBehind, LineInShape, Computing, Under, Ulx3s!board
  <2> QED BY <2>2, <2>3 DEF Ulx3sInv, Aborting, Submitting, Receiving, Concluded
<1> QED BY <1>1, <1>2 DEF Ulx3s!Open

\* The drain after opening takes everything that is on its way.
LEMMA Ulx3sDrainOpen ==
  ASSUME Ulx3sInv, Ulx3s!DrainOpen PROVE Ulx3sInv'
<1> USE DEF Ulx3s!DrainOpen, Ulx3s!Drained
<1>1. u_rx \o u_air \in Seq(UByte) /\ Len(u_rx \o u_air) <= Ulx3sReply + 1
  BY SeqFacts DEF Ulx3sInv, Ulx3sTyped, LeftBehind, Under
<1>2. u_rx' = <<>>
  BY <1>1, RestIsEmpty
<1>3. Ulx3sTyped'
  BY <1>2, SeqFacts DEF Ulx3sInv, Ulx3sTyped, Under
<1>4. LeftBehind'
  BY <1>2, LenEmpty, Ulx3sConstants DEF LeftBehind, LineInShape
<1> QED BY <1>3, <1>4 DEF Ulx3sInv, Aborting, Submitting, Receiving, Concluded

\* main() refuses bad operands with status 2, before it writes anything.
LEMMA Ulx3sCheckArgs ==
  ASSUME Ulx3sInv, Ulx3s!CheckArgs PROVE Ulx3sInv'
<1> USE DEF Ulx3s!CheckArgs
<1>1. u_args \in Ulx3s!Args
  BY DEF Ulx3sInv, Ulx3sTyped
<1>2. LeftBehind'
  BY DEF Ulx3sInv, LeftBehind, LineInShape, Computing, Under, Ulx3s!board, Ulx3s!Return
<1>3. CASE Ulx3s!Return(2)
  <2>1. u_pc' = "exited" /\ u_exit' = [status |-> 2, how |-> "return"]
    BY <1>3 DEF Ulx3s!Return
  <2>2. \E t \in 0..2, h \in {"return", "raise"} : u_exit' = [status |-> t, how |-> h]
    <3>1. 2 \in 0..2
      BY ONLY Ulx3sConstants
    <3> QED BY <2>1, <3>1, Zenon
  <2>3. Ulx3sTyped'
    BY <2>1, <2>2 DEF Ulx3sInv, Ulx3sTyped, Under, Ulx3s!board
  <2> QED BY ONLY <2>1, <2>3, <1>2 DEF Ulx3sInv, Aborting, Submitting, Receiving, Concluded
<1>4. CASE ~Ulx3s!Return(2)
  <2>1. u_pc' = "resync" /\ UNCHANGED u_exit
        /\ ~(u_args.tx = "compute" /\ (u_args.payload \in {"none", "not hex", "short"} \/ Ulx3s!CarriesAbort))
    BY <1>4
  <2>2. u_args.payload \in {"none", "not hex", "short", "has 0x7f", "good"}
    BY <1>1 DEF Ulx3s!Args, Ulx3s!Payloads
  <2>3. u_args.tx = "compute" => u_args.payload = "good"
    BY <2>1, <2>2 DEF Ulx3s!CarriesAbort
  <2>4. Ulx3sTyped'
    BY <2>1, <2>3 DEF Ulx3sInv, Ulx3sTyped, Under, Ulx3s!board
  <2> QED BY <2>1, <2>4, <1>2 DEF Ulx3sInv, Aborting, Submitting, Receiving, Concluded
<1> QED BY <1>3, <1>4

\* The drain of resync finds the line empty and leaves no byte for the host.
LEMMA Ulx3sResync ==
  ASSUME Ulx3sInv, Ulx3s!Resync PROVE Ulx3sInv'
<1> USE DEF Ulx3s!Resync, Ulx3s!Drained
<1>1. u_rx \o u_air \in Seq(UByte) /\ Len(u_rx \o u_air) <= Ulx3sReply + 1
  BY SeqFacts DEF Ulx3sInv, Ulx3sTyped, LeftBehind, Under
<1>2. u_rx' = <<>>
  BY <1>1, RestIsEmpty
<1>3. Ulx3sTyped'
  BY <1>2, SeqFacts DEF Ulx3sInv, Ulx3sTyped, Under
<1>4. Aborting'
  BY <1>2 DEF Ulx3sInv, Ulx3sTyped, Aborting, Silent, Under
<1> QED BY <1>3, <1>4 DEF Ulx3sInv, LeftBehind, Submitting, Receiving, Concluded, Under

-----------------------------------------------------------------------------
(* Writing. *)

\* No more is written than there is to write.
LEMMA SentWithin ==
  ASSUME Ulx3sInv, u_pc \in {"abort", "send"}
  PROVE  /\ u_sent <= Len(Ulx3s!Outgoing)
         /\ u_pc = "abort" => Len(Ulx3s!Outgoing) = 1
         /\ u_pc = "send" => Len(Ulx3s!Outgoing) = IF u_args.tx = "compute" THEN Ulx3sOperands + 1 ELSE 1
<1>1. Ulx3sTyped
  BY DEF Ulx3sInv
<1>2. CASE u_pc = "abort"
  <2>1. u_sent \in {0, 1}
    BY <1>2 DEF Ulx3sInv, Aborting
  <2>2. Ulx3s!Outgoing = <<Ulx3s!ABORT>>
    BY <1>1, <1>2, OutgoingFacts
  <2> QED BY <2>1, <2>2, <1>2
<1>3. CASE u_pc = "send"
  <2>1. u_args \in Ulx3s!Args /\ (u_args.tx = "compute" => u_args.payload = "good")
    BY <1>1, <1>3 DEF Ulx3sTyped
  <2>2. Len(Ulx3s!Outgoing) = IF u_args.tx = "compute" THEN Ulx3sOperands + 1 ELSE 1
    BY <2>1, Ulx3sRequestFacts, OutgoingFacts, <1>1, <1>3
  <2>3. u_args.tx # "compute" => u_sent \in {0, 1}
    <3>1. Submission(u_sent)
      BY <1>3 DEF Ulx3sInv, Submitting
    <3> QED BY <3>1 DEF Submission
  <2>4. u_sent \in 0..(Ulx3sOperands + 1)
    BY <1>1 DEF Ulx3sTyped
  <2> QED BY <1>3, <2>2, <2>3, <2>4, Ulx3sConstants
<1> QED BY <1>2, <1>3

\* Two sequences of length one are equal if their elements are.
LEMMA SingleEqual ==
  ASSUME NEW S, NEW s \in Seq(S), NEW t \in Seq(S), Len(s) = 1, Len(t) = 1, s[1] = t[1]
  PROVE  s = t
  OBVIOUS

\* A write of the ABORT hands over all of it or nothing.
LEMMA HandedAbort ==
  ASSUME Ulx3sInv, u_pc = "abort", NEW k \in 0..Len(Ulx3s!Left),
         u_line' = u_line \o SubSeq(Ulx3s!Left, 1, k)
  PROVE  \/ k = 0 /\ u_line' = u_line
         \/ k = 1 /\ u_sent = 0 /\ u_line' = <<Ulx3s!ABORT>>
<1>1. Ulx3sTyped /\ u_pc \in {"abort", "send"}
  BY DEF Ulx3sInv
<1>2. u_sent <= Len(Ulx3s!Outgoing) /\ Len(Ulx3s!Outgoing) = 1
  BY SentWithin
<1>3. /\ Len(Ulx3s!Left) = 1 - u_sent
      /\ u_line' \in Seq(UByte) /\ Len(u_line') = Len(u_line) + k
      /\ \A i \in 1..Len(u_line) : u_line'[i] = u_line[i]
      /\ \A i \in 1..k : u_line'[Len(u_line) + i] = Ulx3s!Outgoing[u_sent + i]
  BY <1>1, <1>2, HandedFacts
<1>4. u_sent \in Nat /\ u_line \in Seq(UByte) /\ Len(u_line) \in Nat
  BY <1>1, Ulx3sConstants DEF Ulx3sTyped
<1>5. k \in {0, 1} /\ (k = 1 => u_sent = 0)
  BY <1>3, <1>4
<1>6. CASE k = 0
  <2>1. Len(u_line') = Len(u_line)
    BY <1>3, <1>4, <1>6
  <2> QED BY <2>1, <1>3, <1>4, <1>6
<1>7. CASE k = 1
  <2>1. u_sent = 0 /\ u_line = <<>>
    BY <1>5, <1>7 DEF Ulx3sInv, Aborting
  <2>2. Len(u_line') = 1 /\ u_line'[1] = Ulx3s!Outgoing[1]
    BY <2>1, <1>3, <1>7, LenEmpty
  <2>3. Ulx3s!Outgoing[1] = Ulx3s!ABORT
    BY <1>1, OutgoingFacts
  <2>4. <<Ulx3s!ABORT>> \in Seq(UByte) /\ Len(<<Ulx3s!ABORT>>) = 1
        /\ <<Ulx3s!ABORT>>[1] = Ulx3s!ABORT
    BY UnitFacts
  <2>5. u_line' = <<Ulx3s!ABORT>>
    BY ONLY <2>2, <2>3, <2>4, <1>3, SingleEqual
  <2> QED BY ONLY <2>1, <2>5, <1>7
<1>8. k = 0 \/ k = 1
  BY <1>5, Zenon
<1> QED BY ONLY <1>6, <1>7, <1>8

\* A write of any part of the request keeps the account of its units.
LEMMA HandedSend ==
  ASSUME Ulx3sInv, u_pc = "send", NEW k \in 0..Len(Ulx3s!Left), NEW m, m = u_sent + k,
         u_line' = u_line \o SubSeq(Ulx3s!Left, 1, k),
         UNCHANGED <<u_args, u_got, u_rx, u_air, u_held, u_answer, u_harmed>>
  PROVE  Submission(m)'
<1>1. Ulx3sTyped /\ u_pc \in {"abort", "send"}
  BY DEF Ulx3sInv
<1>0. m = u_sent + k
  OBVIOUS
<1> DEFINE all == IF u_args.tx = "compute" THEN Ulx3sOperands + 1 ELSE 1
<1>2. u_sent <= Len(Ulx3s!Outgoing) /\ Len(Ulx3s!Outgoing) = all
  BY SentWithin
<1>3. /\ Len(Ulx3s!Left) = all - u_sent
      /\ u_line' \in Seq(UByte) /\ Len(u_line') = Len(u_line) + k
      /\ \A i \in 1..Len(u_line) : u_line'[i] = u_line[i]
      /\ \A i \in 1..k : u_line'[Len(u_line) + i] = Ulx3s!Outgoing[u_sent + i]
  BY <1>1, <1>2, HandedFacts
<1>4. u_sent \in Nat /\ u_line \in Seq(UByte) /\ Len(u_line) \in Nat
      /\ u_held \in Seq(UByte) /\ Len(u_held) \in Nat /\ all \in Nat
  BY <1>1, Ulx3sConstants DEF Ulx3sTyped
<1>5. k \in 0..(all - u_sent) /\ k \in Nat /\ m <= all
  BY <1>3, <1>4
<1>6. k = 0 => u_line' = u_line /\ m = u_sent
  <2> SUFFICES ASSUME k = 0 PROVE u_line' = u_line /\ m = u_sent
    OBVIOUS
  <2>1. Len(u_line') = Len(u_line) /\ m = u_sent
    BY <1>3, <1>4
  <2> QED BY <2>1, <1>3, <1>4
<1>7. Ulx3s!Outgoing = Ulx3s!Request(u_args)
  BY <1>1, OutgoingFacts
<1>8. u_args \in Ulx3s!Args /\ (u_args.tx = "compute" => u_args.payload = "good")
  BY <1>1 DEF Ulx3sTyped
<1>9. Submission(u_sent)
  BY DEF Ulx3sInv, Submitting
<1> HIDE DEF all
<1>10. CASE k = 0
  BY <1>6, <1>9, <1>10 DEF Submission, Complete, Traced, Unanswered, Silent, Computing, Plain
<1>11. CASE k > 0
  <2>1. u_sent < all
    BY <1>4, <1>5, <1>11
  <2>2. CASE u_args.tx = "compute"
    <3>1. /\ Unanswered /\ Computing(u_args.value)
          /\ Len(u_held) + Len(u_line) = u_sent
      <4>1. u_sent # Ulx3sOperands + 1
        BY <2>1, <2>2, Ulx3sConstants, <1>4 DEF all
      <4> QED BY <1>9, <4>1, <2>2 DEF Submission, Plain
    <3>2. \A i \in 1..(Ulx3sOperands + 1) :
            Ulx3s!Outgoing[i] = [val |-> u_args.value, pos |-> i + 2]
      BY <1>7, <1>8, <2>2, Ulx3sRequestFacts
    <3>3. all = Ulx3sOperands + 1
      BY <2>2 DEF all
    <3>4. Len(u_held) + Len(u_line') = m /\ m <= Ulx3sOperands + 1
      <4>1. Len(u_held) + Len(u_line) = u_sent
        BY <3>1
      <4>2. Len(u_line') = Len(u_line) + k
        BY <1>3
      <4> QED BY ONLY <1>0, <4>1, <4>2, <1>4, <1>5, <3>3
    <3>5. ASSUME NEW i \in 1..Len(u_line')
          PROVE  u_line'[i] = [val |-> u_args.value, pos |-> Len(u_held) + i + 2]
      <4>1. CASE i <= Len(u_line)
        <5>1. i \in 1..Len(u_line)
          BY <4>1, <1>3, <1>4
        <5> QED BY <5>1, <1>3, <3>1 DEF Computing
      <4>2. CASE i > Len(u_line)
        <5> DEFINE j == i - Len(u_line)
        <5>1. j \in 1..k /\ Len(u_line) + j = i /\ u_sent + j \in 1..(Ulx3sOperands + 1)
              /\ u_sent + j + 2 = Len(u_held) + i + 2
          <6>1. i \in Nat /\ i <= Len(u_line) + k
            BY <1>3, <1>4, <1>5
          <6>2. j \in 1..k /\ Len(u_line) + j = i
            BY ONLY <6>1, <4>2, <1>4, <1>5
          <6>3. Len(u_held) + Len(u_line) = u_sent
            BY <3>1
          <6> QED BY ONLY <6>1, <6>2, <6>3, <1>0, <1>4, <1>5, <3>3, Ulx3sConstants
        <5> HIDE DEF j
        <5>2. u_line'[i] = Ulx3s!Outgoing[u_sent + j]
          BY <5>1, <1>3
        <5>3. Ulx3s!Outgoing[u_sent + j] = [val |-> u_args.value, pos |-> u_sent + j + 2]
          BY <5>1, <3>2
        <5> QED BY <5>1, <5>2, <5>3
      <4> QED BY <4>1, <4>2, <1>3, <1>4, <1>5
    <3>6. Computing(u_args.value)'
      BY <3>1, <3>4, <3>5 DEF Computing
    <3>7. Unanswered'
      BY <3>1 DEF Unanswered, Silent
    <3> QED BY <3>4, <3>6, <3>7, <2>2 DEF Submission
  <2>3. CASE u_args.tx # "compute"
    <3>1. all = 1 /\ u_sent = 0 /\ k = 1 /\ m = 1
      BY <1>4, <1>5, <1>11, <2>1, <2>3 DEF all
    <3>2. Unanswered /\ Plain /\ u_held = <<>> /\ u_line = <<>>
      BY <1>9, <2>3, <3>1 DEF Submission, all
    <3>3. Len(u_line') = 1 /\ u_line'[1] = Ulx3s!Outgoing[1]
      BY <3>1, <3>2, <1>3, LenEmpty
    <3>4. Ulx3s!Outgoing \in Seq(UByte) /\ Len(Ulx3s!Outgoing) = 1
      BY <1>1, <1>2, <3>1, OutgoingFacts
    <3>5. u_line' = Ulx3s!Request(u_args)
      BY <3>3, <3>4, <1>3, <1>7, SingleEqual
    <3>6. Unanswered' /\ Plain' /\ Ulx3s!Request(u_args)' = Ulx3s!Request(u_args)
      BY <3>2 DEF Unanswered, Silent, Plain
    <3> QED BY <3>1, <3>2, <3>5, <3>6 DEF Submission
  <2> QED BY <2>2, <2>3
<1> QED BY <1>5, <1>10, <1>11

\* send_bytes, with a short write.
LEMMA Ulx3sSendBytes ==
  ASSUME Ulx3sInv, Ulx3s!SendBytes PROVE Ulx3sInv'
<1>1. PICK k \in 1..Len(Ulx3s!Left) :
        u_line' = u_line \o SubSeq(Ulx3s!Left, 1, k) /\ u_sent' = Ulx3s!Advance(k)
  BY DEF Ulx3s!SendBytes
<1>2. /\ UNCHANGED <<u_run, u_args, u_pc, u_got, u_exit, u_rx, u_air, u_held, u_answer, u_harmed, u_damage>>
      /\ u_pc \in {"abort", "send"} /\ u_sent' = u_sent + k
  BY <1>1 DEF Ulx3s!SendBytes, Ulx3s!Advance
<1>3. u_sent <= Len(Ulx3s!Outgoing) /\ Ulx3sTyped
  BY <1>2, SentWithin DEF Ulx3sInv
<1>4. Len(Ulx3s!Left) = Len(Ulx3s!Outgoing) - u_sent /\ Len(Ulx3s!Outgoing) \in Nat /\ u_sent \in Nat
  BY <1>2, <1>3, Ulx3sConstants, OutgoingFacts DEF Ulx3sTyped, Ulx3s!Left
<1>5. k \in 0..Len(Ulx3s!Left)
  BY <1>4
<1>6. u_line' \in Seq(UByte)
  BY <1>1, <1>2, <1>3, <1>5, HandedFacts
<1>7. u_sent' \in 0..(Ulx3sOperands + 1)
  <2>1. Len(Ulx3s!Outgoing) <= Ulx3sOperands + 1
    <3>1. CASE u_pc = "abort"
      BY <3>1, SentWithin, Ulx3sConstants
    <3>2. CASE u_pc = "send" /\ u_args.tx = "compute"
      BY <3>2, SentWithin, Ulx3sConstants
    <3>3. CASE u_pc = "send" /\ u_args.tx # "compute"
      <4>1. Len(Ulx3s!Outgoing) = 1
        BY <1>2, <3>3, SentWithin, Zenon
      <4> QED BY ONLY <4>1, Ulx3sConstants
    <3>4. u_pc = "abort" \/ u_pc = "send"
      BY <1>2
    <3> QED BY ONLY <3>1, <3>2, <3>3, <3>4
  <2>2. u_sent' = u_sent + k
    BY <1>2
  <2> QED BY ONLY <2>1, <2>2, <1>4, <1>5, Ulx3sConstants
<1>8. Ulx3sTyped'
  BY <1>2, <1>3, <1>6, <1>7 DEF Ulx3sTyped, Under
<1>9. CASE u_pc = "abort"
  <2>1. k = 1 /\ u_sent = 0 /\ u_line' = <<Ulx3s!ABORT>>
    BY <1>1, <1>5, <1>9, HandedAbort
  <2>2. Aborting'
    BY <1>2, <2>1, <1>9 DEF Ulx3sInv, Aborting, Silent
  <2> QED BY <1>2, <1>8, <1>9, <2>2 DEF Ulx3sInv, LeftBehind, Submitting, Receiving, Concluded, Under
<1>10. CASE u_pc = "send"
  <2>1. PICK m : m = u_sent + k
    OBVIOUS
  <2>2. Submission(m)'
    BY <1>1, <1>2, <1>5, <1>10, <2>1, HandedSend
  <2>3. Submitting'
    BY <1>2, <2>1, <2>2 DEF Submitting, Submission
  <2> QED BY <1>2, <1>8, <1>10, <2>3 DEF Ulx3sInv, LeftBehind, Aborting, Receiving, Concluded, Under
<1> QED BY <1>2, <1>9, <1>10

-----------------------------------------------------------------------------
(* The ends of a run, and flush. *)

\* The lengths of the buffers are naturals.
LEMMA LengthsTyped ==
  ASSUME Ulx3sTyped
  PROVE  /\ Len(u_rx) \in Nat /\ Len(u_air) \in Nat /\ Len(u_got) \in Nat
         /\ Len(u_line) \in Nat /\ Len(u_held) \in Nat /\ Len(u_answer) \in Nat
         /\ u_sent \in Nat
  BY Ulx3sConstants DEF Ulx3sTyped

\* The lengths of empty buffers.
LEMMA SilentLengths == Silent => Len(u_rx) = 0 /\ Len(u_air) = 0 /\ Len(u_got) = 0
  BY LenEmpty DEF Silent

\* Once the request is answered, what is on its way fits in one drain.
LEMMA CompleteLengths ==
  ASSUME Ulx3sTyped, Complete
  PROVE  u_line = <<>> /\ Len(u_rx) + Len(u_air) <= Ulx3sReply + 1
<1>1. Len(u_answer) = Len(u_got) + Len(u_rx) + Len(u_air) /\ Len(u_answer) <= Ulx3sReply + 1
  BY DEF Complete, Traced
<1>2. Len(u_rx) + Len(u_air) <= Ulx3sReply + 1
  BY ONLY <1>1, LengthsTyped, Ulx3sTyped, Ulx3sConstants
<1> QED BY <1>2 DEF Complete

\* A run that ends while it sends leaves behind what LeftBehind allows.
LEMMA SubmissionLeft ==
  ASSUME Ulx3sTyped, u_run > 0, NEW m, Submission(m)
  PROVE  LineInShape /\ Len(u_rx) + Len(u_air) <= Ulx3sReply + 1
         /\ (u_line # <<>> => u_rx = <<>> /\ u_air = <<>>)
<1>1. CASE Complete
  BY <1>1, CompleteLengths DEF LineInShape
<1>2. CASE Unanswered
  <2>1. u_rx = <<>> /\ u_air = <<>>
    BY <1>2 DEF Unanswered, Silent
  <2>2. Len(u_rx) + Len(u_air) <= Ulx3sReply + 1
    BY <2>1, LenEmpty, Ulx3sConstants
  <2>3. LineInShape
    <3>1. u_line = <<>> \/ (u_args.tx = "compute" /\ Computing(u_args.value))
          \/ (Plain /\ u_held = <<>> /\ u_line = Ulx3s!Request(u_args))
      BY <1>2 DEF Submission, Complete
    <3>2. CASE u_args.tx = "compute" /\ Computing(u_args.value)
      <4>1. u_args.value \in OperandValues
        BY DEF Ulx3sTyped, Ulx3s!Args
      <4> QED BY <4>1, <3>2 DEF LineInShape
    <3>3. CASE Plain /\ u_held = <<>> /\ u_line = Ulx3s!Request(u_args)
      BY <3>3 DEF Plain, Ulx3s!Request, LineInShape
    <3> QED BY <3>1, <3>2, <3>3 DEF LineInShape
  <2> QED BY <2>1, <2>2, <2>3
<1> QED BY <1>1, <1>2 DEF Submission

\* So does a run that ends while it sends the ABORT.
LEMMA AbortingLeft ==
  ASSUME Silent, u_line = <<>> \/ u_line = <<Ulx3s!ABORT>>
  PROVE  LineInShape /\ Len(u_rx) + Len(u_air) <= Ulx3sReply + 1
         /\ (u_line # <<>> => u_rx = <<>> /\ u_air = <<>>)
  BY LenEmpty, Ulx3sConstants DEF Silent, LineInShape

\* A deadline passes in any call, with part of a chunk handed over by an abandoned
\* write: what stays behind is what LeftBehind allows.
LEMMA Ulx3sFails ==
  ASSUME Ulx3sInv, Ulx3s!Fails PROVE Ulx3sInv'
<1>1. PICK k \in 0..(IF u_pc \in {"abort", "send"} THEN Len(Ulx3s!Left) ELSE 0) :
        u_line' = u_line \o SubSeq(Ulx3s!Left, 1, k)
  BY DEF Ulx3s!Fails
<1>2. /\ UNCHANGED <<u_run, u_args, u_sent, u_got, u_rx, u_air, u_held, u_answer, u_harmed, u_damage>>
      /\ u_pc' = "exited" /\ u_exit' = [status |-> 2, how |-> "return"]
      /\ u_pc \in {"drain", "resync", "abort", "send", "recv"}
  BY DEF Ulx3s!Fails, Ulx3s!Return, Ulx3s!DeadlinePhases
<1>3. \E t \in 0..2, h \in {"return", "raise"} : u_exit' = [status |-> t, how |-> h]
  <2>1. 2 \in 0..2
    BY ONLY Ulx3sConstants
  <2> QED BY <1>2, <2>1, Zenon
<1>4. Ulx3sTyped
  BY DEF Ulx3sInv
<1>5. u_line' \in Seq(UByte) => Ulx3sTyped'
  BY <1>2, <1>3, <1>4 DEF Ulx3sTyped, Under
<1>6. Concluded'
  BY <1>2 DEF Concluded
<1>7. CASE u_pc = "abort"
  <2>1. u_line' = u_line \/ (u_sent = 0 /\ u_line' = <<Ulx3s!ABORT>>)
    BY <1>1, <1>7, HandedAbort
  <2>2. u_line' \in Seq(UByte)
    <3>1. <<Ulx3s!ABORT>> \in Seq(UByte) /\ u_line \in Seq(UByte)
      BY <1>4, UnitFacts DEF Ulx3sTyped
    <3> QED BY <2>1, <3>1
  <2>3. Silent' /\ (u_line' = <<>> \/ u_line' = <<Ulx3s!ABORT>>)
    BY <1>2, <1>7, <2>1 DEF Ulx3sInv, Aborting, Silent
  <2>4. LeftBehind'
    <3>1. (LineInShape /\ Len(u_rx) + Len(u_air) <= Ulx3sReply + 1
           /\ (u_line # <<>> => u_rx = <<>> /\ u_air = <<>>))'
      BY <2>3, LenEmpty, Ulx3sConstants DEF Silent, LineInShape
    <3> QED BY <3>1 DEF LeftBehind
  <2> QED BY <1>2, <1>5, <1>6, <2>2, <2>4 DEF Ulx3sInv, Aborting, Submitting, Receiving
<1>8. CASE u_pc = "send"
  <2>1. k \in 0..Len(Ulx3s!Left)
    BY <1>1, <1>8
  <2>2. PICK m : m = u_sent + k
    OBVIOUS
  <2>3. Submission(m)'
    BY <1>1, <1>2, <1>8, <2>1, <2>2, HandedSend
  <2>4. u_line' \in Seq(UByte)
    BY <1>1, <1>4, <1>8, <2>1, HandedFacts, SentWithin
  <2>5. Ulx3sTyped' /\ (u_run > 0)'
    BY <1>2, <1>4, <1>5, <1>8, <2>4 DEF Ulx3sTyped
  <2>6. (LineInShape /\ Len(u_rx) + Len(u_air) <= Ulx3sReply + 1
         /\ (u_line # <<>> => u_rx = <<>> /\ u_air = <<>>))'
    BY <2>3, <2>5, SubmissionLeft, PTL
  <2>7. LeftBehind'
    BY <2>6 DEF LeftBehind
  <2> QED BY <1>2, <1>6, <2>5, <2>7 DEF Ulx3sInv, Aborting, Submitting, Receiving
<1>9. CASE u_pc \in {"drain", "resync", "recv"}
  <2>1. k = 0
    BY <1>1, <1>9
  <2>2. u_line' = u_line
    <3>1. SubSeq(Ulx3s!Left, 1, 0) = <<>>
      OBVIOUS
    <3> QED BY <1>1, <1>4, <2>1, <3>1, SeqFacts DEF Ulx3sTyped
  <2>3. Ulx3sTyped'
    BY <1>4, <1>5, <2>2 DEF Ulx3sTyped
  <2>4. LineInShape /\ Len(u_rx) + Len(u_air) <= Ulx3sReply + 1
        /\ (u_line # <<>> => u_rx = <<>> /\ u_air = <<>>)
    <3>1. CASE u_pc = "recv"
      <4>1. Complete
        BY <3>1 DEF Ulx3sInv, Receiving
      <4> QED BY <1>4, <4>1, CompleteLengths DEF LineInShape
    <3>2. CASE u_pc # "recv"
      BY <1>9, <3>2 DEF Ulx3sInv, LeftBehind, Under
    <3> QED BY <3>1, <3>2
  <2>5. LeftBehind'
    BY <1>2, <2>2, <2>4 DEF LeftBehind, LineInShape, Computing
  <2> QED BY <1>2, <1>6, <2>3, <2>5 DEF Ulx3sInv, Aborting, Submitting, Receiving
<1> QED BY <1>2, <1>7, <1>8, <1>9

\* The same for an error main() does not catch.
LEMMA Ulx3sFailsOSError ==
  ASSUME Ulx3sInv, Ulx3s!FailsOSError PROVE Ulx3sInv'
<1>1. /\ UNCHANGED <<u_run, u_args, u_sent, u_got, u_rx, u_air, u_line, u_held, u_answer, u_harmed, u_damage>>
      /\ u_pc' = "exited" /\ u_exit' = [status |-> 1, how |-> "raise"]
      /\ u_pc \in {"abort", "send"}
  BY DEF Ulx3s!FailsOSError, Ulx3s!Traceback, Ulx3s!board
<1>2. \E t \in 0..2, h \in {"return", "raise"} : u_exit' = [status |-> t, how |-> h]
  <2>1. 1 \in 0..2
    BY ONLY Ulx3sConstants
  <2> QED BY <1>1, <2>1, Zenon
<1>3. Ulx3sTyped
  BY DEF Ulx3sInv
<1>4. Ulx3sTyped'
  BY <1>1, <1>2, <1>3 DEF Ulx3sTyped, Under
<1>5. Concluded'
  BY <1>1 DEF Concluded
<1>6. LineInShape /\ Len(u_rx) + Len(u_air) <= Ulx3sReply + 1
      /\ (u_line # <<>> => u_rx = <<>> /\ u_air = <<>>)
  <2>1. CASE u_pc = "abort"
    BY <2>1, AbortingLeft DEF Ulx3sInv, Aborting
  <2>2. CASE u_pc = "send"
    <3>1. u_run > 0 /\ Submission(u_sent)
      BY <1>3, <2>2 DEF Ulx3sInv, Submitting, Ulx3sTyped
    <3> QED BY <1>3, <3>1, SubmissionLeft
  <2> QED BY <1>1, <2>1, <2>2
<1>7. LeftBehind'
  BY <1>1, <1>6 DEF LeftBehind, LineInShape, Computing
<1> QED BY <1>1, <1>4, <1>5, <1>7 DEF Ulx3sInv, Aborting, Submitting, Receiving

\* flush: after the ABORT the core is clear; after the request it is answered.
LEMMA Ulx3sFlush ==
  ASSUME Ulx3sInv, Ulx3s!Flush PROVE Ulx3sInv'
<1>1. /\ UNCHANGED <<u_run, u_args, u_got, u_rx, u_air, u_line, u_held, u_answer, u_harmed, u_damage>>
      /\ u_pc \in {"abort", "send"} /\ u_sent' = 0 /\ u_line = <<>> /\ Ulx3s!Left = <<>>
  BY DEF Ulx3s!Flush, Ulx3s!board
<1>2. Ulx3sTyped
  BY DEF Ulx3sInv
<1>3. u_sent = Len(Ulx3s!Outgoing)
  <2>1. u_sent \in Nat /\ Len(Ulx3s!Outgoing) \in Nat /\ Ulx3s!Outgoing \in Seq(UByte)
    BY <1>1, <1>2, LengthsTyped, OutgoingFacts
  <2>2. u_sent <= Len(Ulx3s!Outgoing)
    BY <1>1, SentWithin
  <2>3. Len(SubSeq(Ulx3s!Outgoing, u_sent + 1, Len(Ulx3s!Outgoing))) = Len(Ulx3s!Outgoing) - u_sent
    BY <2>1, <2>2
  <2>4. Len(Ulx3s!Left) = Len(Ulx3s!Outgoing) - u_sent
    BY <2>3 DEF Ulx3s!Left
  <2> QED BY ONLY <2>1, <2>4, <1>1, LenEmpty
<1>4. CASE u_pc = "abort"
  <2>1. u_pc' = "send" /\ u_exit' = u_exit
    BY <1>4 DEF Ulx3s!Flush
  <2>2. u_sent = 1
    BY <1>3, <1>4, SentWithin
  <2>3. u_held = <<>> /\ Unanswered
    BY <1>1, <1>4, <2>2 DEF Ulx3sInv, Aborting
  <2>4. Unanswered'
    BY <1>1, <2>3 DEF Unanswered, Silent
  <2>5. u_args \in Ulx3s!Args /\ (u_args.tx = "compute" => u_args.payload = "good")
    BY <1>2, <1>4 DEF Ulx3sTyped
  <2>6. Ulx3sTyped'
    BY <1>1, <1>2, <2>1, <2>5, Ulx3sConstants DEF Ulx3sTyped, Under
  <2>7. Submission(0)'
    <3>1. CASE u_args.tx = "compute"
      <4>1. Computing(u_args.value)'
        BY <1>1, <2>3, LenEmpty, Ulx3sConstants DEF Computing
      <4>2. Len(u_held') + Len(u_line') = 0
        BY <1>1, <2>3, LenEmpty
      <4> QED BY <1>1, <2>4, <3>1, <4>1, <4>2 DEF Submission
    <3>2. CASE u_args.tx # "compute"
      <4>1. Plain'
        BY <1>1, <2>5, <3>2 DEF Plain, Ulx3s!Args
      <4> QED BY <1>1, <2>3, <2>4, <4>1 DEF Submission
    <3> QED BY <3>1, <3>2
  <2>8. Submitting'
    BY <1>1, <2>7 DEF Submitting, Submission
  <2> QED BY <2>1, <2>6, <2>8 DEF Ulx3sInv, LeftBehind, Aborting, Receiving, Concluded, Under
<1>5. CASE u_pc = "send" /\ u_args.tx = "clear"
  <2>1. u_pc' = "exited" /\ u_exit' = [status |-> 0, how |-> "return"]
    BY <1>5 DEF Ulx3s!Flush, Ulx3s!Return
  <2>2. \E t \in 0..2, h \in {"return", "raise"} : u_exit' = [status |-> t, how |-> h]
    <3>1. 0 \in 0..2
      BY ONLY Ulx3sConstants
    <3> QED BY <2>1, <3>1, Zenon
  <2>3. Ulx3sTyped'
    BY <1>1, <1>2, <2>1, <2>2, Ulx3sConstants DEF Ulx3sTyped, Under
  <2>4. LineInShape /\ Len(u_rx) + Len(u_air) <= Ulx3sReply + 1
        /\ (u_line # <<>> => u_rx = <<>> /\ u_air = <<>>)
    <3>1. u_run > 0 /\ Submission(u_sent)
      BY <1>2, <1>5 DEF Ulx3sInv, Submitting, Ulx3sTyped
    <3> QED BY <1>2, <3>1, SubmissionLeft
  <2>5. LeftBehind'
    BY <1>1, <2>4 DEF LeftBehind, LineInShape, Computing
  <2>6. Concluded'
    BY <1>1, <1>5, <2>1 DEF Concluded
  <2> QED BY <2>1, <2>3, <2>5, <2>6 DEF Ulx3sInv, Aborting, Submitting, Receiving
<1>6. CASE u_pc = "send" /\ u_args.tx # "clear"
  <2>1. u_pc' = "recv" /\ u_exit' = u_exit
    BY <1>6 DEF Ulx3s!Flush
  <2>2. Ulx3sTyped'
    <3>1. u_sent' \in 0..(Ulx3sOperands + 1) /\ u_run > 0
      BY <1>1, <1>2, <1>6, Ulx3sConstants DEF Ulx3sTyped
    <3>2. u_pc' \notin Under \cup {"exited", "resync", "abort", "send"}
      BY ONLY <2>1 DEF Under
    <3>3. u_pc' \in Under \cup {"abort", "send", "recv", "exited"}
      BY <2>1
    <3>4. /\ UNCHANGED u_run /\ UNCHANGED u_args /\ UNCHANGED u_got /\ UNCHANGED u_rx
          /\ UNCHANGED u_air /\ UNCHANGED u_line /\ UNCHANGED u_held /\ UNCHANGED u_answer
          /\ UNCHANGED u_harmed
      BY <1>1
    <3> QED BY ONLY <1>2, <3>1, <3>2, <3>3, <3>4 DEF Ulx3sTyped
  <2>3. Complete
    <3>1. Submission(u_sent)
      BY <1>6 DEF Ulx3sInv, Submitting
    <3>2. u_args.tx = "compute" => u_sent = Ulx3sOperands + 1
      BY <1>3, <1>6, SentWithin
    <3>3. u_args.tx # "compute" => u_sent = 1
      BY <1>3, <1>6, SentWithin
    <3>4. Len(u_line) = 0 /\ Len(u_held) <= Ulx3sOperands /\ Len(u_held) \in Nat
      BY <1>1, <1>2, LenEmpty, LengthsTyped DEF Ulx3sTyped
    <3>5. ~(u_args.tx = "compute" /\ Len(u_held) + Len(u_line) = u_sent)
      BY <3>2, <3>4, Ulx3sConstants
    <3>6. Plain => Ulx3s!Request(u_args) # <<>>
      <4>1. Plain => Ulx3s!Request(u_args) = <<Ulx3s!STATUS>> \/ Ulx3s!Request(u_args) = <<Ulx3s!CLEAR>>
        BY DEF Plain, Ulx3s!Request
      <4>2. <<Ulx3s!STATUS>> # <<>> /\ <<Ulx3s!CLEAR>> # <<>>
        OBVIOUS
      <4> QED BY <4>1, <4>2
    <3>7. Plain => u_args.tx # "compute"
      BY DEF Plain
    <3> QED BY <1>1, <1>6, <3>1, <3>3, <3>5, <3>6, <3>7 DEF Submission
  <2>4. Receiving'
    BY <1>1, <2>3 DEF Receiving, Complete, Traced
  <2> QED BY <2>1, <2>2, <2>4 DEF Ulx3sInv, LeftBehind, Aborting, Submitting, Concluded, Under
<1> QED BY <1>1, <1>4, <1>5, <1>6

-----------------------------------------------------------------------------
(* Receiving. *)

\* The head and the tail of a sequence.
LEMMA HeadTailFacts ==
  ASSUME NEW S, NEW s \in Seq(S), s # <<>>
  PROVE  /\ Len(s) \in Nat /\ Len(s) > 0 /\ Head(s) = s[1] /\ Head(s) \in S
         /\ Tail(s) \in Seq(S) /\ Len(Tail(s)) = Len(s) - 1
         /\ \A i \in 1..Len(Tail(s)) : Tail(s)[i] = s[i + 1]
  OBVIOUS

\* A sequence with one more element.
LEMMA AppendFacts ==
  ASSUME NEW S, NEW s \in Seq(S), NEW x \in S
  PROVE  /\ Append(s, x) \in Seq(S) /\ Len(s) \in Nat /\ Len(Append(s, x)) = Len(s) + 1
         /\ \A i \in 1..Len(s) : Append(s, x)[i] = s[i]
         /\ Append(s, x)[Len(s) + 1] = x
  OBVIOUS

\* A byte that arrives stays in its place among the bytes sent.
LEMMA TracedArrival ==
  ASSUME Ulx3sTyped, Traced, u_air # <<>>, u_air' = Tail(u_air), u_rx' = Append(u_rx, Head(u_air)),
         UNCHANGED <<u_got, u_answer>>
  PROVE  Traced'
<1>1. /\ Len(u_air) > 0 /\ Len(u_air') = Len(u_air) - 1 /\ Head(u_air) = u_air[1]
      /\ \A i \in 1..Len(u_air') : u_air'[i] = u_air[i + 1]
      /\ Head(u_air) \in UByte
  BY HeadTailFacts DEF Ulx3sTyped
<1>2. /\ Len(u_rx') = Len(u_rx) + 1
      /\ \A i \in 1..Len(u_rx) : u_rx'[i] = u_rx[i]
      /\ u_rx'[Len(u_rx) + 1] = u_air[1]
  BY <1>1, AppendFacts DEF Ulx3sTyped
<1>3. /\ Len(u_rx) \in Nat /\ Len(u_air) \in Nat /\ Len(u_got) \in Nat
  BY LengthsTyped
<1>4. /\ Len(u_answer) = Len(u_got) + Len(u_rx) + Len(u_air)
      /\ \A i \in 1..Len(u_got) : u_answer[i] = u_got[i]
      /\ \A i \in 1..Len(u_rx) : u_answer[i + Len(u_got)] = u_rx[i]
      /\ \A i \in 1..Len(u_air) : u_answer[i + Len(u_got) + Len(u_rx)] = u_air[i]
  BY DEF Traced
<1>5. Len(u_answer) = Len(u_got) + Len(u_rx') + Len(u_air')
  BY ONLY <1>1, <1>2, <1>3, <1>4
<1>6. ASSUME NEW i \in 1..Len(u_rx') PROVE u_answer[i + Len(u_got)] = u_rx'[i]
  <2>1. CASE i \in 1..Len(u_rx)
    BY <2>1, <1>2, <1>4
  <2>2. CASE i = Len(u_rx) + 1
    <3>1. 1 \in 1..Len(u_air) /\ 1 + Len(u_got) + Len(u_rx) = i + Len(u_got)
      BY ONLY <2>2, <1>1, <1>3
    <3>2. u_answer[1 + Len(u_got) + Len(u_rx)] = u_air[1]
      BY <3>1, <1>4
    <3> QED BY <3>1, <3>2, <2>2, <1>2
  <2>3. i \in 1..Len(u_rx) \/ i = Len(u_rx) + 1
    BY ONLY <1>2, <1>3, i \in 1..Len(u_rx')
  <2> QED BY <2>1, <2>2, <2>3
<1>7. ASSUME NEW i \in 1..Len(u_air') PROVE u_answer[i + Len(u_got) + Len(u_rx')] = u_air'[i]
  <2>1. i + 1 \in 1..Len(u_air) /\ (i + 1) + Len(u_got) + Len(u_rx) = i + Len(u_got) + Len(u_rx')
    BY ONLY <1>1, <1>2, <1>3, i \in 1..Len(u_air')
  <2>2. u_answer[(i + 1) + Len(u_got) + Len(u_rx)] = u_air[i + 1]
    BY <2>1, <1>4
  <2> QED BY <2>1, <2>2, <1>1
<1> QED BY <1>4, <1>5, <1>6, <1>7 DEF Traced

\* So does a byte that is read.
LEMMA TracedReading ==
  ASSUME Ulx3sTyped, Traced, u_rx # <<>>, u_rx' = Tail(u_rx), u_got' = Append(u_got, Head(u_rx)),
         UNCHANGED <<u_air, u_answer>>
  PROVE  Traced'
<1>1. /\ Len(u_rx) > 0 /\ Len(u_rx') = Len(u_rx) - 1 /\ Head(u_rx) = u_rx[1]
      /\ \A i \in 1..Len(u_rx') : u_rx'[i] = u_rx[i + 1]
      /\ Head(u_rx) \in UByte
  BY HeadTailFacts DEF Ulx3sTyped
<1>2. /\ Len(u_got') = Len(u_got) + 1
      /\ \A i \in 1..Len(u_got) : u_got'[i] = u_got[i]
      /\ u_got'[Len(u_got) + 1] = u_rx[1]
  BY <1>1, AppendFacts DEF Ulx3sTyped
<1>3. /\ Len(u_rx) \in Nat /\ Len(u_air) \in Nat /\ Len(u_got) \in Nat
  BY LengthsTyped
<1>4. /\ Len(u_answer) = Len(u_got) + Len(u_rx) + Len(u_air)
      /\ \A i \in 1..Len(u_got) : u_answer[i] = u_got[i]
      /\ \A i \in 1..Len(u_rx) : u_answer[i + Len(u_got)] = u_rx[i]
      /\ \A i \in 1..Len(u_air) : u_answer[i + Len(u_got) + Len(u_rx)] = u_air[i]
  BY DEF Traced
<1>5. Len(u_answer) = Len(u_got') + Len(u_rx') + Len(u_air)
  BY ONLY <1>1, <1>2, <1>3, <1>4
<1>6. ASSUME NEW i \in 1..Len(u_got') PROVE u_answer[i] = u_got'[i]
  <2>1. CASE i \in 1..Len(u_got)
    BY <2>1, <1>2, <1>4
  <2>2. CASE i = Len(u_got) + 1
    <3>1. 1 \in 1..Len(u_rx) /\ 1 + Len(u_got) = i
      BY ONLY <2>2, <1>1, <1>3
    <3>2. u_answer[1 + Len(u_got)] = u_rx[1]
      BY <3>1, <1>4
    <3> QED BY <3>1, <3>2, <2>2, <1>2
  <2>3. i \in 1..Len(u_got) \/ i = Len(u_got) + 1
    BY ONLY <1>2, <1>3, i \in 1..Len(u_got')
  <2> QED BY <2>1, <2>2, <2>3
<1>7. ASSUME NEW i \in 1..Len(u_rx') PROVE u_answer[i + Len(u_got')] = u_rx'[i]
  <2>1. i + 1 \in 1..Len(u_rx) /\ (i + 1) + Len(u_got) = i + Len(u_got')
    BY ONLY <1>1, <1>2, <1>3, i \in 1..Len(u_rx')
  <2>2. u_answer[(i + 1) + Len(u_got)] = u_rx[i + 1]
    BY <2>1, <1>4
  <2> QED BY <2>1, <2>2, <1>1
<1>8. Len(u_got') + Len(u_rx') = Len(u_got) + Len(u_rx)
  BY ONLY <1>1, <1>2, <1>3
<1>9. ASSUME NEW i \in 1..Len(u_air) PROVE u_answer[i + Len(u_got') + Len(u_rx')] = u_air[i]
  <2>1. i + Len(u_got') + Len(u_rx') = i + Len(u_got) + Len(u_rx)
    BY ONLY <1>1, <1>2, <1>3, i \in 1..Len(u_air)
  <2> QED BY <2>1, <1>4
<1> QED BY <1>4, <1>5, <1>6, <1>7, <1>9 DEF Traced

\* recv_exact takes one byte of the answer.
LEMMA Ulx3sRecvExact ==
  ASSUME Ulx3sInv, Ulx3s!RecvExact PROVE Ulx3sInv'
<1>1. /\ u_pc = "recv" /\ Len(u_got) < Ulx3sReply /\ u_rx # <<>>
      /\ u_got' = Append(u_got, Head(u_rx)) /\ u_rx' = Tail(u_rx)
      /\ UNCHANGED <<u_run, u_args, u_pc, u_sent, u_exit, u_air, u_line, u_held, u_answer, u_harmed, u_damage>>
  BY DEF Ulx3s!RecvExact, Ulx3s!board
<1>2. Ulx3sTyped /\ Complete
  BY <1>1 DEF Ulx3sInv, Receiving
<1>3. Traced'
  BY <1>1, <1>2, TracedReading DEF Complete
<1>4. u_rx' \in Seq(UByte) /\ Head(u_rx) \in UByte
  BY <1>1, <1>2, HeadTailFacts DEF Ulx3sTyped
<1>5. u_got' \in Seq(UByte) /\ Len(u_got') = Len(u_got) + 1
  BY <1>1, <1>2, <1>4, AppendFacts DEF Ulx3sTyped
<1>6. Len(u_got') <= Ulx3sReply
  BY ONLY <1>1, <1>2, <1>5, Ulx3sConstants, LengthsTyped
<1>7. Ulx3sTyped'
  BY <1>1, <1>2, <1>4, <1>5, <1>6 DEF Ulx3sTyped, Under
<1>8. Receiving'
  BY <1>1, <1>2, <1>3 DEF Receiving, Complete
<1> QED BY <1>1, <1>7, <1>8 DEF Ulx3sInv, LeftBehind, Aborting, Submitting, Concluded, Under

\* recv_response and the comparison: with no surplus, what was received is all that
\* the board sent, so the verdict is about the board.
LEMMA Ulx3sCompare ==
  ASSUME Ulx3sInv, Ulx3s!Compare PROVE Ulx3sInv'
<1>1. /\ u_pc = "recv" /\ u_air' = <<>> /\ u_rx' = Ulx3s!Rest(u_rx \o u_air)
      /\ u_pc' = "exited" /\ u_line = <<>>
      /\ UNCHANGED <<u_run, u_args, u_sent, u_got, u_line, u_held, u_answer, u_harmed, u_damage>>
  BY DEF Ulx3s!Compare, Ulx3s!Drained, Ulx3s!Return
<1>2. Ulx3sTyped /\ Complete
  BY <1>1 DEF Ulx3sInv, Receiving
<1>3. u_rx \o u_air \in Seq(UByte) /\ Len(u_rx \o u_air) = Len(u_rx) + Len(u_air)
  BY <1>2, SeqFacts DEF Ulx3sTyped
<1>4. u_rx' = <<>>
  BY <1>1, <1>2, <1>3, RestIsEmpty, CompleteLengths
<1>5. LeftBehind'
  BY <1>1, <1>4, LenEmpty, Ulx3sConstants DEF LeftBehind, LineInShape
<1>6. PICK s \in 0..2 : /\ u_exit' = [status |-> s, how |-> "return"]
                        /\ s # 2 => u_rx \o u_air = <<>>
                        /\ s = 0 => u_got = Ulx3s!Oracle(u_args)
                        /\ s = 1 => u_got # Ulx3s!Oracle(u_args)
  <2>1. CASE Ulx3s!Surplus
    <3>1. 2 \in 0..2
      BY ONLY Ulx3sConstants
    <3>2. u_exit' = [status |-> 2, how |-> "return"]
      BY <2>1 DEF Ulx3s!Compare, Ulx3s!Return
    <3>3. 2 # 0 /\ 2 # 1
      BY ONLY Ulx3sConstants
    <3> QED BY <3>1, <3>2, <3>3, Zenon
  <2>2. CASE ~Ulx3s!Surplus /\ u_got = Ulx3s!Oracle(u_args)
    <3>1. 0 \in 0..2 /\ 0 # 1
      BY ONLY Ulx3sConstants
    <3>2. u_exit' = [status |-> 0, how |-> "return"]
      BY <2>2 DEF Ulx3s!Compare, Ulx3s!Return
    <3>3. u_rx \o u_air = <<>>
      BY <2>2 DEF Ulx3s!Surplus
    <3> QED BY <3>1, <3>2, <3>3, <2>2, Zenon
  <2>3. CASE ~Ulx3s!Surplus /\ u_got # Ulx3s!Oracle(u_args)
    <3>1. 1 \in 0..2 /\ 0 # 1
      BY ONLY Ulx3sConstants
    <3>2. u_exit' = [status |-> 1, how |-> "return"]
      BY <2>3 DEF Ulx3s!Compare, Ulx3s!Return
    <3>3. u_rx \o u_air = <<>>
      BY <2>3 DEF Ulx3s!Surplus
    <3> QED BY <3>1, <3>2, <3>3, <2>3, Zenon
  <2> QED BY <2>1, <2>2, <2>3
<1>7. \E t \in 0..2, h \in {"return", "raise"} : u_exit' = [status |-> t, how |-> h]
  BY <1>6, Zenon
<1>8. u_rx' \in Seq(UByte) /\ u_air' \in Seq(UByte)
  BY <1>1, <1>4, SeqFacts
<1>9. Ulx3sTyped'
  BY <1>1, <1>2, <1>7, <1>8 DEF Ulx3sTyped, Under
<1>10. u_rx \o u_air = <<>> => u_got = u_answer
  <2> SUFFICES ASSUME u_rx \o u_air = <<>> PROVE u_got = u_answer
    OBVIOUS
  <2>1. Len(u_rx) = 0 /\ Len(u_air) = 0
    BY <1>2, <1>3, LenEmpty, LengthsTyped
  <2>2. Len(u_answer) = Len(u_got) /\ \A i \in 1..Len(u_got) : u_answer[i] = u_got[i]
    BY <1>2, <2>1, LengthsTyped DEF Complete, Traced
  <2>3. u_answer \in Seq(UByte) /\ u_got \in Seq(UByte)
    BY <1>2 DEF Ulx3sTyped
  <2> QED BY ONLY <2>2, <2>3
<1>11. u_exit'.status = s
  BY <1>6
<1>12. u_exit' = [status |-> 1, how |-> "return"] => s = 1
  <2>1. [status |-> 1, how |-> "return"].status = 1
    OBVIOUS
  <2> QED BY <1>11, <2>1
<1>13. Concluded'
  <2>1. s = 0 => u_line' = <<>> /\ u_got' = Ulx3s!Oracle(u_args') /\ u_answer' = u_got'
    BY <1>1, <1>6, <1>10
  <2>2. s = 1 => u_line' = <<>> /\ u_harmed' = TRUE
    <3>1. s = 1 => u_answer # Ulx3s!Oracle(u_args)
      BY <1>6, <1>10
    <3> QED BY <1>1, <1>2, <3>1 DEF Complete
  <2> QED BY <1>11, <1>12, <2>1, <2>2 DEF Concluded
<1> QED BY <1>1, <1>5, <1>9, <1>13 DEF Ulx3sInv, Aborting, Submitting, Receiving

\* A byte reaches the host.
LEMMA Ulx3sArrive ==
  ASSUME Ulx3sInv, Ulx3s!Arrive PROVE Ulx3sInv'
<1>1. /\ u_air # <<>> /\ u_air' = Tail(u_air) /\ u_rx' = Append(u_rx, Head(u_air))
      /\ UNCHANGED <<u_run, u_args, u_pc, u_sent, u_got, u_exit, u_line, u_held, u_answer, u_harmed, u_damage>>
  BY DEF Ulx3s!Arrive
<1>2. Ulx3sTyped
  BY DEF Ulx3sInv
<1>3. u_air' \in Seq(UByte) /\ Head(u_air) \in UByte /\ Len(u_air') = Len(u_air) - 1
  BY <1>1, <1>2, HeadTailFacts DEF Ulx3sTyped
<1>4. u_rx' \in Seq(UByte) /\ Len(u_rx') = Len(u_rx) + 1
  BY <1>1, <1>2, <1>3, AppendFacts DEF Ulx3sTyped
<1>5. Len(u_rx') + Len(u_air') = Len(u_rx) + Len(u_air)
  BY ONLY <1>2, <1>3, <1>4, LengthsTyped
<1>6. Ulx3sTyped'
  BY <1>1, <1>2, <1>3, <1>4 DEF Ulx3sTyped, Under
<1>7. Complete => Complete'
  BY <1>1, <1>2, TracedArrival DEF Complete
<1>8. ~Silent
  BY <1>1 DEF Silent
<1>9. LeftBehind'
  BY <1>1, <1>5 DEF Ulx3sInv, LeftBehind, LineInShape, Computing
<1>10. Aborting' /\ Receiving'
  BY <1>1, <1>7, <1>8 DEF Ulx3sInv, Aborting, Receiving
<1>11. Submitting'
  <2> SUFFICES ASSUME u_pc' = "send" PROVE Submission(u_sent)'
    BY DEF Submitting
  <2>1. Submission(u_sent)
    BY <1>1 DEF Ulx3sInv, Submitting
  <2>2. Complete /\ u_got = <<>> /\ u_sent = (IF u_args.tx = "compute" THEN Ulx3sOperands + 1 ELSE 1)
    BY <2>1, <1>8 DEF Submission, Unanswered
  <2> QED BY <1>1, <1>7, <2>2 DEF Submission
<1>12. Concluded'
  BY <1>1 DEF Ulx3sInv, Concluded
<1> QED BY <1>6, <1>9, <1>10, <1>11, <1>12 DEF Ulx3sInv

-----------------------------------------------------------------------------
(* The board, one unit at a time. *)

\* An answer of the value v.
Filled(v) == [i \in 1..Ulx3sReply |-> [val |-> v, pos |-> i]]

\* It has the length of an answer.
LEMMA FilledFacts ==
  ASSUME NEW v \in OperandValues \cup {None, Ulx3s!STATUS}
  PROVE  Filled(v) \in Seq(UByte) /\ Len(Filled(v)) = Ulx3sReply
<1>1. \A i \in 1..Ulx3sReply : [val |-> v, pos |-> i] \in UByte
  BY UnitFacts
<1> QED BY <1>1, Ulx3sConstants DEF Filled

\* An answer onto an idle line: as computed, or damaged and then known as such.
LEMMA AnswerGiven ==
  ASSUME Ulx3sTyped, u_air = <<>>, NEW bytes \in Seq(UByte), Len(bytes) = Ulx3sReply,
         Ulx3s!Answers(bytes)
  PROVE  \E d \in Seq(UByte) :
           /\ Len(d) <= Ulx3sReply + 1 /\ u_air' = d /\ u_answer' = u_answer \o d
           /\ (u_harmed' = u_harmed /\ d = bytes) \/ u_harmed' = TRUE
<1>1. Len(bytes) \in Nat /\ Len(bytes) > 0 /\ Len(bytes) <= Ulx3sReply + 1
  BY Ulx3sConstants
<1>2. \A d \in Seq(UByte) : u_air \o d = d
  BY SeqFacts
<1>3. CASE u_air' = u_air \o bytes /\ u_answer' = u_answer \o bytes /\ UNCHANGED <<u_harmed, u_damage>>
  <2>1. u_air' = bytes /\ u_answer' = u_answer \o bytes /\ u_harmed' = u_harmed
    BY <1>2, <1>3
  <2> QED BY <1>1, <2>1, Zenon
<1>4. CASE u_harmed' = TRUE
           /\ \E d \in {SubSeq(bytes, 1, Len(bytes) - 1), bytes \o <<Ulx3s!Last(bytes)>>,
                        [bytes EXCEPT ![1] = Ulx3s!Garbled]} :
                u_air' = u_air \o d /\ u_answer' = u_answer \o d
  <2>1. PICK d \in {SubSeq(bytes, 1, Len(bytes) - 1), bytes \o <<Ulx3s!Last(bytes)>>,
                    [bytes EXCEPT ![1] = Ulx3s!Garbled]} :
          u_air' = u_air \o d /\ u_answer' = u_answer \o d
    BY <1>4
  <2>2. d \in Seq(UByte) /\ Len(d) <= Ulx3sReply + 1
    <3>1. CASE d = SubSeq(bytes, 1, Len(bytes) - 1)
      BY <1>1, <3>1
    <3>2. CASE d = bytes \o <<Ulx3s!Last(bytes)>>
      <4>1. Ulx3s!Last(bytes) \in UByte
        BY <1>1 DEF Ulx3s!Last
      <4>2. <<Ulx3s!Last(bytes)>> \in Seq(UByte) /\ Len(<<Ulx3s!Last(bytes)>>) = 1
        BY <4>1
      <4> HIDE DEF Ulx3s!Last
      <4> QED BY <3>2, <4>2, <1>1, SeqFacts, Ulx3sConstants
    <3>3. CASE d = [bytes EXCEPT ![1] = Ulx3s!Garbled]
      BY <1>1, <3>3, UnitFacts
    <3> QED BY <2>1, <3>1, <3>2, <3>3
  <2>3. u_air' = d /\ u_answer' = u_answer \o d /\ u_harmed' = TRUE
    BY <1>2, <1>4, <2>1, <2>2
  <2> QED BY <2>2, <2>3, Zenon
<1> QED BY <1>3, <1>4 DEF Ulx3s!Answers

\* What the board's step does to the line, and what it leaves alone.
LEMMA ReceiveStays ==
  ASSUME Ulx3sTyped, Ulx3s!Receive
  PROVE  /\ u_line # <<>> /\ u_line' = Tail(u_line) /\ u_line' \in Seq(UByte)
         /\ Len(u_line) > 0 /\ Len(u_line') = Len(u_line) - 1 /\ Head(u_line) = u_line[1]
         /\ \A i \in 1..Len(u_line') : u_line'[i] = u_line[i + 1]
         /\ UNCHANGED <<u_run, u_args, u_pc, u_sent, u_got, u_exit, u_rx>>
<1>1. u_line # <<>> /\ u_line' = Tail(u_line)
      /\ UNCHANGED <<u_run, u_args, u_pc, u_sent, u_got, u_exit, u_rx>>
  BY DEF Ulx3s!Receive, Ulx3s!host
<1> QED BY <1>1, HeadTailFacts DEF Ulx3sTyped

\* The board takes the only unit on the line.
LEMMA TakesSingle ==
  ASSUME Ulx3sTyped, Ulx3s!Receive, NEW x, u_line = <<x>>
  PROVE  u_line' = <<>> /\ Head(u_line) = x
<1>1. Len(u_line) = 1 /\ u_line[1] = x
  OBVIOUS
<1>2. Len(u_line') = 0 /\ u_line' \in Seq(UByte)
  BY <1>1, ReceiveStays
<1>3. Head(u_line) = x
  BY <1>1, ReceiveStays
<1> QED BY <1>2, <1>3, SeqFacts

\* ABORT clears the core.
LEMMA TakesAbort ==
  ASSUME Ulx3sTyped, Ulx3s!Receive, u_line = <<Ulx3s!ABORT>>
  PROVE  u_line' = <<>> /\ u_held' = <<>> /\ u_answer' = <<>> /\ u_harmed' = FALSE /\ u_air' = u_air
<1>1. u_line' = <<>> /\ Head(u_line) = Ulx3s!ABORT
  BY TakesSingle
<1>2. u_held' = <<>> /\ u_answer' = <<>> /\ u_harmed' = FALSE /\ u_air' = u_air
  BY <1>1, Zenon DEF Ulx3s!Receive
<1> QED BY <1>1, <1>2

\* CLEAR has no answer.
LEMMA TakesClear ==
  ASSUME Ulx3sTyped, Ulx3s!Receive, u_line = <<Ulx3s!CLEAR>>, u_held = <<>>
  PROVE  u_line' = <<>> /\ UNCHANGED <<u_held, u_air, u_answer, u_harmed>>
<1>1. u_line' = <<>> /\ Head(u_line) = Ulx3s!CLEAR
  BY TakesSingle
<1>2. Ulx3s!CLEAR # Ulx3s!ABORT /\ Ulx3s!CLEAR # Ulx3s!STATUS /\ ~Ulx3s!IsOpcode(Ulx3s!CLEAR)
  BY UnitFacts DEF Ulx3s!IsOpcode
<1>3. UNCHANGED <<u_held, u_air, u_answer, u_harmed>>
  BY <1>1, <1>2, Zenon DEF Ulx3s!Receive
<1> QED BY <1>1, <1>3

\* STATUS is answered at once.
LEMMA TakesStatus ==
  ASSUME Ulx3sTyped, Ulx3s!Receive, u_line = <<Ulx3s!STATUS>>, u_held = <<>>
  PROVE  u_line' = <<>> /\ u_held' = <<>> /\ Ulx3s!Answers(Filled(Ulx3s!STATUS))
<1>1. u_line' = <<>> /\ Head(u_line) = Ulx3s!STATUS
  BY TakesSingle
<1>2. Ulx3s!STATUS # Ulx3s!ABORT /\ Ulx3s!CLEAR # Ulx3s!STATUS /\ ~Ulx3s!IsOpcode(Ulx3s!STATUS)
  BY UnitFacts DEF Ulx3s!IsOpcode
<1>3. u_held' = <<>> /\ Ulx3s!Answers(Filled(Ulx3s!STATUS))
  BY <1>1, <1>2, Zenon DEF Ulx3s!Receive, Filled
<1> QED BY <1>1, <1>3

\* A unit of a compute request is held, or is the last and answers the request.
LEMMA TakesOperand ==
  ASSUME Ulx3sTyped, Ulx3s!Receive, NEW v \in OperandValues, Computing(v)
  PROVE  \/ /\ Computing(v)' /\ Len(u_held') + Len(u_line') = Len(u_held) + Len(u_line)
            /\ u_held' \in Seq(UByte) /\ Len(u_held') <= Ulx3sOperands
            /\ UNCHANGED <<u_air, u_answer, u_harmed>>
         \/ /\ u_line' = <<>> /\ u_held' = <<>>
            /\ Len(u_held) + Len(u_line) = Ulx3sOperands + 1
            /\ Ulx3s!Answers(Filled(v))
<1> DEFINE u == Head(u_line)
           command == Append(u_held, u)
<1>1. /\ Len(u_held) \in Nat /\ Len(u_line) \in Nat /\ Len(u_line) > 0
      /\ Len(u_line') = Len(u_line) - 1 /\ u_held \in Seq(UByte) /\ u_line' \in Seq(UByte)
  BY ReceiveStays, LengthsTyped DEF Ulx3sTyped
<1>2. u = [val |-> v, pos |-> Len(u_held) + 3]
  <2>1. 1 \in 1..Len(u_line) /\ Len(u_held) + 1 + 2 = Len(u_held) + 3
    BY <1>1
  <2>2. u_line[1] = [val |-> v, pos |-> Len(u_held) + 1 + 2]
    BY <2>1 DEF Computing
  <2> QED BY <2>1, <2>2, ReceiveStays
<1>3. u \in UByte /\ u.val = v /\ u.pos = Len(u_held) + 3
  <2>1. Len(u_held) + 3 \in Int /\ v \in OperandValues \cup {None, Ulx3s!STATUS}
    BY ONLY <1>1, v \in OperandValues
  <2> HIDE DEF u
  <2>2. u \in UByte
    BY <1>2, <2>1, UnitFacts
  <2> QED BY <1>2, <2>2
<1> HIDE DEF u
<1>4. /\ command \in Seq(UByte) /\ Len(command) = Len(u_held) + 1
      /\ \A i \in 1..Len(u_held) : command[i] = u_held[i]
      /\ command[Len(u_held) + 1] = u
  BY <1>1, <1>3, AppendFacts
<1> HIDE DEF command
<1>5. u # Ulx3s!ABORT /\ u # Ulx3s!CLEAR /\ u # Ulx3s!STATUS
  BY <1>1, <1>3, UnitFacts
<1>6. u_held = <<>> => Ulx3s!IsOpcode(u)
  BY <1>3, LenEmpty DEF Ulx3s!IsOpcode
<1>7. \A i \in 1..Len(command) : command[i] = [val |-> v, pos |-> i + 2]
  <2> SUFFICES ASSUME NEW i \in 1..Len(command) PROVE command[i] = [val |-> v, pos |-> i + 2]
    OBVIOUS
  <2>1. CASE i \in 1..Len(u_held)
    BY <2>1, <1>4 DEF Computing
  <2>2. CASE i = Len(u_held) + 1
    <3>1. i + 2 = Len(u_held) + 3
      BY ONLY <2>2, <1>1
    <3> QED BY <2>2, <3>1, <1>2, <1>4
  <2>3. i \in 1..Len(u_held) \/ i = Len(u_held) + 1
    BY ONLY <1>1, <1>4, i \in 1..Len(command)
  <2> QED BY <2>1, <2>2, <2>3
<1>8. \A i \in DOMAIN command : command[i].val = u.val
  <2>1. DOMAIN command = 1..Len(command)
    BY <1>4, SeqFacts
  <2> QED BY <2>1, <1>3, <1>7
<1>9. \/ /\ Len(command) <= Ulx3sOperands /\ u_held' = command
         /\ UNCHANGED <<u_air, u_answer, u_harmed>>
      \/ /\ Len(command) > Ulx3sOperands /\ u_held' = <<>> /\ Ulx3s!Answers(Filled(v))
  <2>1. \/ /\ Len(command) <= Ulx3sOperands /\ u_held' = command
           /\ UNCHANGED <<u_air, u_answer, u_harmed>>
        \/ /\ Len(command) > Ulx3sOperands /\ u_held' = <<>>
           /\ Ulx3s!Answers([i \in 1..Ulx3sReply |->
                [val |-> IF \A j \in DOMAIN command : command[j].val = u.val THEN u.val ELSE Ulx3s!Garbled,
                 pos |-> i]])
    BY <1>5, <1>6, Zenon DEF Ulx3s!Receive, u, command
  <2>2. (IF \A j \in DOMAIN command : command[j].val = u.val THEN u.val ELSE Ulx3s!Garbled) = v
    BY <1>3, <1>8
  <2> HIDE DEF command
  <2>3. [i \in 1..Ulx3sReply |->
                [val |-> IF \A j \in DOMAIN command : command[j].val = u.val THEN u.val ELSE Ulx3s!Garbled,
                 pos |-> i]] = Filled(v)
    BY <2>2 DEF Filled
  <2> QED BY <2>1, <2>3
<1>10. CASE /\ Len(command) <= Ulx3sOperands /\ u_held' = command
            /\ UNCHANGED <<u_air, u_answer, u_harmed>>
  <2>1. Len(u_held') = Len(u_held) + 1 /\ Len(u_held') + Len(u_line') = Len(u_held) + Len(u_line)
    BY <1>1, <1>4, <1>10
  <2>2. Len(u_held') + Len(u_line') <= Ulx3sOperands + 1
    BY <2>1 DEF Computing
  <2>3. ASSUME NEW i \in 1..Len(u_line')
        PROVE  u_line'[i] = [val |-> v, pos |-> Len(u_held') + i + 2]
    <3>1. i + 1 \in 1..Len(u_line) /\ Len(u_held) + (i + 1) + 2 = Len(u_held') + i + 2
      BY ONLY <1>1, <2>1, i \in 1..Len(u_line')
    <3>2. u_line[i + 1] = [val |-> v, pos |-> Len(u_held) + (i + 1) + 2]
      BY <3>1 DEF Computing
    <3> QED BY <3>1, <3>2, ReceiveStays
  <2>4. Computing(v)'
    BY <1>7, <1>10, <2>2, <2>3 DEF Computing
  <2> QED BY <1>4, <1>10, <2>1, <2>4
<1>11. CASE Len(command) > Ulx3sOperands /\ u_held' = <<>> /\ Ulx3s!Answers(Filled(v))
  <2>1. Len(u_held) + Len(u_line) <= Ulx3sOperands + 1
    BY DEF Computing
  <2>2. Len(command) > Ulx3sOperands /\ Len(command) = Len(u_held) + 1
    BY <1>4, <1>11
  <2>3. Len(u_held) + Len(u_line) = Ulx3sOperands + 1 /\ Len(u_line') = 0
    BY ONLY <1>1, <2>1, <2>2, Ulx3sConstants
  <2>4. u_line' = <<>>
    BY <1>1, <2>3, SeqFacts
  <2> QED BY <1>11, <2>3, <2>4
<1> QED BY <1>9, <1>10, <1>11

-----------------------------------------------------------------------------
(* The board's step, and the theorem. *)

\* The oracle's answer onto an idle line completes the request.
LEMMA AnswerCompletes ==
  ASSUME Ulx3sTyped, Unanswered, UNCHANGED <<u_args, u_got, u_rx>>, u_line' = <<>>, u_held' = <<>>,
         u_args.tx # "clear", NEW v \in OperandValues \cup {None, Ulx3s!STATUS},
         Ulx3s!Answers(Filled(v)), Ulx3s!Oracle(u_args) = Filled(v)
  PROVE  Complete' /\ u_air' \in Seq(UByte) /\ u_answer' \in Seq(UByte) /\ u_harmed' \in BOOLEAN
<1>1. u_air = <<>> /\ u_rx = <<>> /\ u_got = <<>> /\ u_answer = <<>> /\ u_harmed = FALSE
  BY DEF Unanswered, Silent
<1>2. PICK d \in Seq(UByte) :
           /\ Len(d) <= Ulx3sReply + 1 /\ u_air' = d /\ u_answer' = u_answer \o d
           /\ (u_harmed' = u_harmed /\ d = Filled(v)) \/ u_harmed' = TRUE
  BY <1>1, FilledFacts, AnswerGiven
<1>3. u_answer' = d
  BY <1>1, <1>2
<1>4. Traced'
  <2>1. Len(u_got') = 0 /\ Len(u_rx') = 0 /\ Len(d) \in Nat
    BY <1>1, LenEmpty
  <2> QED BY <1>2, <1>3, <2>1 DEF Traced
<1>5. u_harmed' = TRUE \/ u_answer' = Ulx3s!Oracle(u_args)
  BY <1>2, <1>3
<1>6. u_harmed' = TRUE \/ u_harmed' = FALSE
  BY <1>1, <1>2
<1>7. Ulx3s!Oracle(u_args)' = Ulx3s!Oracle(u_args)
  BY DEF Ulx3s!Oracle
<1>8. Complete'
  BY <1>2, <1>3, <1>4, <1>5, <1>7 DEF Complete
<1> QED BY <1>2, <1>3, <1>6, <1>8, Zenon

\* An answer to a request that was left behind fits in one drain.
LEMMA AnswerLeft ==
  ASSUME Ulx3sTyped, u_rx = <<>>, u_air = <<>>, u_rx' = u_rx,
         NEW v \in OperandValues \cup {None, Ulx3s!STATUS}, Ulx3s!Answers(Filled(v))
  PROVE  /\ Len(u_rx') + Len(u_air') <= Ulx3sReply + 1
         /\ u_air' \in Seq(UByte) /\ u_answer' \in Seq(UByte) /\ u_harmed' \in BOOLEAN
<1>1. PICK d \in Seq(UByte) :
           /\ Len(d) <= Ulx3sReply + 1 /\ u_air' = d /\ u_answer' = u_answer \o d
           /\ (u_harmed' = u_harmed /\ d = Filled(v)) \/ u_harmed' = TRUE
  BY FilledFacts, AnswerGiven
<1>2. u_answer' \in Seq(UByte)
  BY <1>1, SeqFacts DEF Ulx3sTyped
<1>3. u_harmed' = u_harmed \/ u_harmed' = TRUE
  BY <1>1
<1>4. u_harmed \in BOOLEAN
  BY DEF Ulx3sTyped
<1>5. u_harmed' \in BOOLEAN
  BY <1>3, <1>4, Zenon
<1>6. Len(u_rx') + Len(u_air') <= Ulx3sReply + 1
  BY <1>1, LenEmpty, Ulx3sConstants
<1> QED BY <1>1, <1>2, <1>5, <1>6

\* The board's step leaves the variables of the process their types.
LEMMA ReceiveTyped ==
  ASSUME Ulx3sTyped, Ulx3s!Receive, u_air' \in Seq(UByte), u_answer' \in Seq(UByte),
         u_harmed' \in BOOLEAN, u_held' \in Seq(UByte), Len(u_held') <= Ulx3sOperands,
         \A i \in 1..Len(u_held') : u_held'[i].pos > 0
  PROVE  Ulx3sTyped'
<1>1. u_line' \in Seq(UByte) /\ UNCHANGED <<u_run, u_args, u_pc, u_sent, u_got, u_exit, u_rx>>
  BY ReceiveStays
<1> QED BY <1>1 DEF Ulx3sTyped, Under

\* An idle core holds no unit.
LEMMA EmptyHeld ==
  <<>> \in Seq(UByte) /\ Len(<<>>) <= Ulx3sOperands /\ \A i \in 1..Len(<<>>) : <<>>[i].pos > 0
  BY LenEmpty, Ulx3sConstants

\* A held unit of a compute request is no single-byte command.
LEMMA OperandsPositive ==
  ASSUME Ulx3sTyped, NEW v, Computing(v) PROVE \A i \in 1..Len(u_held) : u_held[i].pos > 0
<1>1. ASSUME NEW i \in 1..Len(u_held) PROVE u_held[i].pos > 0
  <2>1. u_held[i] = [val |-> v, pos |-> i + 2]
    BY DEF Computing
  <2>2. u_held[i].pos = i + 2 /\ i \in Nat
    BY <2>1, LengthsTyped
  <2> QED BY ONLY <2>2
<1> QED BY <1>1

\* The board takes a unit that was left on the line, and what it makes of it is again
\* what LeftBehind allows.
LEMMA ReceiveLeft ==
  ASSUME Ulx3sTyped, Ulx3s!Receive, LineInShape, u_rx = <<>>, u_air = <<>>
  PROVE  Ulx3sTyped' /\ (LineInShape /\ Len(u_rx) + Len(u_air) <= Ulx3sReply + 1
                           /\ (u_line # <<>> => u_rx = <<>> /\ u_air = <<>>))'
<1>1. u_line # <<>> /\ u_rx' = u_rx
  BY ReceiveStays
<1>2. Len(u_rx) + Len(u_air) <= Ulx3sReply + 1
  BY LenEmpty, Ulx3sConstants
<1>3. CASE u_line = <<Ulx3s!ABORT>>
  <2>1. u_line' = <<>> /\ u_held' = <<>> /\ u_answer' = <<>> /\ u_harmed' = FALSE /\ u_air' = u_air
    BY <1>3, TakesAbort
  <2>2. u_harmed' \in BOOLEAN
    BY <2>1, Zenon
  <2>3. Ulx3sTyped'
    BY <2>1, <2>2, EmptyHeld, SeqFacts, ReceiveTyped
  <2> QED BY <1>1, <1>2, <2>1, <2>3 DEF LineInShape
<1>4. CASE u_line = <<Ulx3s!CLEAR>> /\ u_held = <<>>
  <2>1. u_line' = <<>> /\ UNCHANGED <<u_held, u_air, u_answer, u_harmed>>
    BY <1>4, TakesClear
  <2>2. Ulx3sTyped'
    <3>1. u_air' \in Seq(UByte) /\ u_answer' \in Seq(UByte) /\ u_harmed' \in BOOLEAN
      BY <2>1 DEF Ulx3sTyped
    <3> QED BY <1>4, <2>1, <3>1, EmptyHeld, ReceiveTyped
  <2> QED BY <1>1, <1>2, <2>1, <2>2 DEF LineInShape
<1>5. CASE u_line = <<Ulx3s!STATUS>> /\ u_held = <<>>
  <2>1. u_line' = <<>> /\ u_held' = <<>> /\ Ulx3s!Answers(Filled(Ulx3s!STATUS))
    BY <1>5, TakesStatus
  <2>2. /\ Len(u_rx') + Len(u_air') <= Ulx3sReply + 1
        /\ u_air' \in Seq(UByte) /\ u_answer' \in Seq(UByte) /\ u_harmed' \in BOOLEAN
    BY <1>1, <2>1, AnswerLeft
  <2>3. Ulx3sTyped'
    BY <2>1, <2>2, EmptyHeld, ReceiveTyped
  <2> QED BY <2>1, <2>2, <2>3 DEF LineInShape
<1>6. ASSUME NEW v \in OperandValues, Computing(v)
      PROVE Ulx3sTyped' /\ (LineInShape /\ Len(u_rx) + Len(u_air) <= Ulx3sReply + 1
                              /\ (u_line # <<>> => u_rx = <<>> /\ u_air = <<>>))'
  <2>1. CASE /\ Computing(v)' /\ u_held' \in Seq(UByte) /\ Len(u_held') <= Ulx3sOperands
             /\ UNCHANGED <<u_air, u_answer, u_harmed>>
    <3>1. \A i \in 1..Len(u_held') : u_held'[i].pos > 0
      <4>1. ASSUME NEW i \in 1..Len(u_held') PROVE u_held'[i].pos > 0
        <5>1. u_held'[i] = [val |-> v, pos |-> i + 2]
          BY <2>1 DEF Computing
        <5>2. u_held'[i].pos = i + 2 /\ i \in Nat
          BY <2>1, <5>1, SeqFacts
        <5> QED BY ONLY <5>2
      <4> QED BY <4>1
    <3>2. u_air' \in Seq(UByte) /\ u_answer' \in Seq(UByte) /\ u_harmed' \in BOOLEAN
      BY <2>1 DEF Ulx3sTyped
    <3>3. Ulx3sTyped'
      BY <2>1, <3>1, <3>2, ReceiveTyped
    <3>4. LineInShape'
      BY <2>1 DEF LineInShape
    <3> QED BY <1>1, <1>2, <2>1, <3>3, <3>4
  <2>2. CASE u_line' = <<>> /\ u_held' = <<>> /\ Ulx3s!Answers(Filled(v))
    <3>1. /\ Len(u_rx') + Len(u_air') <= Ulx3sReply + 1
          /\ u_air' \in Seq(UByte) /\ u_answer' \in Seq(UByte) /\ u_harmed' \in BOOLEAN
      BY <1>1, <2>2, AnswerLeft
    <3>2. Ulx3sTyped'
      BY <2>2, <3>1, EmptyHeld, ReceiveTyped
    <3> QED BY <2>2, <3>1, <3>2 DEF LineInShape
  <2> QED BY <1>6, <2>1, <2>2, TakesOperand
<1> QED BY <1>1, <1>3, <1>4, <1>5, <1>6 DEF LineInShape

\* The board takes a unit, whatever main() is doing.
LEMMA Ulx3sReceive ==
  ASSUME Ulx3sInv, Ulx3s!Receive PROVE Ulx3sInv'
<1>1. Ulx3sTyped
  BY DEF Ulx3sInv
<1>2. /\ u_line # <<>>
      /\ UNCHANGED <<u_run, u_args, u_pc, u_sent, u_got, u_exit, u_rx>>
  BY <1>1, ReceiveStays
<1>3. CASE u_pc \in Under \cup {"exited"}
  <2>1. LineInShape /\ u_rx = <<>> /\ u_air = <<>>
    BY <1>2, <1>3 DEF Ulx3sInv, LeftBehind
  <2>2. Ulx3sTyped' /\ (LineInShape /\ Len(u_rx) + Len(u_air) <= Ulx3sReply + 1
                           /\ (u_line # <<>> => u_rx = <<>> /\ u_air = <<>>))'
    BY <1>1, <2>1, ReceiveLeft
  <2>3. LeftBehind'
    BY <2>2 DEF LeftBehind
  <2>4. Concluded'
    BY <1>2 DEF Ulx3sInv, Concluded
  <2>5. u_pc' \notin {"abort", "send", "recv"}
    <3>1. u_pc' = u_pc
      BY <1>2
    <3> QED BY ONLY <1>3, <3>1 DEF Under
  <2>6. Aborting' /\ Submitting' /\ Receiving'
    BY ONLY <2>5 DEF Aborting, Submitting, Receiving
  <2>7. Ulx3sTyped'
    BY <2>2
  <2> QED BY ONLY <2>3, <2>4, <2>6, <2>7 DEF Ulx3sInv
<1>4. CASE u_pc = "abort"
  <2>1. u_sent = 1 /\ u_line = <<Ulx3s!ABORT>> /\ Silent
    BY <1>2, <1>4 DEF Ulx3sInv, Aborting
  <2>2. u_line' = <<>> /\ u_held' = <<>> /\ u_answer' = <<>> /\ u_harmed' = FALSE /\ u_air' = u_air
    BY <1>1, <2>1, TakesAbort
  <2>3. Ulx3sTyped'
    BY <1>1, <2>1, <2>2, ReceiveLeft DEF Silent, LineInShape
  <2>4. Aborting'
    BY <1>2, <2>1, <2>2 DEF Aborting, Silent, Unanswered
  <2>5. u_pc' = "abort"
    BY <1>2, <1>4
  <2>6. LeftBehind' /\ Submitting' /\ Receiving' /\ Concluded'
    BY ONLY <2>5 DEF LeftBehind, Submitting, Receiving, Concluded, Under
  <2> QED BY ONLY <2>3, <2>4, <2>6 DEF Ulx3sInv
<1>5. CASE u_pc = "send"
  <2>1. Submission(u_sent) /\ u_args \in Ulx3s!Args
    BY <1>1, <1>5 DEF Ulx3sInv, Submitting, Ulx3sTyped
  <2>2. LineInShape /\ Unanswered
    <3>1. u_run > 0
      BY <1>1, <1>5 DEF Ulx3sTyped
    <3>2. LineInShape
      BY <1>1, <2>1, <3>1, SubmissionLeft
    <3> QED BY <1>2, <2>1, <3>2 DEF Submission, Complete
  <2>3. Ulx3sTyped'
    BY <1>1, <2>2, ReceiveLeft DEF Unanswered, Silent
  <2>4. CASE u_args.tx = "compute"
    <3>1. u_args.value \in OperandValues
      BY <2>1 DEF Ulx3s!Args
    <3>2. Computing(u_args.value) /\ Len(u_held) + Len(u_line) = u_sent
      BY <1>2, <2>1, <2>4 DEF Submission, Plain, Complete
    <3>3. ASSUME Computing(u_args.value)', Len(u_held') + Len(u_line') = u_sent,
                 UNCHANGED <<u_air, u_answer, u_harmed>>
          PROVE  Submitting'
      <4>1. Unanswered'
        BY <1>2, <2>2, <3>3 DEF Unanswered, Silent
      <4>2. u_sent' = u_sent /\ u_args' = u_args
        BY <1>2
      <4>3. u_args'.tx = "compute"
        BY <2>4, <4>2
      <4>4. Len(u_held') + Len(u_line') = u_sent'
        BY ONLY <3>3, <4>2
      <4>5. Computing(u_args.value)'
        BY <3>3
      <4>6. Submission(u_sent)'
        BY ONLY <4>1, <4>3, <4>4, <4>5 DEF Submission
      <4> QED BY ONLY <4>6 DEF Submitting
    <3>4. ASSUME u_line' = <<>>, u_held' = <<>>, u_sent = Ulx3sOperands + 1,
                 Ulx3s!Answers(Filled(u_args.value))
          PROVE  Submitting'
      <4>1. Ulx3s!Oracle(u_args) = Filled(u_args.value)
        BY <2>4 DEF Ulx3s!Oracle, Filled
      <4>2. Complete'
        BY <1>1, <1>2, <2>2, <2>4, <3>1, <3>4, <4>1, AnswerCompletes
      <4>3. u_got' = <<>>
        BY <1>2, <2>2 DEF Unanswered, Silent
      <4> QED BY <1>2, <2>4, <3>4, <4>2, <4>3 DEF Submitting, Submission
    <3>5. Submitting'
      <4>1. \/ /\ Computing(u_args.value)' /\ Len(u_held') + Len(u_line') = Len(u_held) + Len(u_line)
               /\ UNCHANGED <<u_air, u_answer, u_harmed>>
            \/ /\ u_line' = <<>> /\ u_held' = <<>>
               /\ Len(u_held) + Len(u_line) = Ulx3sOperands + 1
               /\ Ulx3s!Answers(Filled(u_args.value))
        <5>1. PICK v \in OperandValues : v = u_args.value
          BY <3>1
        <5>2. Computing(v)' <=> Computing(u_args.value)'
          BY <1>2, <5>1 DEF Computing
        <5>3. Computing(v)
          BY <3>2, <5>1
        <5>4. \/ /\ Computing(v)' /\ Len(u_held') + Len(u_line') = Len(u_held) + Len(u_line)
                 /\ UNCHANGED <<u_air, u_answer, u_harmed>>
              \/ /\ u_line' = <<>> /\ u_held' = <<>>
                 /\ Len(u_held) + Len(u_line) = Ulx3sOperands + 1
                 /\ Ulx3s!Answers(Filled(v))
          BY <1>1, <5>3, TakesOperand
        <5> QED BY <5>1, <5>2, <5>4
      <4> QED BY <3>2, <3>3, <3>4, <4>1
    <3> QED BY <1>2, <1>5, <2>3, <3>5 DEF Ulx3sInv, LeftBehind, Aborting, Receiving, Concluded, Under
  <2>5. CASE u_args.tx = "status"
    <3>1. u_held = <<>> /\ u_sent = 1 /\ u_line = <<Ulx3s!STATUS>>
      BY <1>2, <2>1, <2>5 DEF Submission, Complete, Ulx3s!Request
    <3>2. u_line' = <<>> /\ u_held' = <<>> /\ Ulx3s!Answers(Filled(Ulx3s!STATUS))
      BY <1>1, <3>1, TakesStatus
    <3>3. Ulx3s!Oracle(u_args) = Filled(Ulx3s!STATUS)
      BY <2>5 DEF Ulx3s!Oracle, Filled
    <3>4. Complete'
      BY <1>1, <1>2, <2>2, <2>5, <3>2, <3>3, AnswerCompletes
    <3>5. u_got' = <<>>
      BY <1>2, <2>2 DEF Unanswered, Silent
    <3>6. Submitting'
      BY <1>2, <2>5, <3>1, <3>4, <3>5 DEF Submitting, Submission
    <3> QED BY <1>2, <1>5, <2>3, <3>6 DEF Ulx3sInv, LeftBehind, Aborting, Receiving, Concluded, Under
  <2>6. CASE u_args.tx = "clear"
    <3>1. u_held = <<>> /\ u_sent = 1 /\ u_line = <<Ulx3s!CLEAR>>
      BY <1>2, <2>1, <2>6 DEF Submission, Complete, Ulx3s!Request
    <3>2. u_line' = <<>> /\ UNCHANGED <<u_held, u_air, u_answer, u_harmed>>
      BY <1>1, <3>1, TakesClear
    <3>3. Unanswered'
      BY <1>2, <2>2, <3>2 DEF Unanswered, Silent
    <3>4. Submitting'
      BY <1>2, <2>6, <3>1, <3>2, <3>3 DEF Submitting, Submission
    <3> QED BY <1>2, <1>5, <2>3, <3>4 DEF Ulx3sInv, LeftBehind, Aborting, Receiving, Concluded, Under
  <2> QED BY <2>1, <2>4, <2>5, <2>6 DEF Ulx3s!Args
<1>6. u_pc # "recv"
  BY <1>2 DEF Ulx3sInv, Receiving, Complete
<1> QED BY <1>1, <1>3, <1>4, <1>5, <1>6 DEF Ulx3sTyped

\* The invariant implies the property the run checks.
LEMMA Ulx3sImplies == Ulx3sInv => VerdictIsTrue
<1> SUFFICES ASSUME Ulx3sInv PROVE VerdictIsTrue
  OBVIOUS
<1>1. u_pc = "exited" /\ u_run > 0 => u_exit.status \in 0..2
  BY DEF Ulx3sInv, Ulx3sTyped
<1>2. \A i \in DOMAIN u_held : u_held[i] # Ulx3s!ABORT
  <2>1. DOMAIN u_held = 1..Len(u_held)
    BY DEF Ulx3sInv, Ulx3sTyped
  <2> QED BY <2>1, UnitFacts DEF Ulx3sInv, Ulx3sTyped
<1>3. Ulx3s!TypeOK
  BY <1>1, <1>2 DEF Ulx3sInv, Ulx3sTyped, Ulx3s!TypeOK
<1>4. Ulx3s!MatchIsTheAnswer /\ Ulx3s!BadBoardIsBad
  BY DEF Ulx3sInv, Concluded, Ulx3s!MatchIsTheAnswer, Ulx3s!BadBoardIsBad
<1> QED BY <1>3, <1>4 DEF VerdictIsTrue, Ulx3s!VerdictIsTrue

\* Both verdicts of ulx3s_uart.py are about this run and this board: a MATCH is the
\* whole of what the board sent since the run's ABORT and none of an earlier run's
\* answer, and main() reports a wrong result only when the board or the link failed in
\* this run. For any operand and reply lengths, values, number of runs and damage, as
\* long as a reply is shorter than the 256 bytes one drain takes.
THEOREM VerdictStaysTrue == Ulx3s!Spec => []VerdictIsTrue
<1>1. ASSUME Ulx3sInv, [Ulx3s!Next]_(Ulx3s!vars) PROVE Ulx3sInv'
  <2>1. CASE Ulx3s!Next
    BY <1>1, <2>1, Ulx3sStart, Ulx3sOpen, Ulx3sDrainOpen, Ulx3sCheckArgs, Ulx3sResync,
       Ulx3sSendBytes, Ulx3sFlush, Ulx3sRecvExact, Ulx3sCompare, Ulx3sFails, Ulx3sFailsOSError,
       Ulx3sReceive, Ulx3sArrive DEF Ulx3s!Next, Ulx3s!Process, Ulx3s!Board
  <2>2. CASE UNCHANGED Ulx3s!vars
    BY <1>1, <2>2, Ulx3sStutter
  <2> QED BY <1>1, <2>1, <2>2
<1> QED BY <1>1, Ulx3sInitInv, Ulx3sImplies, PTL DEF Ulx3s!Spec
=============================================================================
