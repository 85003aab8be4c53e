---------------------------- MODULE Lsc1uBringup ----------------------------
(***************************************************************************)
(* The bring-up kit on the LSC-1u pins (silicon_bringup/bringup.py):       *)
(* Driver and run_case over the vector corpus, the receipt it writes, and  *)
(* validate_receipt over a receipt that may have been edited since.        *)
(***************************************************************************)
EXTENDS Lsc1u

CONSTANT Vectors      \* the cases of vectors.json: opcode, operands and answer

VARIABLES case,          \* index of the running case
          phase, todo,   \* where run_case is; bytes not yet sent
          answer, seen,  \* received, retire_done_pulse
          observations, receipt, edited, verdict

driver == <<case, phase, todo, answer, seen>>
record == <<observations, receipt, edited, verdict>>
kitVars == <<vars, driver, record>>

payload(v) ==
    IF v.opcode = SET THEN v.a
    ELSE IF v.opcode = MUL THEN v.a \o v.b
    ELSE [i \in 1..(2 * WordBytes) |-> IF i % 2 = 1 THEN v.a[(i + 1) \div 2] ELSE v.b[i \div 2]]

oracle(v) ==
    IF v.opcode = SET THEN v.a
    ELSE IF v.opcode = XOR THEN [i \in 1..WordBytes |-> Xor(v.a[i], v.b[i])]
    ELSE Bytes(gf128_mul(WordOf(v.a), WordOf(v.b)))

\* run_case refuses a corpus whose answers are not the oracle's.
CorpusAgrees == \A i \in DOMAIN Vectors : Vectors[i].expected = oracle(Vectors[i])

Quiet == [data |-> {}, rx_valid |-> FALSE, tx_ready |-> FALSE, ena |-> TRUE, rst_n |-> TRUE]
pins == ModelPins(TRUE, TRUE)
-----------------------------------------------------------------------------
(* Driver *)

reset ==
    /\ phase = "reset" /\ Edge([Quiet EXCEPT !.rst_n = FALSE])
    /\ todo' = <<Vectors[case].opcode>> \o payload(Vectors[case])
    /\ phase' = "send" /\ answer' = <<>> /\ seen' = FALSE
    /\ UNCHANGED <<case, record>>

send ==
    /\ phase = "send"
    /\ \/ /\ ~pins.rx_ready /\ Edge(Quiet) /\ UNCHANGED <<phase, todo>>
       \/ /\ pins.rx_ready /\ Edge([Quiet EXCEPT !.data = Head(todo), !.rx_valid = TRUE])
          /\ todo' = Tail(todo) /\ phase' = "sent"
    /\ UNCHANGED <<case, answer, seen, record>>

AfterByte == IF todo = <<>> THEN "wait" ELSE "send"

\* send()'s second cycle; then run() looks for a result byte.
Sent ==
    /\ phase = "sent" /\ Edge(Quiet) /\ phase' = "look"
    /\ UNCHANGED <<case, todo, answer, seen, record>>

Look ==
    /\ phase = "look" /\ phase' = IF pins.tx_valid THEN "receive" ELSE AfterByte
    /\ UNCHANGED <<vars, case, todo, answer, seen, record>>

Waiting == command # None /\ ~pins.rx_ready /\ ~pins.tx_valid

Wait ==
    /\ phase = "wait"
    /\ IF Waiting
       THEN Edge(Quiet) /\ UNCHANGED phase
       ELSE phase' = "receive_last" /\ UNCHANGED vars
    /\ UNCHANGED <<case, todo, answer, seen, record>>

\* Mutant: the DONE pulse is looked for one cycle late.
DoneSampleLate == done'
DoneSample == pins.done

receive_all ==
    /\ phase \in {"receive", "receive_last"}
    /\ \/ /\ pins.tx_valid /\ Edge([Quiet EXCEPT !.tx_ready = TRUE])
          /\ answer' = Append(answer, pins.tx_data) /\ UNCHANGED <<phase, seen>>
       \/ /\ ~pins.tx_valid /\ command # None /\ ~pins.rx_ready /\ Edge(Quiet)
          /\ UNCHANGED <<phase, answer, seen>>
       \/ /\ ~pins.tx_valid /\ ~(command # None /\ ~pins.rx_ready) /\ Edge(Quiet)
          /\ seen' = (seen \/ DoneSample)
          /\ phase' = (IF phase = "receive" THEN AfterByte ELSE "observe")
          /\ UNCHANGED answer
    /\ UNCHANGED <<case, todo, record>>

Observe ==
    /\ phase = "observe"
    /\ LET expected == Vectors[case].expected
       IN  observations' = Append(observations,
             [id |-> case, opcode |-> Vectors[case].opcode, received |-> answer,
              expected |-> expected, oracle_match |-> answer = expected,
              retire_done_pulse |-> seen, idle_after_retire |-> pins.rx_ready /\ ~pins.busy])
    /\ case' = case + 1 /\ phase' = IF case = Len(Vectors) THEN "receipt" ELSE "reset"
    /\ UNCHANGED <<vars, todo, answer, seen, receipt, edited, verdict>>
-----------------------------------------------------------------------------
(* receipt, validate_receipt *)

Good(o) == o.oracle_match /\ o.retire_done_pulse /\ o.idle_after_retire
Matched(list) == \A i \in DOMAIN list : list[i].oracle_match
Failures(list) == {list[i].id : i \in {j \in DOMAIN list : ~Good(list[j])}}

WriteReceipt ==
    /\ phase = "receipt" /\ phase' = "written"
    /\ receipt' = [kind |-> "dry-run", real_silicon |-> FALSE, transport |-> "pin-model",
                   vectors |-> [i \in DOMAIN observations |-> observations[i].id],
                   observations |-> observations, matched |-> Matched(observations),
                   passed |-> Failures(observations) = {}, failures |-> Failures(observations)]
    /\ UNCHANGED <<vars, case, todo, answer, seen, observations, edited, verdict>>

Wrong(bytes) == [bytes EXCEPT ![1] = Xor(@, {0})]

\* One field of the stored receipt is changed.
Edits ==
    {[receipt EXCEPT !.kind = k] : k \in {"simulation", "hardware"}}
    \cup {[receipt EXCEPT !.real_silicon = TRUE], [receipt EXCEPT !.matched = ~@],
          [receipt EXCEPT !.passed = ~@], [receipt EXCEPT !.vectors = Tail(@)],
          [receipt EXCEPT !.observations = Tail(@)], [receipt EXCEPT !.failures = @ \cup {1}]}
    \cup UNION {{[receipt EXCEPT !.observations[i].received = Wrong(@)],
                 [receipt EXCEPT !.observations[i].expected = Wrong(@)],
                 [receipt EXCEPT !.observations[i].id = @ + 1],
                 [receipt EXCEPT !.observations[i].opcode = IF @ = XOR THEN MUL ELSE XOR],
                 [receipt EXCEPT !.observations[i].oracle_match = ~@],
                 [receipt EXCEPT !.observations[i].retire_done_pulse = ~@],
                 [receipt EXCEPT !.observations[i].idle_after_retire = ~@]}
                : i \in DOMAIN receipt.observations}

Edit ==
    /\ phase = "written" /\ ~edited /\ receipt' \in Edits /\ edited' = TRUE
    /\ UNCHANGED <<vars, driver, observations, verdict>>

OutcomeFollows(r) == r.passed = (Failures(r.observations) = {}) /\ r.failures = Failures(r.observations)

validate_receipt(r) ==
    /\ r.kind \in {"dry-run", "simulation", "hardware"}
    /\ r.real_silicon = (r.kind = "hardware") /\ r.kind # "hardware"
    /\ r.transport = "pin-model" => r.kind = "dry-run"
    /\ r.vectors = [i \in DOMAIN Vectors |-> i] /\ Len(r.observations) = Len(r.vectors)
    /\ \A i \in DOMAIN r.observations :
         LET o == r.observations[i]
         IN  /\ o.id = i /\ o.opcode = Vectors[i].opcode /\ o.expected = Vectors[i].expected
             /\ o.oracle_match = (o.received = o.expected)
    /\ r.matched = Matched(r.observations) /\ OutcomeFollows(r)

Validate ==
    /\ phase = "written" /\ phase' = "checked" /\ verdict' = validate_receipt(receipt)
    /\ UNCHANGED <<vars, case, todo, answer, seen, observations, receipt, edited>>
-----------------------------------------------------------------------------
KitInit ==
    /\ Init /\ case = 1 /\ phase = "reset" /\ todo = <<>> /\ answer = <<>> /\ seen = FALSE
    /\ observations = <<>> /\ receipt = <<>> /\ edited = FALSE /\ verdict = FALSE

KitNext == \/ reset \/ send \/ Sent \/ Look \/ Wait \/ receive_all \/ Observe
           \/ WriteReceipt \/ Edit \/ Validate

\* One thread runs the kit to its end.
KitSpec == KitInit /\ [][KitNext]_kitVars /\ WF_kitVars(KitNext)
-----------------------------------------------------------------------------
(* Properties *)

\* Every case of the corpus ends with the oracle's bytes, the DONE pulse seen and the
\* core idle: the driver never loses the one-cycle pulse behind its own cycles.
KitPasses == phase = "written" /\ ~edited => receipt.passed

\* The receipt that the kit wrote is accepted, and no change of one of its fields,
\* but for the name of the transport, survives validation.
EditIsRefused == phase = "checked" => verdict = ~edited

\* The RTL and the kit's pin model are the same on the pins, DONE comes with the
\* oracle's answer, the kit passes, and only an unedited receipt of it validates.
BringupIsSound == TypeOK /\ PinsAgree /\ DoneMeansAnswered /\ KitPasses /\ EditIsRefused
=============================================================================
