----------------------------- MODULE Retirement -----------------------------
(***************************************************************************)
(* What the endpoint promises about its scalar state, without frames,      *)
(* services or faults: there is at most one offer, an offer continues the  *)
(* committed state (once there is one), and the committed state moves only *)
(* to what is offered, one retirement at a time.                           *)
(***************************************************************************)
EXTENDS Integers

CONSTANT NoOffer

VARIABLES current,  \* the committed scalar state
          valid,    \* a retirement has happened since the last power cycle
          retired,  \* how many
          offer     \* the transition offered for retirement, or NoOffer

ledger == <<current, valid, retired, offer>>

Start == [pc |-> 0, fp |-> 0]

PowerOn ==
    /\ current = Start
    /\ valid = FALSE
    /\ retired = 0
    /\ offer = NoOffer

\* An offer goes from the committed state to anywhere.
Propose ==
    /\ offer = NoOffer
    /\ offer' # NoOffer
    /\ valid => offer'.from = current
    /\ UNCHANGED <<current, valid, retired>>

Withdraw ==
    /\ offer' = NoOffer
    /\ UNCHANGED <<current, valid, retired>>

Commit ==
    /\ offer # NoOffer
    /\ current' = offer.to
    /\ valid' = TRUE
    /\ retired' = retired + 1
    /\ offer' = NoOffer

PowerCycle ==
    /\ current' = Start
    /\ valid' = FALSE
    /\ retired' = 0
    /\ offer' = NoOffer

LedgerNext == Propose \/ Withdraw \/ Commit \/ PowerCycle

LedgerSpec == PowerOn /\ [][LedgerNext]_ledger
=============================================================================
