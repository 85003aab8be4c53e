--------------------------- MODULE ServiceHistory ---------------------------
(***************************************************************************)
(* Lsc1Endpoint beside a history of its service exchanges.  An endpoint    *)
(* that is reset starts its service ids again, so the history does too;    *)
(* nothing in the endpoint reads it.                                       *)
(***************************************************************************)
EXTENDS Lsc1Endpoint

VARIABLE closed   \* ids whose exchange is over: answered, discarded or aborted

historyVars == <<vars, closed>>

\* The step ends the exchange that is outstanding.
ExchangeEnds == state = "service_pending" /\ txnVars' # txnVars

HistoryInit == Init /\ closed = {}

HistoryNext ==
    /\ Next
    /\ closed' = IF Reset THEN {}
                 ELSE IF ExchangeEnds THEN closed \cup {staged.service_id}
                 ELSE closed

HistorySpec == HistoryInit /\ [][HistoryNext]_historyVars
-----------------------------------------------------------------------------
\* An answer that comes too late stays refused: until reset, no exchange that is
\* over can be answered again, whichever transaction suspends next and whatever
\* was aborted or discarded in between, so a digest computed for one request is
\* never folded into another (service_seq in _handle_instruction, which an ABORT
\* leaves alone, and the id check of _handle_service_response).
StaleAnswersAreRefused ==
    \A id \in closed, txn_id \in TxnIds : ServiceFault(txn_id, id, TRUE) # "OK"
=============================================================================
