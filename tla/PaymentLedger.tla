---------------------------- MODULE PaymentLedger ----------------------------
(***************************************************************************)
(* What the payment API promises to a user, without requests, tables or    *)
(* faults: an intent is opened, then ends once, as submitted, failed or    *)
(* cancelled; at most one transaction ever moves money for it; and a       *)
(* receipt names the transaction that did.                                 *)
(*                                                                         *)
(* A failed intent may still turn out to be paid, since an error from the  *)
(* node does not say that the transaction was not executed.                *)
(***************************************************************************)
CONSTANTS
  Ids,   \* intents
  Txs,   \* transactions
  None   \* no receipt

VARIABLES
  status,  \* intent -> "none", "pending", "submitted", "failed", "cancelled"
  moved,   \* intent -> the transactions that were executed for it
  receipt  \* intent -> the transaction its payment names, or None

vars == <<status, moved, receipt>>

Init ==
  /\ status  = [i \in Ids |-> "none"]
  /\ moved   = [i \in Ids |-> {}]
  /\ receipt = [i \in Ids |-> None]

End(i, from, to) ==
  /\ status[i] = from
  /\ status' = [status EXCEPT ![i] = to]
  /\ UNCHANGED <<moved, receipt>>

Open(i) == End(i, "none", "pending")

\* A payment under way blocks cancellation: it can only be settled or failed.
Cancel(i) == moved[i] = {} /\ End(i, "pending", "cancelled")

Settle(i) == moved[i] # {} /\ End(i, "pending", "submitted")

Fail(i) == End(i, "pending", "failed")

Move(i, t) ==
  /\ status[i] \in {"pending", "failed"}
  /\ moved[i] = {}
  /\ moved' = [moved EXCEPT ![i] = {t}]
  /\ UNCHANGED <<status, receipt>>

Record(i) ==
  /\ status[i] = "submitted"
  /\ receipt[i] = None
  /\ \E t \in moved[i] : receipt' = [receipt EXCEPT ![i] = t]
  /\ UNCHANGED <<status, moved>>

Next ==
  \E i \in Ids :
    \/ Open(i) \/ Cancel(i) \/ Settle(i) \/ Fail(i) \/ Record(i)
    \/ \E t \in Txs : Move(i, t)

Spec == Init /\ [][Next]_vars

=============================================================================
