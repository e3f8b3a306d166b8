-------------------------- MODULE PaymentRefinement --------------------------
(***************************************************************************)
(* PaymentIntents read as a PaymentLedger: the status column, the executed *)
(* transactions of each intent and the digest in its payment row.          *)
(***************************************************************************)
EXTENDS PaymentIntents, TLC

RequestSymmetry == Permutations(Requests)

StatusOf(i) == IF Exists(i) THEN intents[i].status ELSE "none"

MovedFor(i) == {t \in Txs : t.intent = i /\ Executed(t)}

ReceiptOf(i) ==
  IF PaymentsOf(i) = {}
    THEN None
    ELSE payments[CHOOSE p \in PaymentsOf(i) : TRUE].digest

Ledger == INSTANCE PaymentLedger
  WITH Ids     <- Requests,
       status  <- [i \in Requests |-> StatusOf(i)],
       moved   <- [i \in Requests |-> MovedFor(i)],
       receipt <- [i \in Requests |-> ReceiptOf(i)]

\* When clients await each answer, the store works and no request dies, the
\* handlers implement the ledger: each intent ends once, money moves for it at
\* most once and never after it was cancelled, and the receipt is for that
\* money.
ImplementsLedger == Ledger!Spec

=============================================================================
