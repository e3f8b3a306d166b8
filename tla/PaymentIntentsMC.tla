-------------------------- MODULE PaymentIntentsMC --------------------------
(***************************************************************************)
(* The instances of PaymentIntents that TLC checks.  Requests are          *)
(* interchangeable: a request's number means nothing to the code.          *)
(***************************************************************************)
EXTENDS PaymentIntents, TLC

RequestSymmetry == Permutations(Requests)

=============================================================================
