--------------------------- MODULE DepositOptionsMC ---------------------------
(***************************************************************************)
(* The instances of DepositOptions that TLC checks.  Requests are          *)
(* interchangeable.                                                        *)
(***************************************************************************)
EXTENDS DepositOptions, TLC

RequestSymmetry == Permutations(Requests) \cup Permutations(Users)

=============================================================================
