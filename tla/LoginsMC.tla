------------------------------- MODULE LoginsMC -------------------------------
(***************************************************************************)
(* The instances of Logins that TLC checks.  Logins, begins, accounts and  *)
(* addresses are each interchangeable.                                     *)
(***************************************************************************)
EXTENDS Logins, TLC

LoginSymmetry ==
  Permutations(LoginCalls) \cup Permutations(Begins) \cup Permutations(Accounts)

=============================================================================
