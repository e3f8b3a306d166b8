------------------------------ MODULE SessionsMC ------------------------------
(***************************************************************************)
(* The instances of Sessions that TLC checks.  Requests, sessions and      *)
(* nonces are each interchangeable.                                        *)
(***************************************************************************)
EXTENDS Sessions, TLC

SessionSymmetry ==
  Permutations(Requests) \cup Permutations(SessionIds) \cup Permutations(Nonces)

=============================================================================
