---------------------------- MODULE MCAccessTokens ----------------------------
(***************************************************************************)
(* Small instances of AccessTokens for TLC: tokens that live two seconds,  *)
(* a clock of two ticks a second that runs past their expiry.              *)
(***************************************************************************)
EXTENDS AccessTokens, TLC

Symmetry == Permutations(Users) \cup Permutations(Reqs)
=============================================================================
