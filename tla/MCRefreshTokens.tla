---------------------------- MODULE MCRefreshTokens ----------------------------
(***************************************************************************)
(* Small instances of RefreshTokens for TLC.  Users and requests are       *)
(* interchangeable, and so are tokens, so the safety runs use symmetry;    *)
(* the liveness run does not.                                              *)
(***************************************************************************)
EXTENDS RefreshTokens, TLC

Symmetry == Permutations(Users) \cup Permutations(Tokens) \cup Permutations(Reqs)
=============================================================================
