----------------------------- MODULE MCAccounts -----------------------------
(***************************************************************************)
(* A small instance of Accounts for TLC: two requests, two accounts, and   *)
(* two values, which each column uses for itself.                          *)
(***************************************************************************)
EXTENDS Accounts, TLC

Symmetry == Permutations(Ids) \cup Permutations(Values) \cup Permutations(Reqs)
=============================================================================
