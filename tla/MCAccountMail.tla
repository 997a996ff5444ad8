---------------------------- MODULE MCAccountMail ----------------------------
(***************************************************************************)
(* A small instance of AccountMail for TLC: one request at a time, two     *)
(* accounts, a worker with two children, and two losses.                   *)
(***************************************************************************)
EXTENDS AccountMail
=============================================================================
