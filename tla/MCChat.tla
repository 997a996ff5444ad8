------------------------------- MODULE MCChat -------------------------------
(***************************************************************************)
(* The instance of Chat for TLC: two sockets, of two users or of one, in   *)
(* one worker process or in two, a third user who gets nothing, and three  *)
(* messages.                                                               *)
(***************************************************************************)
EXTENDS Chat, TLC

Symmetry == Permutations(Users) \cup Permutations(Conns) \cup Permutations(Workers)
=============================================================================
