------------------------------- MODULE MCBoard -------------------------------
(***************************************************************************)
(* A small instance of Board for TLC: one project of one of two users, its *)
(* tasks, and two tags that want one name.                                 *)
(***************************************************************************)
EXTENDS Board, TLC

CONSTANTS u1, name

MCOwnerOf == [p \in Projects |-> u1]
MCProjectOf == [t \in Tasks |-> CHOOSE p \in Projects : TRUE]
MCNameOf == [g \in Tags |-> name]

Symmetry == Permutations(Tasks) \cup Permutations(Tags) \cup Permutations(Reqs)
=============================================================================
