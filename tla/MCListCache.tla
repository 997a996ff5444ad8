----------------------------- MODULE MCListCache -----------------------------
(***************************************************************************)
(* Small instances of ListCache for TLC: the pages of a project list with  *)
(* batches of one or two keys, and the tag list with its single key.       *)
(***************************************************************************)
EXTENDS ListCache, TLC

Symmetry == Permutations(Keys) \cup Permutations(Writers) \cup Permutations(Readers)
=============================================================================
