------------------------------- MODULE MCEdits -------------------------------
(***************************************************************************)
(* A small instance of Edits for TLC: a NOT NULL title of the project and  *)
(* of the task, the task's nullable assignee, and two values, of which one *)
(* is the id of a user.  A task has two fields then, and two requests may  *)
(* change one each.                                                        *)
(***************************************************************************)
EXTENDS Edits
=============================================================================
