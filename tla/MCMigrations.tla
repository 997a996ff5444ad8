---------------------------- MODULE MCMigrations ----------------------------
(***************************************************************************)
(* A small instance of Migrations for TLC: two instances start, are killed *)
(* and started again while two operators roll back: two such events.       *)
(***************************************************************************)
EXTENDS Migrations
=============================================================================
