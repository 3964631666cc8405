---------------------------- MODULE MCLakehouse ----------------------------
(***************************************************************************)
(* The lakehouse DAG over a few days.                                      *)
(***************************************************************************)
EXTENDS Lakehouse
=============================================================================
