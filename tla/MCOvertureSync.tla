-------------------------- MODULE MCOvertureSync ---------------------------
(***************************************************************************)
(* The Overture DAG over a few days.                                       *)
(***************************************************************************)
EXTENDS OvertureSync
=============================================================================
