----------------------------- MODULE MCCleanup -----------------------------
(***************************************************************************)
(* Cleanup on three containers an earlier command left in any mix of       *)
(* states: two may run while the third one is created or has exited.       *)
(***************************************************************************)
EXTENDS Cleanup

CONSTANTS c1, c2, c3

MCContainers == {c1, c2, c3}
=============================================================================
