--------------------------- MODULE MCProvisioning ---------------------------
(***************************************************************************)
(* Provisioning of one section. The .cfg says which images it has.         *)
(***************************************************************************)
EXTENDS Provisioning

CONSTANTS sedona, minio, prefect, old1
=============================================================================
