--------------------------- MODULE MCImageBuilder ---------------------------
(***************************************************************************)
(* ImageBuilder on two tagged images, enough for the goroutines to race on *)
(* err, and one name without a tag (prefecthq/3.4.23-python3.11 in         *)
(* image.yaml), which is registered and never built.                       *)
(***************************************************************************)
EXTENDS ImageBuilder

CONSTANTS sedona, minio, prefect

MCImages == {sedona, minio, prefect}
MCTagged == {sedona, minio}
=============================================================================
