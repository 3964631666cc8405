------------------------- MODULE MCContainerRunner -------------------------
(***************************************************************************)
(* ContainerRunner on two images: sedona with a health check and the web   *)
(* UI and a terminal, minio without a health check.                        *)
(***************************************************************************)
EXTENDS ContainerRunner

CONSTANTS sedona, minio

MCImages == {sedona, minio}
MCChecked == {sedona}
MCTerminals == {sedona}
MCWebUI == {sedona}
=============================================================================
