----------------------------- MODULE MCResolver -----------------------------
(***************************************************************************)
(* Resolver on every chapter with one or no image of its own and up to two *)
(* sections, the first of which may have a section below it, and that one  *)
(* another. Two images and two notebooks, so that sections share an image  *)
(* or mount differently.                                                   *)
(***************************************************************************)
EXTENDS Resolver, TLC

CONSTANTS sedona, minio, book1, book2, init1, init2

MCImages == {sedona, minio}
MCVolumes == {book1, book2}
MCCommands == {init1, init2}

MCDeps == {
    [image |-> sedona, volumes |-> {book1}, postInit |-> {init1}],
    [image |-> sedona, volumes |-> {book2}, postInit |-> {init2}],
    [image |-> minio, volumes |-> {}, postInit |-> {}]}

MCShort == {<<>>} \cup {<<d>> : d \in MCDeps}
MCLong == MCShort \cup {<<d, e>> : d, e \in MCDeps}

MCSubChapters == -1..3

At(path, i, n) == path :> [images |-> i, sections |-> n]

\* What may be at the first section and below it, and at the second.
MCFirst == {At(<<1>>, i, 0) : i \in MCLong}
           \cup {At(<<1>>, i, 1) @@ At(<<1, 1>>, j, 0) : i \in MCShort, j \in MCLong}
           \cup {At(<<1>>, i, 1) @@ At(<<1, 1>>, j, 1) @@ At(<<1, 1, 1>>, k, 0) :
                    i, j, k \in MCShort}
MCSecond == {At(<<2>>, i, 0) : i \in MCShort}

MCChapters == {At(<<>>, i, 0) : i \in MCShort}
              \cup {At(<<>>, i, 1) @@ f : i \in MCShort, f \in MCFirst}
              \cup {At(<<>>, i, 2) @@ f @@ s : i \in MCShort, f \in MCFirst, s \in MCSecond}
=============================================================================
