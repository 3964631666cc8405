------------------------------ MODULE Resolver ------------------------------
(***************************************************************************)
(* resolver.Service.Resolve (cli/internal/service/resolver/service.go):    *)
(* from the images that a chapter and its sections depend on to the run    *)
(* requests of `sedona provision`.                                         *)
(*                                                                         *)
(* A dependency names an image, the volumes to mount in it and commands. A *)
(* structure has images of its own and sections, which are structures: a   *)
(* chapter is a function that gives the structure at each path, a path     *)
(* being the positions of the sections that lead to it from the chapter.   *)
(* The calls of the recursive resolveImages are one step for each          *)
(* structure, those that have not been made yet are on a stack.            *)
(***************************************************************************)
EXTENDS Integers, Sequences

CONSTANTS Images, Volumes, Commands,
          Chapters,   \* the files chapters/<chapter>.yaml there may be
          SubChapters \* the values of the flag --sub-chapter; 0 when not given

Dependencies == [image : Images, volumes : SUBSET Volumes, postInit : SUBSET Commands]

\* There is a structure at the empty path and at every position of the
\* sections of one that is there, and no other.
IsChapter(c) ==
    /\ <<>> \in DOMAIN c
    /\ \A p \in DOMAIN c :
        /\ p \in Seq(Nat)
        /\ c[p].images \in Seq(Dependencies) /\ c[p].sections \in Nat
        /\ \A n \in 1..c[p].sections : Append(p, n) \in DOMAIN c
        /\ \A n \in DOMAIN p : /\ SubSeq(p, 1, n - 1) \in DOMAIN c
                               /\ p[n] \in 1..c[SubSeq(p, 1, n - 1)].sections

ASSUME ResolverAssumption ==
    /\ \A c \in Chapters : IsChapter(c)
    /\ SubChapters \subseteq Int

VARIABLES chapter,    \* what has been read from chapters/<chapter>.yaml
          subChapter, \* the value of the flag
          phase,      \* "called", "resolving", "panicked" or "answered"
          todo,       \* paths of the structures to resolve, the next one first
          images,     \* the dependencies that resolveImages has collected
          done,       \* how many of them aggregateImages has gone over
          seen,       \* the map of aggregateImages
          requests    \* the run requests, of which only the mounts are kept here

vars == <<chapter, subChapter, phase, todo, images, done, seen, requests>>

TypeOK ==
    /\ IsChapter(chapter) /\ subChapter \in SubChapters
    /\ phase \in {"called", "resolving", "panicked", "answered"}
    /\ todo \in Seq(DOMAIN chapter)
    /\ images \in Seq(Dependencies)
    /\ done \in 0..Len(images)
    /\ seen \in [DOMAIN seen -> Dependencies] /\ DOMAIN seen \subseteq Images
    /\ requests \subseteq [image : Images, volumes : SUBSET Volumes]

Init ==
    /\ chapter \in Chapters
    /\ subChapter \in SubChapters
    /\ phase = "called"
    /\ todo = <<>>
    /\ images = <<>>
    /\ done = 0
    /\ seen = [i \in {} |-> {}]
    /\ requests = {}

\* What was asked for: the chapter, or one of its sections.
Root == IF subChapter = 0 THEN <<>> ELSE <<subChapter>>

\* structure.Sections[SubChapter-1] panics outside of the sections.
Resolve ==
    /\ phase = "called"
    /\ IF Root \in DOMAIN chapter
       THEN phase' = "resolving" /\ todo' = <<Root>>
       ELSE phase' = "panicked" /\ UNCHANGED todo
    /\ UNCHANGED <<chapter, subChapter, images, done, seen, requests>>

\* Mutant: only the sections directly below are visited.
SectionsOfRoot(p) == [n \in 1..(IF p = Root THEN chapter[p].sections ELSE 0) |-> Append(p, n)]

SectionsOf(p) == [n \in 1..chapter[p].sections |-> Append(p, n)]

\* One call: the images of a structure, then those of its sections, in order.
resolveImages ==
    /\ phase = "resolving"
    /\ todo # <<>>
    /\ images' = images \o chapter[Head(todo)].images
    /\ todo' = SectionsOf(Head(todo)) \o Tail(todo)
    /\ UNCHANGED <<chapter, subChapter, phase, done, seen, requests>>

\* Mutant: the entry is replaced by the dependency at hand.
MergeReplaces(current, dep) == [dep EXCEPT !.postInit = @ \cup current.postInit]

\* Mutant: the commands, which no run request takes over, are not merged either.
MergeDrops(current, dep) == [image |-> current.image, volumes |-> current.volumes]

\* What the map `seen` holds of an image that it has met before.
Merge(current, dep) == [current EXCEPT !.postInit = @ \cup dep.postInit]

See(dep) ==
    IF dep.image \in DOMAIN seen
    THEN [seen EXCEPT ![dep.image] = Merge(@, dep)]
    ELSE [i \in DOMAIN seen \cup {dep.image} |-> IF i = dep.image THEN dep ELSE seen[i]]

\* One iteration of the loop over the images.
aggregateImages ==
    /\ phase = "resolving"
    /\ todo = <<>>
    /\ done < Len(images)
    /\ done' = done + 1
    /\ seen' = See(images[done + 1])
    /\ UNCHANGED <<chapter, subChapter, phase, todo, images, requests>>

\* A request takes over the image and the volumes. It has no field for commands:
\* what has been merged of them ends here.
RequestOf(dep) == [image |-> dep.image, volumes |-> dep.volumes]

\* One request for each entry of the map, whose order is no order.
Return ==
    /\ phase = "resolving"
    /\ todo = <<>>
    /\ done = Len(images)
    /\ phase' = "answered"
    /\ requests' = {RequestOf(seen[i]) : i \in DOMAIN seen}
    /\ UNCHANGED <<chapter, subChapter, todo, images, done, seen>>

Next == Resolve \/ resolveImages \/ aggregateImages \/ Return

Spec == Init /\ [][Next]_vars
-----------------------------------------------------------------------------
(* Properties, against definitions that neither recur nor iterate.         *)

\* The structure at p is that at q, or one that it is a section of.
Above(p, q) == Len(p) <= Len(q) /\ \A n \in DOMAIN p : p[n] = q[n]

\* The document comes to p, and to what is below it, before it comes to q.
LeftOf(p, q) ==
    \E n \in DOMAIN p : /\ n \in DOMAIN q /\ p[n] < q[n]
                        /\ \A k \in 1..(n - 1) : p[k] = q[k]

\* The structures asked for, and the dependencies they mention.
Asked == {p \in DOMAIN chapter : Above(Root, p)}
Mentions == UNION {{p} \X DOMAIN chapter[p].images : p \in Asked}
Dep(m) == chapter[m[1]].images[m[2]]

\* The document has m no later than n.
NotAfter(m, n) ==
    \/ m[1] = n[1] /\ m[2] <= n[2]
    \/ m[1] # n[1] /\ Above(m[1], n[1])
    \/ LeftOf(m[1], n[1])

\* Every image of the structures asked for gets one request, and no other
\* image gets one: two requests for one image would publish the same ports.
OneRequestPerImage ==
    phase = "answered" =>
        /\ {r.image : r \in requests} = {Dep(m).image : m \in Mentions}
        /\ \A q, r \in requests : q.image = r.image => q = r

\* What is mounted in an image is what its first mention in the document lists,
\* however deep that is, and never a mix of two or a thing of a structure that
\* was not asked for: the entry of the map is never replaced (service.go:106).
MountsOfFirstMention ==
    phase = "answered" => \A r \in requests : \E m \in Mentions :
        /\ Dep(m).image = r.image /\ Dep(m).volumes = r.volumes
        /\ \A n \in Mentions : Dep(n).image = r.image => NotAfter(m, n)

\* "Selected Sub chapter, if empty full chapter will be provisioned"
\* (cli/internal/adapter/cli/client.go:95): with no sub-chapter every volume of
\* the chapter is mounted.
FullChapterIsComplete ==
    (phase = "answered" /\ subChapter = 0) =>
        \A m \in Mentions : \E r \in requests :
            r.image = Dep(m).image /\ Dep(m).volumes \subseteq r.volumes
=============================================================================
