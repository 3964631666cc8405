--------------------------- MODULE ResolverProofs ---------------------------
(***************************************************************************)
(* For chapters of any depth, with any number of sections and images: what *)
(* Resolve answers. The stack of structures that are still to be resolved  *)
(* is in document order, so that what has been collected is, whenever a    *)
(* structure is taken from it, all that the document says before that one. *)
(***************************************************************************)
EXTENDS Resolver, SequenceTheorems, TLAPS

\* The paths, as sequences of positions.
Path == Seq(Nat)

\* A structure above another is above all that is below the other.
LEMMA AboveTransitive ==
  ASSUME NEW p \in Path, NEW q \in Path, NEW r \in Path, Above(p, q), Above(q, r)
  PROVE  Above(p, r)
<1>0. DOMAIN p = 1..Len(p) /\ DOMAIN q = 1..Len(q) /\ Len(p) \in Nat /\ Len(q) \in Nat
  BY DEF Path
<1>1. \A n \in DOMAIN p : n \in DOMAIN q /\ p[n] = q[n]
  BY ONLY <1>0, Above(p, q) DEF Above
<1>2. \A n \in DOMAIN q : q[n] = r[n]
  BY DEF Above
<1>3. Len(p) <= Len(r)
  BY DEF Above, Path
<1> QED BY ONLY <1>1, <1>2, <1>3 DEF Above

\* What is left of a structure, or right of it, is so of all that is below it.
LEMMA LeftBelow ==
  ASSUME NEW p \in Path, NEW q \in Path, NEW r \in Path
  PROVE  /\ LeftOf(p, q) /\ Above(q, r) => LeftOf(p, r)
         /\ LeftOf(p, q) /\ Above(p, r) => LeftOf(r, q)
<1>1. ASSUME LeftOf(p, q), Above(q, r) PROVE LeftOf(p, r)
  <2>1. PICK n \in DOMAIN p : /\ n \in DOMAIN q /\ p[n] < q[n]
                              /\ \A k \in 1..(n - 1) : p[k] = q[k]
    BY <1>1 DEF LeftOf
  <2>2. n \in DOMAIN r /\ p[n] < r[n]
    BY <1>1, <2>1 DEF Above, Path
  <2>3. ASSUME NEW k \in 1..(n - 1) PROVE p[k] = r[k]
    <3>1. k \in DOMAIN q
      BY <2>1 DEF Path
    <3> QED BY <1>1, <2>1, <3>1 DEF Above
  <2> QED BY <2>1, <2>2, <2>3 DEF LeftOf
<1>2. ASSUME LeftOf(p, q), Above(p, r) PROVE LeftOf(r, q)
  <2>1. PICK n \in DOMAIN p : /\ n \in DOMAIN q /\ p[n] < q[n]
                              /\ \A k \in 1..(n - 1) : p[k] = q[k]
    BY <1>2 DEF LeftOf
  <2>2. n \in DOMAIN r /\ r[n] < q[n]
    BY <1>2, <2>1 DEF Above, Path
  <2>3. ASSUME NEW k \in 1..(n - 1) PROVE r[k] = q[k]
    <3>1. k \in DOMAIN p
      BY <2>1 DEF Path
    <3> QED BY <1>2, <2>1, <3>1 DEF Above
  <2> QED BY <2>1, <2>2, <2>3 DEF LeftOf
<1> QED BY <1>1, <1>2

\* A structure is not both left of another and above or below it.
LEMMA LeftIsApart ==
  ASSUME NEW p \in Path, NEW q \in Path, LeftOf(p, q)
  PROVE  ~Above(p, q) /\ ~Above(q, p)
BY DEF Above, LeftOf, Path

\* The sections of a structure: below it, and in order.
LEMMA SectionsBelow ==
  ASSUME NEW p \in Path, NEW n \in Nat
  PROVE  /\ Append(p, n) \in Path
         /\ Above(p, Append(p, n)) /\ ~Above(Append(p, n), p)
         /\ \A m \in Nat : m < n => LeftOf(Append(p, m), Append(p, n))
<1>1. Append(p, n) \in Path /\ Above(p, Append(p, n)) /\ ~Above(Append(p, n), p)
  BY DEF Path, Above
<1>2. ASSUME NEW m \in Nat, m < n PROVE LeftOf(Append(p, m), Append(p, n))
  <2> DEFINE k == Len(p) + 1
  <2>1. k \in DOMAIN Append(p, m) /\ k \in DOMAIN Append(p, n)
    BY DEF Path
  <2>2. Append(p, m)[k] = m /\ Append(p, n)[k] = n
    BY DEF Path
  <2>3. \A j \in 1..(k - 1) : Append(p, m)[j] = Append(p, n)[j]
    BY DEF Path
  <2> QED BY <1>2, <2>1, <2>2, <2>3 DEF LeftOf
<1> QED BY <1>1, <1>2

\* What is below a structure is the structure itself, or is below a section.
LEMMA BelowSections ==
  ASSUME NEW c, IsChapter(c), NEW p \in DOMAIN c, NEW q \in DOMAIN c, Above(p, q), p # q
  PROVE  \E n \in 1..c[p].sections : Above(Append(p, n), q)
<1> DEFINE n == q[Len(p) + 1]
<1>1. p \in Path /\ q \in Path
  BY DEF IsChapter, Path
<1>2. Len(p) < Len(q)
  <2> SUFFICES ASSUME Len(p) = Len(q) PROVE FALSE
    BY <1>1 DEF Above, Path
  <2>1. \A k \in 1..Len(p) : p[k] = q[k]
    <3>1. DOMAIN p = 1..Len(p)
      BY <1>1 DEF Path
    <3> QED BY <3>1 DEF Above
  <2>2. Len(p) = Len(q) /\ p \in Seq(Nat) /\ q \in Seq(Nat)
    BY <1>1 DEF Path
  <2>3. p = q
    BY ONLY <2>1, <2>2, SeqEqual
  <2> QED BY <2>3
<1>3. Len(p) + 1 \in DOMAIN q /\ Len(p) \in Nat
  BY <1>1, <1>2 DEF Path
<1>4. SubSeq(q, 1, Len(p)) = p
  <2> DEFINE s == SubSeq(q, 1, Len(p))
  <2>1. 1 \in 1..(Len(q) + 1) /\ Len(p) \in 0..Len(q)
    BY <1>1, <1>2, LenProperties DEF Path
  <2>2. s \in Seq(Nat) /\ Len(s) = Len(p)
        /\ \A i \in 1..Len(p) : s[i] = q[i]
    BY <1>1, <1>2 DEF Path
  <2>3. \A i \in 1..Len(p) : s[i] = p[i]
    BY <1>1, <2>2 DEF Above, Path
  <2> QED BY <1>1, <2>2, <2>3, SeqEqual DEF Path
<1>5. n \in 1..c[SubSeq(q, 1, (Len(p) + 1) - 1)].sections
  BY <1>3 DEF IsChapter
<1>6. n \in 1..c[p].sections
  <2>1. (Len(p) + 1) - 1 = Len(p)
    BY <1>3
  <2> QED BY <1>4, <1>5, <2>1
<1>7. n \in Nat
  BY <1>1, <1>3 DEF Path
<1>8. Above(Append(p, n), q)
  <2>1. /\ Len(Append(p, n)) = Len(p) + 1 /\ DOMAIN Append(p, n) = 1..(Len(p) + 1)
        /\ Append(p, n)[Len(p) + 1] = n /\ \A k \in 1..Len(p) : Append(p, n)[k] = p[k]
    BY <1>1, <1>7 DEF Path
  <2>2. DOMAIN p = 1..Len(p) /\ Len(p) \in Nat /\ Len(q) \in Nat
    BY <1>1 DEF Path
  <2>3. \A k \in 1..Len(p) : p[k] = q[k]
    BY <2>2 DEF Above
  <2>4. \A k \in 1..(Len(p) + 1) : k \in 1..Len(p) \/ k = Len(p) + 1
    BY ONLY <2>2
  <2>5. n = q[Len(p) + 1] /\ Len(p) + 1 <= Len(q)
    BY <1>2, <2>2
  <2> QED BY ONLY <2>1, <2>3, <2>4, <2>5 DEF Above
<1> QED BY <1>6, <1>8
-----------------------------------------------------------------------------
(* Types.                                                                  *)

\* The sections of a structure are structures of the chapter.
LEMMA SectionsType ==
  ASSUME IsChapter(chapter), NEW p \in DOMAIN chapter
  PROVE  /\ SectionsOf(p) \in Seq(DOMAIN chapter)
         /\ DOMAIN SectionsOf(p) = 1..chapter[p].sections
         /\ Len(SectionsOf(p)) = chapter[p].sections
         /\ \A n \in 1..chapter[p].sections : SectionsOf(p)[n] = Append(p, n)
<1>1. chapter[p].sections \in Nat
  BY DEF IsChapter
<1>2. SectionsOf(p) \in [1..chapter[p].sections -> DOMAIN chapter]
  BY DEF IsChapter, SectionsOf
<1>3. SectionsOf(p) \in Seq(DOMAIN chapter)
  BY <1>1, <1>2
<1>4. Len(SectionsOf(p)) = chapter[p].sections
  BY <1>1, <1>2, <1>3
<1> QED BY <1>2, <1>3, <1>4 DEF SectionsOf

\* An entry of the map is a dependency, merged or not.
LEMMA SeeType ==
  ASSUME TypeOK, NEW dep \in Dependencies
  PROVE  /\ See(dep) \in [DOMAIN See(dep) -> Dependencies]
         /\ DOMAIN See(dep) = DOMAIN seen \cup {dep.image}
         /\ DOMAIN See(dep) \subseteq Images
<1>1. dep.image \in Images
  BY DEF Dependencies
<1>2. CASE dep.image \in DOMAIN seen
  <2>1. seen[dep.image] \in Dependencies
    BY <1>2 DEF TypeOK
  <2>2. Merge(seen[dep.image], dep) \in Dependencies
    BY <2>1 DEF Merge, Dependencies
  <2>3. See(dep) = [seen EXCEPT ![dep.image] = Merge(seen[dep.image], dep)]
    BY <1>2 DEF See
  <2> QED BY <1>1, <1>2, <2>2, <2>3 DEF TypeOK
<1>3. CASE dep.image \notin DOMAIN seen
  BY <1>1, <1>3 DEF See, TypeOK
<1> QED BY <1>2, <1>3

\* Every variable keeps its type, and the chapter and the flag their values.
THEOREM TypeCorrect == Spec => []TypeOK
<1>1. Init => TypeOK
  BY ResolverAssumption DEF Init, TypeOK
<1>2. TypeOK /\ [Next]_vars => TypeOK'
  <2> SUFFICES ASSUME TypeOK, [Next]_vars PROVE TypeOK'
    OBVIOUS
  <2>1. CASE Resolve
    <3>1. todo' \in Seq(DOMAIN chapter)
      <4>1. CASE Root \in DOMAIN chapter
        <5>1. todo' = <<Root>>
          BY <2>1, <4>1 DEF Resolve
        <5> QED BY <4>1, <5>1
      <4>2. CASE Root \notin DOMAIN chapter
        BY <2>1, <4>2 DEF Resolve, TypeOK
      <4> QED BY <4>1, <4>2
    <3> QED BY <2>1, <3>1 DEF Resolve, TypeOK
  <2>2. CASE resolveImages
    <3> DEFINE p == Head(todo)
    <3>1. p \in DOMAIN chapter /\ Tail(todo) \in Seq(DOMAIN chapter)
      BY <2>2 DEF resolveImages, TypeOK
    <3>2. chapter[p].images \in Seq(Dependencies)
      BY <3>1 DEF TypeOK, IsChapter
    <3>3. images \o chapter[p].images \in Seq(Dependencies)
          /\ Len(images \o chapter[p].images) = Len(images) + Len(chapter[p].images)
          /\ Len(images) \in Nat /\ Len(chapter[p].images) \in Nat
      BY <3>2 DEF TypeOK
    <3>4. SectionsOf(p) \o Tail(todo) \in Seq(DOMAIN chapter)
      BY <3>1, SectionsType DEF TypeOK
    <3> QED BY <2>2, <3>3, <3>4 DEF resolveImages, TypeOK
  <2>3. CASE aggregateImages
    <3>1. images[done + 1] \in Dependencies /\ done + 1 \in 0..Len(images)
      BY <2>3 DEF aggregateImages, TypeOK
    <3>2. seen' \in [DOMAIN seen' -> Dependencies] /\ DOMAIN seen' \subseteq Images
      BY <2>3, <3>1, SeeType DEF aggregateImages
    <3> QED BY <2>3, <3>1, <3>2 DEF aggregateImages, TypeOK
  <2>4. CASE Return
    <3>1. \A i \in DOMAIN seen : RequestOf(seen[i]) \in [image : Images, volumes : SUBSET Volumes]
      BY DEF TypeOK, RequestOf, Dependencies
    <3> QED BY <2>4, <3>1 DEF Return, TypeOK
  <2>5. CASE UNCHANGED vars
    BY <2>5 DEF vars, TypeOK
  <2> QED BY <2>1, <2>2, <2>3, <2>4, <2>5 DEF Next
<1> QED BY <1>1, <1>2, PTL DEF Spec
-----------------------------------------------------------------------------
(* What has been collected.                                                *)

\* The structures that a call on the stack will come to.
Pending == {p \in Asked : \E n \in DOMAIN todo : Above(todo[n], p)}

\* No dependency collected before the k-th is on the same image.
IsFirst(k) == \A j \in 1..(k - 1) : images[j].image # images[k].image

\* What has been collected is what the structures mention that are no longer
\* pending; the first on an image is the first of the whole document.
Collected ==
    /\ \A m \in Mentions : m[1] \notin Pending => \E k \in DOMAIN images : images[k] = Dep(m)
    /\ \A k \in DOMAIN images : \E m \in Mentions :
        /\ m[1] \notin Pending /\ Dep(m) = images[k]
        /\ IsFirst(k) => \A n \in Mentions : Dep(n).image = images[k].image => NotAfter(m, n)

\* The stack is in document order, each structure apart from the others.
StackInv ==
    /\ \A m, n \in DOMAIN todo : m < n => LeftOf(todo[m], todo[n])
    /\ \A n \in DOMAIN todo : todo[n] \in Asked
    /\ phase # "resolving" => todo = <<>>
    /\ phase = "called" => images = <<>>
    /\ phase \in {"resolving", "answered"} => Collected

\* The paths of a chapter are sequences of positions.
LEMMA PathsType == TypeOK => /\ DOMAIN chapter \subseteq Path
                             /\ Asked \subseteq DOMAIN chapter
BY DEF TypeOK, IsChapter, Path, Asked

\* What is asked for goes down to the last section.
LEMMA AskedBelow ==
  ASSUME TypeOK, NEW p \in Asked, NEW q \in DOMAIN chapter, Above(p, q)
  PROVE  q \in Asked
<1>1. Above(Root, p) /\ p \in Path /\ q \in Path
  BY PathsType DEF Asked
<1>2. Root \in Path
  <2>1. CASE subChapter = 0
    BY <2>1 DEF Root, Path
  <2>2. CASE subChapter # 0
    <3>1. Len(p) >= 1 /\ p[1] = subChapter
      <4>1. Root = <<subChapter>> /\ Len(Root) = 1 /\ 1 \in DOMAIN Root /\ Root[1] = subChapter
        BY <2>2 DEF Root
      <4> QED BY <1>1, <4>1 DEF Above
    <3>2. subChapter \in Nat
      BY <1>1, <3>1 DEF Path
    <3> QED BY <2>2, <3>2 DEF Root, Path
  <2> QED BY <2>1, <2>2
<1>3. Above(Root, q)
  BY <1>1, <1>2, AboveTransitive
<1> QED BY <1>3 DEF Asked

\* A sequence in the place of the first element of another.
LEMMA Replaced ==
  ASSUME NEW S, NEW a \in Seq(S), NEW b \in Seq(S), b # <<>>, NEW c, c = a \o Tail(b)
  PROVE  /\ \A n \in DOMAIN c :
               \/ n \in 1..Len(a) /\ c[n] = a[n]
               \/ n > Len(a) /\ n - Len(a) + 1 \in DOMAIN b \ {1} /\ c[n] = b[n - Len(a) + 1]
         /\ \A k \in 1..Len(a) : k \in DOMAIN c /\ c[k] = a[k]
         /\ \A k \in DOMAIN b \ {1} :
               Len(a) + k - 1 \in DOMAIN c /\ c[Len(a) + k - 1] = b[k]
<1> DEFINE t == Tail(b)
<1>1. /\ Len(a) \in Nat /\ Len(b) \in Nat \ {0} /\ DOMAIN b = 1..Len(b)
      /\ t \in Seq(S) /\ Len(t) = Len(b) - 1
      /\ \A k \in 1..(Len(b) - 1) : t[k] = b[k + 1]
      /\ c = a \o t
  OBVIOUS
<1> HIDE DEF t
<1>2. /\ c \in Seq(S) /\ Len(c) = Len(a) + Len(t)
      /\ \A n \in 1..(Len(a) + Len(t)) : c[n] = IF n <= Len(a) THEN a[n] ELSE t[n - Len(a)]
  BY ONLY <1>1, a \in Seq(S), ConcatProperties
<1>3. DOMAIN c = 1..(Len(a) + Len(t))
  BY <1>2
<1>4. ASSUME NEW n \in DOMAIN c
      PROVE  \/ n \in 1..Len(a) /\ c[n] = a[n]
             \/ n > Len(a) /\ n - Len(a) + 1 \in DOMAIN b \ {1} /\ c[n] = b[n - Len(a) + 1]
  <2>1. CASE n <= Len(a)
    BY <1>1, <1>2, <1>3, <2>1
  <2>2. CASE n > Len(a)
    <3> DEFINE k == n - Len(a)
    <3>1. n \in 1..(Len(a) + Len(t)) /\ ~(n <= Len(a))
      BY <1>1, <1>3, <2>2
    <3>2. k \in 1..(Len(b) - 1) /\ k + 1 \in 2..Len(b)
      BY ONLY <1>1, <3>1
    <3>3. c[n] = t[k] /\ t[k] = b[k + 1]
      BY ONLY <1>1, <1>2, <3>1, <3>2
    <3>4. k + 1 \in DOMAIN b \ {1}
      BY ONLY <1>1, <3>2
    <3> QED BY <2>2, <3>3, <3>4
  <2> QED BY <1>1, <1>3, <2>1, <2>2
<1>5. ASSUME NEW k \in 1..Len(a) PROVE k \in DOMAIN c /\ c[k] = a[k]
  BY <1>1, <1>2, <1>3
<1>6. ASSUME NEW k \in DOMAIN b \ {1}
      PROVE  Len(a) + k - 1 \in DOMAIN c /\ c[Len(a) + k - 1] = b[k]
  <2>1. k \in Nat /\ k - 1 \in 1..(Len(b) - 1) /\ (k - 1) + 1 = k
    BY <1>1
  <2>2. /\ Len(a) + k - 1 \in 1..(Len(a) + Len(t)) /\ ~(Len(a) + k - 1 <= Len(a))
        /\ (Len(a) + k - 1) - Len(a) = k - 1
    BY <1>1, <2>1
  <2>3. c[Len(a) + k - 1] = t[k - 1]
    BY <1>2, <2>2
  <2> QED BY <1>1, <1>3, <2>1, <2>2, <2>3
<1> QED BY <1>4, <1>5, <1>6

\* What is on the stack after a call: the sections of the structure, and what
\* was on it but for the first.
LEMMA StackAfterCall ==
  ASSUME TypeOK, resolveImages
  PROVE  /\ todo[1] \in DOMAIN chapter /\ 1 \in DOMAIN todo /\ DOMAIN todo \subseteq Nat \ {0}
         /\ DOMAIN todo' \subseteq Nat
         /\ chapter[todo[1]].sections \in Nat
         /\ \A n \in DOMAIN todo' :
               \/ n \in 1..chapter[todo[1]].sections /\ todo'[n] = Append(todo[1], n)
               \/ /\ n > chapter[todo[1]].sections
                  /\ n - chapter[todo[1]].sections + 1 \in DOMAIN todo \ {1}
                  /\ todo'[n] = todo[n - chapter[todo[1]].sections + 1]
         /\ \A k \in 1..chapter[todo[1]].sections :
               \E n \in DOMAIN todo' : todo'[n] = Append(todo[1], k)
         /\ \A k \in DOMAIN todo \ {1} : \E n \in DOMAIN todo' : todo'[n] = todo[k]
<1>1. todo \in Seq(DOMAIN chapter) /\ todo # <<>>
  BY DEF TypeOK, resolveImages
<1>2. /\ Head(todo) = todo[1] /\ todo[1] \in DOMAIN chapter
      /\ 1 \in DOMAIN todo /\ DOMAIN todo \subseteq Nat \ {0}
  BY <1>1
<1>3. /\ SectionsOf(todo[1]) \in Seq(DOMAIN chapter)
      /\ Len(SectionsOf(todo[1])) = chapter[todo[1]].sections
      /\ \A k \in 1..chapter[todo[1]].sections : SectionsOf(todo[1])[k] = Append(todo[1], k)
  BY <1>2, SectionsType DEF TypeOK
<1>4. chapter[todo[1]].sections \in Nat
  BY <1>2 DEF TypeOK, IsChapter
<1>5. todo' = SectionsOf(todo[1]) \o Tail(todo)
  BY <1>2 DEF resolveImages
<1> DEFINE a == SectionsOf(todo[1])
           S == DOMAIN chapter
           c == todo'
<1>6. a \in Seq(S) /\ todo \in Seq(S) /\ todo # <<>> /\ c = a \o Tail(todo)
  BY <1>1, <1>3, <1>5
<1> HIDE DEF a, S, c
<1>7. /\ \A n \in DOMAIN c :
            \/ n \in 1..Len(a) /\ c[n] = a[n]
            \/ n > Len(a) /\ n - Len(a) + 1 \in DOMAIN todo \ {1} /\ c[n] = todo[n - Len(a) + 1]
      /\ \A k \in 1..Len(a) : k \in DOMAIN c /\ c[k] = a[k]
      /\ \A k \in DOMAIN todo \ {1} :
            Len(a) + k - 1 \in DOMAIN c /\ c[Len(a) + k - 1] = todo[k]
  BY ONLY <1>6, Replaced
<1>8. /\ \A n \in DOMAIN todo' :
            \/ n \in 1..Len(a) /\ todo'[n] = a[n]
            \/ /\ n > Len(a) /\ n - Len(a) + 1 \in DOMAIN todo \ {1}
               /\ todo'[n] = todo[n - Len(a) + 1]
      /\ \A k \in 1..Len(a) : k \in DOMAIN todo' /\ todo'[k] = a[k]
      /\ \A k \in DOMAIN todo \ {1} :
            Len(a) + k - 1 \in DOMAIN todo' /\ todo'[Len(a) + k - 1] = todo[k]
      /\ Len(a) = chapter[todo[1]].sections
      /\ \A k \in 1..chapter[todo[1]].sections : a[k] = Append(todo[1], k)
  BY <1>3, <1>7 DEF a, c
<1>9. ASSUME NEW k \in 1..chapter[todo[1]].sections
      PROVE  \E n \in DOMAIN todo' : todo'[n] = Append(todo[1], k)
  BY ONLY <1>8, <1>9
<1>10. ASSUME NEW k \in DOMAIN todo \ {1} PROVE \E n \in DOMAIN todo' : todo'[n] = todo[k]
  BY ONLY <1>8, <1>10
<1>11. ASSUME NEW n \in DOMAIN todo'
      PROVE  \/ n \in 1..chapter[todo[1]].sections /\ todo'[n] = Append(todo[1], n)
             \/ /\ n > chapter[todo[1]].sections
                /\ n - chapter[todo[1]].sections + 1 \in DOMAIN todo \ {1}
                /\ todo'[n] = todo[n - chapter[todo[1]].sections + 1]
  BY ONLY <1>8, <1>11
<1>12. DOMAIN todo' \subseteq Nat
  BY <1>1, <1>3, <1>5
<1> QED BY ONLY <1>2, <1>4, <1>9, <1>10, <1>11, <1>12

\* A call takes the structure at hand from the pending ones, and from no other
\* place than the first of them in the document.
LEMMA PendingAfterCall ==
  ASSUME TypeOK, StackInv, resolveImages
  PROVE  /\ Asked' = Asked /\ todo[1] \in Pending /\ Pending' = Pending \ {todo[1]}
         /\ \A q \in Pending : q = todo[1] \/ Above(todo[1], q) \/ LeftOf(todo[1], q)
         /\ \A m, n \in DOMAIN todo' : m < n => LeftOf(todo'[m], todo'[n])
         /\ \A n \in DOMAIN todo' : todo'[n] \in Asked
<1> DEFINE p == todo[1]
           s == chapter[p].sections
<1>1. /\ p \in DOMAIN chapter /\ 1 \in DOMAIN todo /\ DOMAIN todo \subseteq Nat \ {0} /\ s \in Nat
      /\ \A n \in DOMAIN todo' :
            \/ n \in 1..s /\ todo'[n] = Append(p, n)
            \/ n > s /\ n - s + 1 \in DOMAIN todo \ {1} /\ todo'[n] = todo[n - s + 1]
      /\ \A k \in 1..s : \E n \in DOMAIN todo' : todo'[n] = Append(p, k)
      /\ \A k \in DOMAIN todo \ {1} : \E n \in DOMAIN todo' : todo'[n] = todo[k]
  BY StackAfterCall
<1>2. Asked' = Asked
  BY DEF resolveImages, Asked, Root, Above
<1>3. DOMAIN chapter \subseteq Path /\ Asked \subseteq DOMAIN chapter
  BY PathsType
<1>4. \A k \in DOMAIN todo : todo[k] \in Asked
  BY DEF StackInv
<1>5. p \in Asked /\ p \in Path
  BY <1>1, <1>3, <1>4
<1> HIDE DEF p, s
<1>6. ASSUME NEW k \in DOMAIN todo \ {1} PROVE LeftOf(p, todo[k]) /\ todo[k] \in Path
  <2>1. 1 < k
    BY <1>1
  <2> QED BY <1>1, <1>3, <1>4, <2>1 DEF StackInv, p
<1>7. ASSUME NEW k \in 1..s
      PROVE  /\ Append(p, k) \in Asked /\ Append(p, k) \in Path
             /\ Above(p, Append(p, k)) /\ ~Above(Append(p, k), p)
  <2>1. Append(p, k) \in DOMAIN chapter
    BY <1>1 DEF TypeOK, IsChapter, s
  <2>2. k \in Nat
    BY <1>1
  <2>3. Append(p, k) \in Path /\ Above(p, Append(p, k)) /\ ~Above(Append(p, k), p)
    BY <1>5, <2>2, SectionsBelow
  <2> QED BY <1>5, <2>1, <2>3, AskedBelow
<1>8. ASSUME NEW n \in DOMAIN todo' PROVE todo'[n] \in Asked
  BY ONLY <1>1, <1>4, <1>7, <1>8
<1>9. ASSUME NEW m \in DOMAIN todo', NEW n \in DOMAIN todo', m < n, m \in Nat, n \in Nat
      PROVE  LeftOf(todo'[m], todo'[n])
  <2>1. CASE m \in 1..s /\ todo'[m] = Append(p, m) /\ n \in 1..s /\ todo'[n] = Append(p, n)
    <3>1. m \in Nat /\ n \in Nat
      BY <1>1, <2>1
    <3> QED BY <1>5, <1>9, <2>1, <3>1, SectionsBelow
  <2>2. CASE /\ m \in 1..s /\ todo'[m] = Append(p, m)
             /\ n - s + 1 \in DOMAIN todo \ {1} /\ todo'[n] = todo[n - s + 1]
    <3>1. LeftOf(p, todo'[n]) /\ todo'[n] \in Path
      BY <1>6, <2>2
    <3>2. Append(p, m) \in Path /\ Above(p, Append(p, m))
      BY <1>7, <2>2
    <3> QED BY ONLY <1>5, <2>2, <3>1, <3>2, LeftBelow
  <2>3. CASE /\ m > s /\ m - s + 1 \in DOMAIN todo \ {1} /\ todo'[m] = todo[m - s + 1]
             /\ n > s /\ n - s + 1 \in DOMAIN todo \ {1} /\ todo'[n] = todo[n - s + 1]
    <3>1. m \in Nat /\ n \in Nat
      BY <1>9
    <3>2. m - s + 1 < n - s + 1
      BY <1>1, <1>9, <3>1
    <3> QED BY <2>3, <3>2 DEF StackInv
  <2>4. ~(m > s /\ n \in 1..s)
    BY <1>1, <1>9
  <2> QED BY ONLY <1>1, <2>1, <2>2, <2>3, <2>4
<1>10. p \in Pending
  <2>1. Above(p, p)
    BY <1>5 DEF Above, Path
  <2> QED BY <1>1, <1>5, <2>1 DEF Pending, p
<1>11. ASSUME NEW q \in Pending PROVE q = p \/ Above(p, q) \/ LeftOf(p, q)
  <2>1. PICK k \in DOMAIN todo : Above(todo[k], q)
    BY DEF Pending
  <2>2. CASE k = 1
    BY <2>1, <2>2 DEF p
  <2>3. CASE k # 1
    <3>1. LeftOf(p, todo[k]) /\ todo[k] \in Path /\ q \in Path
      BY <1>3, <1>6, <2>3 DEF Pending
    <3> QED BY ONLY <1>5, <2>1, <3>1, LeftBelow
  <2> QED BY <2>2, <2>3
<1>12. ASSUME NEW q \in Asked, NEW n \in DOMAIN todo', Above(todo'[n], q)
       PROVE  q \in Pending /\ q # p
  <2>1. q \in Path
    BY <1>3
  <2>2. CASE n \in 1..s /\ todo'[n] = Append(p, n)
    <3>1. Append(p, n) \in Path /\ Above(p, Append(p, n)) /\ ~Above(Append(p, n), p)
      BY <1>7, <2>2
    <3>2. Above(p, q)
      BY ONLY <1>5, <1>12, <2>1, <2>2, <3>1, AboveTransitive
    <3> QED BY <1>1, <1>12, <2>2, <3>1, <3>2 DEF Pending, p
  <2>3. CASE n - s + 1 \in DOMAIN todo \ {1} /\ todo'[n] = todo[n - s + 1]
    <3>1. LeftOf(p, todo'[n]) /\ todo'[n] \in Path
      BY <1>6, <2>3
    <3>2. q # p
      BY ONLY <1>5, <1>12, <3>1, LeftIsApart
    <3> QED BY <1>12, <2>3, <3>2 DEF Pending
  <2> QED BY ONLY <1>1, <2>2, <2>3
<1>13. ASSUME NEW q \in Pending, q # p
       PROVE  \E n \in DOMAIN todo' : Above(todo'[n], q)
  <2>1. PICK k \in DOMAIN todo : Above(todo[k], q)
    BY DEF Pending
  <2>2. CASE k = 1
    <3>1. q \in DOMAIN chapter /\ Above(p, q) /\ IsChapter(chapter)
      BY <1>3, <2>1, <2>2 DEF Pending, TypeOK, p
    <3>2. PICK i \in 1..chapter[p].sections : Above(Append(p, i), q)
      BY ONLY <1>1, <1>13, <3>1, BelowSections
    <3> QED BY <1>1, <3>2 DEF s
  <2>3. CASE k # 1
    BY <1>1, <2>1, <2>3
  <2> QED BY <2>2, <2>3
<1>14. Pending' = {q \in Asked' : \E n \in DOMAIN todo' : Above(todo'[n], q)}
  BY DEF Pending, Above
<1>15. Pending' = Pending \ {p}
  <2>1. Pending \subseteq Asked
    BY DEF Pending
  <2> QED BY ONLY <1>2, <1>12, <1>13, <1>14, <2>1
<1>16. DOMAIN todo' \subseteq Nat
  BY StackAfterCall
<1> QED BY <1>2, <1>8, <1>9, <1>16, <1>10, <1>11, <1>15 DEF p

\* A mention is the position of a dependency in a structure that is asked for.
LEMMA MentionsType ==
  /\ \A m \in Mentions : m[1] \in Asked /\ m[2] \in DOMAIN chapter[m[1]].images
  /\ \A p \in Asked : \A l \in DOMAIN chapter[p].images :
        <<p, l>> \in Mentions /\ Dep(<<p, l>>) = chapter[p].images[l]
BY DEF Mentions, Dep

\* What a call appends to the dependencies.
LEMMA ImagesAfterCall ==
  ASSUME TypeOK, StackInv, resolveImages
  PROVE  /\ Len(images) \in Nat /\ DOMAIN images = 1..Len(images)
         /\ Len(chapter[todo[1]].images) \in Nat
         /\ DOMAIN chapter[todo[1]].images = 1..Len(chapter[todo[1]].images)
         /\ DOMAIN images' = 1..(Len(images) + Len(chapter[todo[1]].images))
         /\ \A k \in DOMAIN images : images'[k] = images[k]
         /\ \A l \in DOMAIN chapter[todo[1]].images :
               images'[Len(images) + l] = chapter[todo[1]].images[l]
<1> DEFINE a == images
           b == chapter[todo[1]].images
<1>1. todo[1] \in DOMAIN chapter /\ Head(todo) = todo[1]
  BY StackAfterCall DEF TypeOK, resolveImages
<1>2. a \in Seq(Dependencies) /\ b \in Seq(Dependencies) /\ images' = a \o b
  BY <1>1 DEF TypeOK, IsChapter, resolveImages
<1> HIDE DEF a, b
<1>3. /\ Len(a) \in Nat /\ DOMAIN a = 1..Len(a) /\ Len(b) \in Nat /\ DOMAIN b = 1..Len(b)
  BY <1>2
<1>4. /\ a \o b \in Seq(Dependencies) /\ Len(a \o b) = Len(a) + Len(b)
      /\ \A n \in 1..(Len(a) + Len(b)) :
            (a \o b)[n] = IF n <= Len(a) THEN a[n] ELSE b[n - Len(a)]
  BY <1>2, ConcatProperties
<1>5. DOMAIN (a \o b) = 1..(Len(a) + Len(b))
  BY <1>4
<1>6. ASSUME NEW k \in DOMAIN a PROVE (a \o b)[k] = a[k]
  BY <1>3, <1>4
<1>7. ASSUME NEW l \in DOMAIN b PROVE (a \o b)[Len(a) + l] = b[l]
  <2>1. /\ Len(a) + l \in 1..(Len(a) + Len(b)) /\ ~(Len(a) + l <= Len(a))
        /\ (Len(a) + l) - Len(a) = l
    BY <1>3
  <2> QED BY <1>4, <2>1
<1> QED BY <1>2, <1>3, <1>5, <1>6, <1>7 DEF a, b

\* What has been collected after a call.
LEMMA CollectedAfterCall ==
  ASSUME TypeOK, StackInv, resolveImages
  PROVE  Collected'
<1> DEFINE p == todo[1]
           L == Len(images)
           deps == chapter[p].images
<1>1. /\ L \in Nat /\ DOMAIN images = 1..L /\ Len(deps) \in Nat /\ DOMAIN deps = 1..Len(deps)
      /\ DOMAIN images' = 1..(L + Len(deps))
      /\ \A k \in DOMAIN images : images'[k] = images[k]
      /\ \A l \in DOMAIN deps : images'[L + l] = deps[l]
  BY ImagesAfterCall
<1>2. /\ p \in Pending /\ Pending' = Pending \ {p}
      /\ \A q \in Pending : q = p \/ Above(p, q) \/ LeftOf(p, q)
  BY PendingAfterCall
<1>3. p \in Asked
  BY <1>2 DEF Pending
<1>4. Collected
  BY DEF StackInv, resolveImages
<1>5. Mentions' = Mentions /\ \A m \in Mentions : Dep(m)' = Dep(m)
  BY PendingAfterCall DEF Mentions, Dep, resolveImages
<1>6. /\ \A m \in Mentions : m[1] \in Asked /\ m[2] \in DOMAIN chapter[m[1]].images
      /\ \A l \in DOMAIN deps : <<p, l>> \in Mentions /\ Dep(<<p, l>>) = deps[l]
  BY <1>3, MentionsType
<1>7. \A m \in Mentions : m[1] = p => m[2] \in DOMAIN deps /\ Dep(m) = deps[m[2]]
  BY <1>6 DEF Dep
<1> HIDE DEF p, L, deps
<1>8. ASSUME NEW m \in Mentions, m[1] \notin Pending
      PROVE  \E k \in DOMAIN images : images[k] = Dep(m) /\ images'[k] = Dep(m)
  BY <1>1, <1>4, <1>8 DEF Collected
<1>9. ASSUME NEW m \in Mentions, m[1] \notin Pending \ {p}
      PROVE  \E k \in DOMAIN images' : images'[k] = Dep(m)
  <2>1. CASE m[1] = p
    <3>1. m[2] \in DOMAIN deps /\ Dep(m) = deps[m[2]]
      BY <1>7, <2>1
    <3>2. L + m[2] \in DOMAIN images'
      BY <1>1, <3>1
    <3> QED BY <1>1, <3>1, <3>2
  <2>2. CASE m[1] # p
    <3>1. DOMAIN images \subseteq DOMAIN images'
      BY <1>1
    <3> QED BY <1>8, <1>9, <2>2, <3>1
  <2> QED BY <2>1, <2>2
<1>10. ASSUME NEW k \in DOMAIN images
       PROVE  \E m \in Mentions :
                 /\ m[1] \notin Pending \ {p} /\ Dep(m) = images'[k]
                 /\ IsFirst(k)' =>
                      \A n \in Mentions : Dep(n).image = images'[k].image => NotAfter(m, n)
  <2>1. PICK m \in Mentions :
           /\ m[1] \notin Pending /\ Dep(m) = images[k]
           /\ IsFirst(k) => \A n \in Mentions : Dep(n).image = images[k].image => NotAfter(m, n)
    BY <1>4 DEF Collected
  <2>2. \A j \in 1..(k - 1) : j \in DOMAIN images
    BY <1>1
  <2>3. IsFirst(k)' => IsFirst(k)
    BY <1>1, <2>2 DEF IsFirst
  <2> QED BY <1>1, <2>1, <2>3
<1>11. ASSUME NEW l \in DOMAIN deps, NEW k, k = L + l, IsFirst(k)', NEW n \in Mentions,
              Dep(n).image = images'[k].image
       PROVE  NotAfter(<<p, l>>, n)
  <2>1. \A j \in 1..(k - 1) : images'[j].image # images'[k].image
    BY <1>11 DEF IsFirst
  <2>2. n[1] \in Pending
    <3> SUFFICES ASSUME n[1] \notin Pending PROVE FALSE
      OBVIOUS
    <3>1. PICK j \in DOMAIN images : images'[j] = Dep(n)
      BY <1>8
    <3>2. j \in 1..(k - 1)
      BY <1>1, <1>11
    <3> QED BY <1>11, <2>1, <3>1, <3>2
  <2>3. CASE n[1] = p
    <3>1. n[2] \in DOMAIN deps /\ Dep(n) = deps[n[2]]
      BY <1>7, <2>3
    <3>2. images'[L + n[2]] = Dep(n)
      BY <1>1, <3>1
    <3>3. ~(L + n[2] \in 1..(k - 1))
      BY <1>11, <2>1, <3>2
    <3>4. l <= n[2]
      <4>1. k = L + l /\ l \in Nat /\ n[2] \in 1..Len(deps) /\ L \in Nat /\ Len(deps) \in Nat
        BY ONLY <1>1, <1>11, <3>1
      <4> QED BY ONLY <3>3, <4>1
    <3> QED BY <2>3, <3>4 DEF NotAfter
  <2>4. CASE n[1] # p
    BY <1>2, <2>2, <2>4 DEF NotAfter
  <2> QED BY <2>3, <2>4
<1>12. ASSUME NEW k \in DOMAIN images'
       PROVE  \E m \in Mentions :
                 /\ m[1] \notin Pending \ {p} /\ Dep(m) = images'[k]
                 /\ IsFirst(k)' =>
                      \A n \in Mentions : Dep(n).image = images'[k].image => NotAfter(m, n)
  <2>1. CASE k \in DOMAIN images
    BY <1>10, <2>1
  <2>2. CASE k \notin DOMAIN images
    <3>1. k - L \in DOMAIN deps /\ L + (k - L) = k
      BY <1>1, <2>2
    <3>2. PICK l \in DOMAIN deps : L + l = k
      BY <3>1
    <3>3. /\ <<p, l>> \in Mentions /\ <<p, l>>[1] \notin Pending \ {p}
          /\ Dep(<<p, l>>) = images'[k]
      BY <1>1, <1>6, <3>2
    <3>4. IsFirst(k)' =>
             \A n \in Mentions : Dep(n).image = images'[k].image => NotAfter(<<p, l>>, n)
      BY <1>11, <3>2
    <3> QED BY <3>3, <3>4
  <2> QED BY <2>1, <2>2
<1>13. /\ \A m \in Mentions' : m[1] \notin Pending' =>
             \E k \in DOMAIN images' : images'[k] = Dep(m)'
       /\ \A k \in DOMAIN images' : \E m \in Mentions' :
             /\ m[1] \notin Pending' /\ Dep(m)' = images'[k]
             /\ IsFirst(k)' =>
                  \A n \in Mentions' : Dep(n)'.image = images'[k].image => NotAfter(m, n)
  BY ONLY <1>2, <1>5, <1>9, <1>12
<1> QED BY <1>13 DEF Collected, NotAfter, LeftOf, Above

\* A step that leaves the stack and the dependencies alone leaves what has been
\* collected alone.
LEMMA CollectedKept ==
  ASSUME Collected, UNCHANGED <<chapter, subChapter, todo, images>>
  PROVE  Collected'
<1>1. Asked' = Asked
  BY DEF Asked, Root, Above
<1>2. Pending' = Pending
  BY <1>1 DEF Pending, Above
<1>3. Mentions' = Mentions /\ \A m \in Mentions : Dep(m)' = Dep(m)
  BY <1>1 DEF Mentions, Dep
<1>4. images' = images /\ \A k : IsFirst(k)' = IsFirst(k)
  BY DEF IsFirst
<1>5. \A m, n : NotAfter(m, n)' = NotAfter(m, n)
  BY DEF NotAfter, LeftOf, Above
<1> QED BY ONLY <1>2, <1>3, <1>4, <1>5, Collected DEF Collected

\* The stack is in document order in every reachable state, and what has been
\* collected is all that the document says before the first structure on it.
LEMMA StackCorrect == Spec => []StackInv
<1>1. Init => StackInv
  BY DEF Init, StackInv
<1>2. TypeOK /\ StackInv /\ [Next]_vars => StackInv'
  <2> SUFFICES ASSUME TypeOK, StackInv, [Next]_vars PROVE StackInv'
    OBVIOUS
  <2>1. CASE Resolve
    <3>1. images = <<>> /\ images' = <<>> /\ todo = <<>>
      BY <2>1 DEF Resolve, StackInv
    <3>2. Asked' = Asked
      BY <2>1 DEF Resolve, Asked, Root, Above
    <3>3. CASE Root \in DOMAIN chapter
      <4>1. /\ phase' = "resolving" /\ todo' = <<Root>>
            /\ DOMAIN todo' = {1} /\ todo'[1] = Root
        BY <2>1, <3>3 DEF Resolve
      <4>2. Root \in Asked
        <5>1. Root \in Path
          BY <3>3, PathsType
        <5> QED BY <3>3, <5>1 DEF Asked, Above, Path
      <4>3. Pending' = Asked'
        BY <3>2, <4>1 DEF Pending, Asked, Above
      <4>4. Collected'
        <5>1. \A m \in Mentions' : m[1] \in Pending'
          BY <4>3 DEF Mentions
        <5>2. DOMAIN images' = {}
          BY <3>1
        <5> QED BY <5>1, <5>2 DEF Collected
      <4> QED BY <3>2, <4>1, <4>2, <4>4 DEF StackInv
    <3>4. CASE Root \notin DOMAIN chapter
      BY <2>1, <3>1, <3>4 DEF Resolve, StackInv
    <3> QED BY <3>3, <3>4
  <2>2. CASE resolveImages
    <3>1. phase' = "resolving"
      BY <2>2 DEF resolveImages
    <3> QED BY <2>2, <3>1, PendingAfterCall, CollectedAfterCall DEF StackInv
  <2>3. CASE UNCHANGED <<chapter, subChapter, todo, images>>
             /\ phase' = phase
    <3>1. Asked' = Asked
      BY <2>3 DEF Asked, Root, Above
    <3>2. Collected => Collected'
      BY <2>3, CollectedKept
    <3> QED BY <2>3, <3>1, <3>2 DEF StackInv, LeftOf
  <2>4. CASE Return
    <3>1. UNCHANGED <<chapter, subChapter, todo, images>> /\ Collected
          /\ todo = <<>> /\ phase' = "answered"
      BY <2>4 DEF Return, StackInv
    <3>2. Collected'
      BY <3>1, CollectedKept
    <3> QED BY <3>1, <3>2 DEF StackInv
  <2> QED BY <2>1, <2>2, <2>3, <2>4 DEF Next, aggregateImages, vars
<1> QED BY <1>1, <1>2, TypeCorrect, PTL DEF Spec
-----------------------------------------------------------------------------
(* What the map holds.                                                     *)

\* The requests that the map stands for.
RequestsOfSeen == {RequestOf(seen[i]) : i \in DOMAIN seen}

\* The map has an entry for each image that has been gone over, with what the
\* first dependency on it mounts.
SeenInv ==
    /\ todo # <<>> \/ phase = "called" => done = 0
    /\ DOMAIN seen = {images[k].image : k \in 1..done}
    /\ \A i \in DOMAIN seen :
        /\ seen[i].image = i
        /\ \E k \in 1..done : /\ images[k].image = i /\ IsFirst(k)
                              /\ images[k].volumes = seen[i].volumes
    /\ phase = "answered" => done = Len(images) /\ requests = RequestsOfSeen

\* The dependency at hand in the map: an entry of its own, or one that is there
\* and keeps its image and its volumes; the other entries are left alone.
LEMMA SeeEntry ==
  ASSUME TypeOK, NEW dep \in Dependencies
  PROVE  /\ DOMAIN See(dep) = DOMAIN seen \cup {dep.image}
         /\ \A i \in DOMAIN seen : i # dep.image => See(dep)[i] = seen[i]
         /\ dep.image \notin DOMAIN seen => See(dep)[dep.image] = dep
         /\ dep.image \in DOMAIN seen =>
              /\ See(dep)[dep.image].image = seen[dep.image].image
              /\ See(dep)[dep.image].volumes = seen[dep.image].volumes
<1>1. CASE dep.image \in DOMAIN seen
  <2>1. seen[dep.image] \in Dependencies
    BY <1>1 DEF TypeOK
  <2>2. See(dep) = [seen EXCEPT ![dep.image] = Merge(seen[dep.image], dep)]
    BY <1>1 DEF See
  <2>3. See(dep)[dep.image] = Merge(seen[dep.image], dep)
    BY <1>1, <2>2 DEF TypeOK
  <2>4. /\ Merge(seen[dep.image], dep).image = seen[dep.image].image
        /\ Merge(seen[dep.image], dep).volumes = seen[dep.image].volumes
    BY <2>1 DEF Merge, Dependencies
  <2> QED BY <1>1, <2>2, <2>3, <2>4 DEF TypeOK
<1>2. CASE dep.image \notin DOMAIN seen
  BY <1>2 DEF See
<1> QED BY <1>1, <1>2

\* Going over one more dependency keeps the map's account.
LEMMA SeenAfterStep ==
  ASSUME TypeOK, SeenInv, aggregateImages
  PROVE  SeenInv'
<1> DEFINE k == done + 1
           dep == images[done + 1]
<1>1. /\ done \in Nat /\ k \in 1..Len(images) /\ DOMAIN images = 1..Len(images)
      /\ k \notin 1..done /\ 1..k = (1..done) \cup {k} /\ dep \in Dependencies
  BY DEF aggregateImages, TypeOK
<1>2. images' = images /\ done' = k /\ seen' = See(dep) /\ todo' = todo /\ todo = <<>>
      /\ phase' = "resolving"
  BY DEF aggregateImages
<1>3. /\ DOMAIN seen' = DOMAIN seen \cup {dep.image}
      /\ \A i \in DOMAIN seen : i # dep.image => seen'[i] = seen[i]
      /\ dep.image \notin DOMAIN seen => seen'[dep.image] = dep
      /\ dep.image \in DOMAIN seen =>
           /\ seen'[dep.image].image = seen[dep.image].image
           /\ seen'[dep.image].volumes = seen[dep.image].volumes
  BY <1>1, <1>2, SeeEntry
<1>4. images[k] = dep
  OBVIOUS
<1> HIDE DEF k, dep
<1>5. DOMAIN seen' = {images[j].image : j \in 1..k}
  BY <1>1, <1>3, <1>4 DEF SeenInv
<1>6. ASSUME NEW i \in DOMAIN seen'
      PROVE  /\ seen'[i].image = i
             /\ \E n \in 1..k : /\ images[n].image = i /\ IsFirst(n)
                                /\ images[n].volumes = seen'[i].volumes
  <2>1. CASE i \in DOMAIN seen
    <3>1. seen[i].image = i
      BY <2>1 DEF SeenInv
    <3>2. PICK n \in 1..done : /\ images[n].image = i /\ IsFirst(n)
                               /\ images[n].volumes = seen[i].volumes
      BY <2>1 DEF SeenInv
    <3>3. n \in 1..k
      BY <1>1
    <3>4. seen'[i].image = i /\ seen'[i].volumes = seen[i].volumes
      BY <1>3, <2>1, <3>1
    <3> QED BY <3>2, <3>3, <3>4
  <2>2. CASE i \notin DOMAIN seen
    <3>1. i = dep.image /\ seen'[i] = images[k]
      BY <1>3, <1>4, <2>2
    <3>2. \A j \in 1..done : images[j].image # i
      BY <2>2 DEF SeenInv
    <3>3. \A j \in 1..(k - 1) : j \in 1..done
      BY <1>1 DEF k
    <3>4. IsFirst(k)
      BY <1>4, <3>1, <3>2, <3>3 DEF IsFirst
    <3>5. k \in 1..k
      BY <1>1
    <3> QED BY <1>4, <3>1, <3>4, <3>5
  <2> QED BY <2>1, <2>2
<1>7. \A n : IsFirst(n)' = IsFirst(n)
  BY <1>2 DEF IsFirst
<1> QED BY <1>2, <1>5, <1>6, <1>7 DEF SeenInv

\* The map's account holds in every reachable state.
LEMMA SeenCorrect == Spec => []SeenInv
<1>1. Init => SeenInv
  BY DEF Init, SeenInv
<1>2. TypeOK /\ StackInv /\ SeenInv /\ [Next]_vars => SeenInv'
  <2> SUFFICES ASSUME TypeOK, StackInv, SeenInv, [Next]_vars PROVE SeenInv'
    OBVIOUS
  <2>1. CASE Resolve
    <3>1. done = 0 /\ UNCHANGED <<images, done, seen, requests>> /\ phase' # "answered"
      BY <2>1 DEF Resolve, SeenInv
    <3> QED BY <3>1 DEF SeenInv, IsFirst
  <2>2. CASE resolveImages
    <3>1. /\ done = 0 /\ UNCHANGED <<done, seen, requests>>
          /\ phase' # "answered" /\ 1..done = {}
      BY <2>2 DEF resolveImages, SeenInv
    <3>2. DOMAIN seen = {}
      BY <3>1 DEF SeenInv
    <3> QED BY <3>1, <3>2 DEF SeenInv
  <2>3. CASE aggregateImages
    BY <2>3, SeenAfterStep
  <2>4. CASE Return
    <3>1. /\ UNCHANGED <<todo, images, done, seen>> /\ todo = <<>> /\ phase' = "answered"
          /\ done = Len(images) /\ requests' = RequestsOfSeen
      BY <2>4 DEF Return, RequestsOfSeen
    <3>2. \A n : IsFirst(n)' = IsFirst(n)
      BY <3>1 DEF IsFirst
    <3>3. RequestsOfSeen' = RequestsOfSeen
      BY <3>1 DEF RequestsOfSeen, RequestOf
    <3> QED BY <3>1, <3>2, <3>3 DEF SeenInv
  <2>5. CASE UNCHANGED vars
    <3>1. \A n : IsFirst(n)' = IsFirst(n)
      BY <2>5 DEF IsFirst, vars
    <3>2. RequestsOfSeen' = RequestsOfSeen
      BY <2>5 DEF RequestsOfSeen, RequestOf, vars
    <3> QED BY <2>5, <3>1, <3>2 DEF SeenInv, vars
  <2> QED BY <2>1, <2>2, <2>3, <2>4, <2>5 DEF Next
<1> QED BY <1>1, <1>2, TypeCorrect, StackCorrect, PTL DEF Spec
-----------------------------------------------------------------------------
(* The answer.                                                             *)

\* When Resolve returns, the collected dependencies are the mentioned ones, all
\* of them gone over, and the requests are those of the map.
LEMMA Answer ==
  ASSUME TypeOK, StackInv, SeenInv, phase = "answered"
  PROVE  /\ \A m \in Mentions : \E k \in 1..done : images[k] = Dep(m)
         /\ \A k \in 1..done : \E m \in Mentions :
               /\ Dep(m) = images[k]
               /\ IsFirst(k) =>
                     \A n \in Mentions : Dep(n).image = images[k].image => NotAfter(m, n)
         /\ requests = RequestsOfSeen
<1>1. Pending = {}
  BY DEF StackInv, Pending
<1>2. DOMAIN images = 1..done
  BY DEF SeenInv, TypeOK
<1>3. Collected
  BY DEF StackInv
<1> QED BY <1>1, <1>2, <1>3 DEF Collected, SeenInv

\* Every image of the structures asked for gets one request, and no other image
\* gets one.
THEOREM OneRequestCorrect == Spec => []OneRequestPerImage
<1>1. TypeOK /\ StackInv /\ SeenInv => OneRequestPerImage
  <2> SUFFICES ASSUME TypeOK, StackInv, SeenInv, phase = "answered"
               PROVE  /\ {r.image : r \in requests} = {Dep(m).image : m \in Mentions}
                      /\ \A q, r \in requests : q.image = r.image => q = r
    BY DEF OneRequestPerImage
  <2>1. /\ requests = {RequestOf(seen[i]) : i \in DOMAIN seen}
        /\ \A i \in DOMAIN seen : RequestOf(seen[i]).image = i
        /\ DOMAIN seen = {images[k].image : k \in 1..done}
    BY Answer DEF SeenInv, RequestsOfSeen, RequestOf
  <2>2. {r.image : r \in requests} = {images[k].image : k \in 1..done}
    <3>1. ASSUME NEW r \in requests PROVE r.image \in DOMAIN seen
      BY ONLY <2>1, <3>1
    <3>2. ASSUME NEW i \in DOMAIN seen PROVE \E r \in requests : r.image = i
      BY ONLY <2>1, <3>2
    <3>3. {r.image : r \in requests} = DOMAIN seen
      BY ONLY <3>1, <3>2
    <3> QED BY ONLY <2>1, <3>3
  <2>3. {images[k].image : k \in 1..done} = {Dep(m).image : m \in Mentions}
    BY Answer
  <2>4. \A q, r \in requests : q.image = r.image => q = r
    BY ONLY <2>1
  <2> QED BY <2>2, <2>3, <2>4
<1> QED BY <1>1, TypeCorrect, StackCorrect, SeenCorrect, PTL

\* What is mounted in an image is what its first mention in the document lists.
THEOREM MountsCorrect == Spec => []MountsOfFirstMention
<1>1. TypeOK /\ StackInv /\ SeenInv => MountsOfFirstMention
  <2> SUFFICES ASSUME TypeOK, StackInv, SeenInv, phase = "answered", NEW r \in requests
               PROVE  \E m \in Mentions :
                        /\ Dep(m).image = r.image /\ Dep(m).volumes = r.volumes
                        /\ \A n \in Mentions : Dep(n).image = r.image => NotAfter(m, n)
    BY DEF MountsOfFirstMention
  <2>0. /\ requests = {RequestOf(seen[i]) : i \in DOMAIN seen}
        /\ \A i \in DOMAIN seen : RequestOf(seen[i]).image = i
    BY Answer DEF SeenInv, RequestsOfSeen, RequestOf
  <2>1. PICK i \in DOMAIN seen : r = RequestOf(seen[i]) /\ r.image = i
    BY ONLY <2>0, r \in requests
  <2>2. PICK k \in 1..done : /\ images[k].image = i /\ IsFirst(k)
                             /\ images[k].volumes = seen[i].volumes
    BY <2>1 DEF SeenInv
  <2>3. PICK m \in Mentions :
           /\ Dep(m) = images[k]
           /\ \A n \in Mentions : Dep(n).image = images[k].image => NotAfter(m, n)
    BY <2>2, Answer
  <2> QED BY <2>1, <2>2, <2>3 DEF RequestOf
<1> QED BY <1>1, TypeCorrect, StackCorrect, SeenCorrect, PTL
=============================================================================
