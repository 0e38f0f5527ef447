-------------------------- MODULE ModuleConfigProofs -------------------------
(***************************************************************************)
(* Theorems about the tools that write a ModuleConfig, for any number of   *)
(* calls, any documents, and any activity of the other writers.  The first *)
(* part is about the merge of settings: paths, what Merged yields, and the *)
(* loop of mergeJSONPatch; the second is about the tools.                  *)
(***************************************************************************)
EXTENDS ModuleConfig, JsonMergePatch, SequenceTheorems, TLAPS

(* The first n keys of a sequence. *)
LEMMA PrefixFacts ==
  ASSUME NEW w \in Seq(Keys), NEW n \in 0..Len(w)
  PROVE  /\ SubSeq(w, 1, n) \in Seq(Keys) /\ Len(SubSeq(w, 1, n)) = n
         /\ \A i \in 1..n : SubSeq(w, 1, n)[i] = w[i]
<1>1. n \in Int /\ 1 \in Int /\ \A i \in 1..n : w[i] \in Keys
  OBVIOUS
<1>2. /\ SubSeq(w, 1, n) \in Seq(Keys)
      /\ Len(SubSeq(w, 1, n)) = IF 1 <= n THEN n - 1 + 1 ELSE 0
      /\ \A i \in 1..(n - 1 + 1) : SubSeq(w, 1, n)[i] = w[1 + i - 1]
  BY <1>1, SubSeqProperties
<1> QED  BY <1>2

(* A sequence is above another when it is a strict prefix of it. *)
LEMMA AbovePointwise ==
  ASSUME NEW v \in Seq(Keys), NEW w \in Seq(Keys)
  PROVE  Above(v, w) <=> Len(v) < Len(w) /\ \A i \in 1..Len(v) : w[i] = v[i]
<1>1. SUFFICES ASSUME Len(v) < Len(w)
               PROVE  SubSeq(w, 1, Len(v)) = v <=> \A i \in 1..Len(v) : w[i] = v[i]
  BY DEF Above
<1> DEFINE s == SubSeq(w, 1, Len(v))
<1>2. s \in Seq(Keys) /\ Len(s) = Len(v) /\ \A i \in 1..Len(v) : s[i] = w[i]
  BY <1>1, PrefixFacts
<1>3. ASSUME \A i \in 1..Len(v) : w[i] = v[i] PROVE s = v
  BY <1>2, <1>3
<1> QED  BY <1>2, <1>3

LEMMA AboveTransitive ==
  ASSUME NEW u \in Seq(Keys), NEW v \in Seq(Keys), NEW w \in Seq(Keys),
         Above(u, v), Above(v, w)
  PROVE  Above(u, w)
  BY AbovePointwise

(* The paths above w are its parent and those above the parent. *)
LEMMA ParentFacts ==
  ASSUME NEW w \in Seq(Keys), w # <<>>
  PROVE  /\ Parent(w) \in Seq(Keys) /\ Len(Parent(w)) = Len(w) - 1
         /\ Above(Parent(w), w)
         /\ \A v \in Seq(Keys) : Above(v, w) => v = Parent(w) \/ Above(v, Parent(w))
<1>1. Len(w) \in Nat /\ Len(w) > 0
  OBVIOUS
<1>2. Parent(w) \in Seq(Keys) /\ Len(Parent(w)) = Len(w) - 1
      /\ \A i \in 1..(Len(w) - 1) : Parent(w)[i] = w[i]
  <2>1. Len(w) - 1 \in 0..Len(w)  BY <1>1
  <2> QED  BY <2>1, PrefixFacts DEF Parent
<1>3. Above(Parent(w), w)
  BY <1>1, <1>2, AbovePointwise
<1>4. ASSUME NEW v \in Seq(Keys), Above(v, w), Len(v) = Len(w) - 1 PROVE v = Parent(w)
  BY <1>4 DEF Above, Parent
<1>5. ASSUME NEW v \in Seq(Keys), Above(v, w), Len(v) # Len(w) - 1
      PROVE  Above(v, Parent(w))
  <2>1. Len(v) < Len(w) /\ \A i \in 1..Len(v) : w[i] = v[i]  BY <1>5, AbovePointwise
  <2>2. Len(v) < Len(Parent(w)) /\ \A i \in 1..Len(v) : Parent(w)[i] = v[i]
    BY <1>2, <1>5, <2>1
  <2> QED  BY <1>2, <2>2, AbovePointwise
<1> QED  BY <1>2, <1>3, <1>4, <1>5

(* The child of v on the way to w. *)
LEMMA ChildExists ==
  ASSUME NEW v \in Paths, NEW w \in Paths, Above(v, w)
  PROVE  \E u \in Paths : Parent(u) = v /\ Above(v, u) /\ (u = w \/ Above(u, w))
<1>1. v \in Seq(Keys) /\ w \in Seq(Keys)  BY PathsAssumption
<1>2. PICK n \in 1..Len(w) : n = Len(v) + 1
  BY <1>1 DEF Above
<1>3. PICK u \in Paths : u = SubSeq(w, 1, n)
  BY PathsAssumption
<1>4. u \in Seq(Keys) /\ Len(u) = n /\ \A i \in 1..n : u[i] = w[i]
  <2>1. n \in 0..Len(w)  BY <1>1
  <2> QED  BY <1>1, <1>3, <2>1, PrefixFacts
<1>5. \A i \in 1..Len(v) : w[i] = v[i]  BY <1>1, AbovePointwise
<1>6. Above(v, u)  BY <1>1, <1>2, <1>4, <1>5, AbovePointwise
<1>7. Parent(u) = v
  <2>1. u # <<>>  BY <1>1, <1>2, <1>4
  <2>2. Parent(u) = v \/ Above(v, Parent(u))  BY <1>1, <1>4, <1>6, <2>1, ParentFacts
  <2>3. Len(Parent(u)) = Len(v)  BY <1>1, <1>2, <1>4, <2>1, ParentFacts
  <2> QED  BY <1>1, <2>2, <2>3 DEF Above
<1>8. CASE n = Len(w)
  BY <1>1, <1>3, <1>6, <1>7, <1>8, SubSeqFull
<1>9. CASE n # Len(w)
  <2>1. Above(u, w)  BY <1>1, <1>2, <1>4, <1>9, AbovePointwise
  <2> QED  BY <1>3, <1>6, <1>7, <2>1
<1> QED  BY <1>8, <1>9

(* A document updated with a patch is a document: what leads to a path of  *)
(* the result is an object, and no null remains.                           *)
LEMMA MergedType ==
  ASSUME NEW d \in Documents, NEW p \in PatchDocuments
  PROVE  Merged(d, p) \in Documents
<1> DEFINE said == {w \in DOMAIN p : p[w] # Null}
           kept == {w \in DOMAIN d : Silent(p, w)}
           m == Merged(d, p)
<1>1. DOMAIN m = said \cup kept /\ \A w \in said \cup kept : m[w] = IF w \in said THEN p[w] ELSE d[w]
  BY DEF Merged
<1>2. /\ DOMAIN d \subseteq Paths /\ \A w \in DOMAIN d : d[w] \in Scalars \cup {Object}
      /\ \A w \in DOMAIN d : \A v \in Paths : Above(v, w) => v \in DOMAIN d /\ d[v] = Object
  BY DEF Documents, Trees
<1>3. /\ DOMAIN p \subseteq Paths /\ \A w \in DOMAIN p : p[w] \in Scalars \cup {Null, Object}
      /\ \A w \in DOMAIN p : \A v \in Paths : Above(v, w) => v \in DOMAIN p /\ p[v] = Object
  BY DEF PatchDocuments, Trees
<1>4. m \in [said \cup kept -> Scalars \cup {Object}] /\ said \cup kept \in SUBSET Paths
  BY <1>1, <1>2, <1>3 DEF Merged
<1>5. ASSUME NEW w \in DOMAIN m, NEW v \in Paths, Above(v, w)
      PROVE  v \in DOMAIN m /\ m[v] = Object
  <2>1. CASE w \in said
    <3>1. v \in DOMAIN p /\ p[v] = Object  BY <1>3, <1>5, <2>1
    <3> QED  BY <1>1, <3>1, MarkersAssumption
  <2>2. CASE w \notin said
    <3>1. w \in DOMAIN d /\ Silent(p, w)  BY <1>1, <2>2
    <3>2. v \in DOMAIN d /\ d[v] = Object  BY <1>2, <1>5, <3>1
    <3>3. CASE v \in DOMAIN p
      <4>1. p[v] = Object  BY <1>5, <3>1, <3>3 DEF Silent
      <4> QED  BY <1>1, <3>3, <4>1, MarkersAssumption
    <3>4. CASE v \notin DOMAIN p
      <4>1. ASSUME NEW u \in DOMAIN p, Above(u, v) PROVE p[u] = Object
        <5>1. Above(u, w)
          BY <1>1, <1>3, <1>4, <1>5, <4>1, AboveTransitive, PathsAssumption
        <5> QED  BY <3>1, <5>1 DEF Silent
      <4>2. v \in kept  BY <3>2, <3>4, <4>1 DEF Silent
      <4> QED  BY <1>1, <3>2, <3>4, <4>2
    <3> QED  BY <3>3, <3>4
  <2> QED  BY <2>1, <2>2
<1> HIDE DEF m
<1>6. m \in UNION {[W -> Scalars \cup {Object}] : W \in SUBSET Paths}
  BY <1>4
<1> QED  BY <1>5, <1>6 DEF Documents, Trees, m

(* Applying a patch again changes nothing. *)
LEMMA MergedIdempotent ==
  ASSUME NEW d, NEW p
  PROVE  Merged(Merged(d, p), p) = Merged(d, p)
<1> DEFINE said == {w \in DOMAIN p : p[w] # Null}
           kept == {w \in DOMAIN d : Silent(p, w)}
<1>1. DOMAIN Merged(d, p) = said \cup kept
  BY DEF Merged
<1>2. {w \in DOMAIN Merged(d, p) : Silent(p, w)} = kept
  BY <1>1 DEF Silent
<1>3. \A w \in kept : w \notin said /\ Merged(d, p)[w] = d[w]
  BY DEF Merged, Silent
<1> QED  BY <1>2, <1>3 DEF Merged

(* Where a patch is silent, the document stays as it is. *)
LEMMA MergedKeeps ==
  ASSUME NEW d, NEW p, NEW w, Silent(p, w)
  PROVE  /\ w \in DOMAIN Merged(d, p) <=> w \in DOMAIN d
         /\ w \in DOMAIN d => Merged(d, p)[w] = d[w]
  BY DEF Merged, Silent


(* The object at path w of a document, and of a patch. *)
Under(d, w) == [x \in {y \in Seq(Keys) : y # <<>> /\ w \o y \in DOMAIN d} |-> d[w \o x]]

(* What a concatenation holds, and that nothing else holds it. *)
LEMMA ConcatFacts ==
  ASSUME NEW w \in Seq(Keys), NEW x \in Seq(Keys), NEW v \in Seq(Keys)
  PROVE  v = w \o x <=>
           /\ Len(v) = Len(w) + Len(x)
           /\ \A i \in 1..Len(w) : v[i] = w[i]
           /\ \A j \in 1..Len(x) : v[Len(w) + j] = x[j]
<1> Len(w) \in Nat /\ Len(x) \in Nat /\ Len(v) \in Nat
  OBVIOUS
<1>1. PICK c \in Seq(Keys) : c = w \o x
  BY ConcatProperties
<1>2. Len(c) = Len(w) + Len(x)  BY <1>1, ConcatProperties
<1>3. \A i \in 1..Len(w) : c[i] = w[i]  BY <1>1, ConcatProperties
<1>4. ASSUME NEW j \in 1..Len(x) PROVE c[Len(w) + j] = x[j]
  <2>1. Len(w) + j \in 1..(Len(w) + Len(x)) /\ Len(w) + j > Len(w) /\ Len(w) + j - Len(w) = j
    OBVIOUS
  <2> QED  BY <1>1, <2>1, ConcatProperties
<1>5. ASSUME Len(v) = Len(c), \A i \in 1..Len(w) : v[i] = w[i],
             \A j \in 1..Len(x) : v[Len(w) + j] = x[j]
      PROVE  v = c
  <2>1. ASSUME NEW i \in 1..Len(v) PROVE v[i] = c[i]
    <3>1. CASE i <= Len(w)
      <4>1. i \in 1..Len(w)  BY <3>1
      <4> QED  BY <1>3, <1>5, <4>1
    <3>2. CASE i > Len(w)
      <4> DEFINE j == i - Len(w)
      <4>1. j \in 1..Len(x) /\ i = Len(w) + j  BY <1>2, <1>5, <3>2
      <4> QED  BY <1>4, <1>5, <4>1
    <3> QED  BY <3>1, <3>2
  <2> QED  BY <1>5, <2>1
<1> QED  BY <1>1, <1>2, <1>3, <1>4, <1>5

(* The paths above w \o x are w, those above w, and those on the way from  *)
(* w to x.                                                                 *)
LEMMA AboveConcat ==
  ASSUME NEW w \in Seq(Keys), NEW x \in Seq(Keys), NEW v \in Seq(Keys)
  PROVE  Above(v, w \o x) <=>
           \/ Above(v, w) \/ (v = w /\ x # <<>>)
           \/ \E y \in Seq(Keys) : y # <<>> /\ v = w \o y /\ Above(y, x)
<1> Len(w) \in Nat /\ Len(x) \in Nat /\ Len(v) \in Nat
  OBVIOUS
<1>1. PICK c \in Seq(Keys) :
        /\ c = w \o x /\ Len(c) = Len(w) + Len(x)
        /\ \A i \in 1..Len(w) : c[i] = w[i]
        /\ \A j \in 1..Len(x) : c[Len(w) + j] = x[j]
  <2>1. PICK c \in Seq(Keys) : c = w \o x  BY ConcatProperties
  <2>2. /\ Len(c) = Len(w) + Len(x)
        /\ \A i \in 1..Len(w) : c[i] = w[i]
        /\ \A j \in 1..Len(x) : c[Len(w) + j] = x[j]
    BY <2>1, ConcatFacts
  <2> QED  BY <2>1, <2>2
<1>2. ASSUME Above(v, w) PROVE Above(v, c)
  <2>1. Len(v) < Len(w) /\ \A i \in 1..Len(v) : w[i] = v[i]  BY <1>2, AbovePointwise
  <2>2. Len(v) < Len(c) /\ \A i \in 1..Len(v) : i \in 1..Len(w)  BY <1>1, <2>1
  <2> QED  BY <1>1, <2>1, <2>2, AbovePointwise
<1>3. ASSUME v = w, x # <<>> PROVE Above(v, c)
  <2>1. Len(x) > 0  BY <1>3
  <2>2. Len(w) < Len(c)  BY <1>1, <2>1
  <2> QED  BY <1>1, <1>3, <2>2, AbovePointwise
<1>4. ASSUME NEW y \in Seq(Keys), v = w \o y, Above(y, x) PROVE Above(v, c)
  <2>1. Len(y) \in Nat /\ Len(y) < Len(x) /\ \A i \in 1..Len(y) : x[i] = y[i]
    BY <1>4, AbovePointwise
  <2>2. /\ Len(v) = Len(w) + Len(y)
        /\ \A i \in 1..Len(w) : v[i] = w[i]
        /\ \A j \in 1..Len(y) : v[Len(w) + j] = y[j]
    BY <1>4, ConcatFacts
  <2>3. ASSUME NEW i \in 1..Len(v) PROVE c[i] = v[i]
    <3>1. CASE i <= Len(w)
      <4>1. i \in 1..Len(w)  BY <3>1
      <4> QED  BY <1>1, <2>2, <4>1
    <3>2. CASE i > Len(w)
      <4> DEFINE j == i - Len(w)
      <4>1. j \in 1..Len(y) /\ i = Len(w) + j  BY <2>2, <3>2
      <4>2. j \in 1..Len(x)  BY <2>1, <4>1
      <4> QED  BY <1>1, <2>1, <2>2, <4>1, <4>2
    <3> QED  BY <3>1, <3>2
  <2>4. Len(v) < Len(c)  BY <1>1, <2>1, <2>2
  <2> QED  BY <1>1, <2>3, <2>4, AbovePointwise
<1>5. ASSUME Above(v, c), ~Above(v, w), v # w
      PROVE  \E y \in Seq(Keys) : y # <<>> /\ v = w \o y /\ Above(y, x)
  <2>1. Len(v) < Len(c) /\ \A i \in 1..Len(v) : c[i] = v[i]
    BY <1>1, <1>5, AbovePointwise
  <2>2. Len(v) > Len(w)
    <3>1. ASSUME Len(v) <= Len(w) PROVE FALSE
      <4>1. \A i \in 1..Len(v) : w[i] = v[i]  BY <1>1, <2>1, <3>1
      <4>2. Len(v) = Len(w)  BY <1>5, <3>1, <4>1, AbovePointwise
      <4> QED  BY <1>5, <4>1, <4>2
    <3> QED  BY <3>1
  <2>3. PICK n \in 1..Len(x) : Len(v) = Len(w) + n /\ n < Len(x)
    <3> DEFINE n == Len(v) - Len(w)
    <3>1. n \in 1..Len(x) /\ Len(v) = Len(w) + n /\ n < Len(x)  BY <1>1, <2>1, <2>2
    <3> QED  BY <3>1
  <2>4. PICK y \in Seq(Keys) : Len(y) = n /\ \A i \in 1..n : y[i] = x[i]
    <3>1. n \in 0..Len(x)  OBVIOUS
    <3> QED  BY <3>1, PrefixFacts
  <2>5. v = w \o y
    <3>1. ASSUME NEW i \in 1..Len(w) PROVE v[i] = w[i]
      <4>1. i \in 1..Len(v)  BY <2>2
      <4> QED  BY <1>1, <2>1, <4>1
    <3>2. ASSUME NEW j \in 1..Len(y) PROVE v[Len(w) + j] = y[j]
      <4>1. Len(w) + j \in 1..Len(v) /\ j \in 1..Len(x)  BY <2>3, <2>4
      <4> QED  BY <1>1, <2>1, <2>4, <4>1
    <3> QED  BY <2>3, <2>4, <3>1, <3>2, ConcatFacts
  <2>6. Above(y, x)  BY <2>3, <2>4, AbovePointwise
  <2>7. y # <<>>  BY <2>3, <2>4
  <2> QED  BY <2>5, <2>6, <2>7
<1>6. Above(v, c) <=> \/ Above(v, w) \/ (v = w /\ x # <<>>)
                      \/ \E y \in Seq(Keys) : y # <<>> /\ v = w \o y /\ Above(y, x)
  <2> DEFINE below == \E y \in Seq(Keys) : y # <<>> /\ v = w \o y /\ Above(y, x)
  <2>1. below => Above(v, c)  BY <1>4
  <2>2. Above(v, c) => Above(v, w) \/ v = w \/ below  BY <1>5
  <2>3. Above(v, c) /\ v = w => x # <<>>
    <3> SUFFICES ASSUME Above(w, c), x = <<>> PROVE FALSE
      OBVIOUS
    <3>1. Len(c) = Len(w)  BY <1>1
    <3> QED  BY <3>1 DEF Above
  <2> HIDE DEF below
  <2>4. Above(v, c) <=> Above(v, w) \/ (v = w /\ x # <<>>) \/ below
    BY <1>2, <1>3, <2>1, <2>2, <2>3
  <2> QED  BY <2>4 DEF below
<1> QED  BY <1>1, <1>6

LEMMA SilentUnder ==
  ASSUME NEW p \in PatchDocuments, NEW w \in DOMAIN p, p[w] = Object,
         NEW x \in Seq(Keys), x # <<>>
  PROVE  Silent(Under(p, w), x) <=> Silent(p, w \o x)
<1>1. /\ DOMAIN p \subseteq Paths /\ Paths \subseteq Seq(Keys) /\ w \in Seq(Keys)
      /\ \A u \in DOMAIN p : \A v \in Paths : Above(v, u) => v \in DOMAIN p /\ p[v] = Object
  BY PathsAssumption DEF PatchDocuments, Trees
<1>2. x \in DOMAIN Under(p, w) <=> w \o x \in DOMAIN p
  BY DEF Under
<1>3. ASSUME Silent(p, w \o x), NEW y \in DOMAIN Under(p, w), Above(y, x)
      PROVE  Under(p, w)[y] = Object
  <2>1. y \in Seq(Keys) /\ y # <<>> /\ w \o y \in DOMAIN p /\ Under(p, w)[y] = p[w \o y]
    BY DEF Under
  <2>2. w \o y \in Seq(Keys)  BY <1>1, <2>1
  <2>3. Above(w \o y, w \o x)  BY <1>1, <1>3, <2>1, <2>2, AboveConcat
  <2> QED  BY <1>3, <2>1, <2>3 DEF Silent
<1>4. ASSUME Silent(Under(p, w), x), NEW v \in DOMAIN p, Above(v, w \o x)
      PROVE  p[v] = Object
  <2>1. v \in Seq(Keys) /\ v \in Paths  BY <1>1
  <2>2. CASE Above(v, w) \/ v = w
    BY <1>1, <2>1, <2>2
  <2>3. CASE \E y \in Seq(Keys) : y # <<>> /\ v = w \o y /\ Above(y, x)
    <3>1. PICK y \in Seq(Keys) : y # <<>> /\ v = w \o y /\ Above(y, x)  BY <2>3
    <3>2. y \in DOMAIN Under(p, w) /\ Under(p, w)[y] = p[v]
      BY <3>1 DEF Under
    <3> QED  BY <1>4, <3>1, <3>2 DEF Silent
  <2> QED  BY <1>1, <1>4, <2>1, <2>2, <2>3, AboveConcat
<1> QED  BY <1>2, <1>3, <1>4 DEF Silent

(* Merged satisfies the recursive equations by which RFC 7396, and         *)
(* mergeJSONPatch, define the result: at each key of a patch a null leaves *)
(* nothing, a scalar stands alone, and an object is merged with the object *)
(* of the document, or with an empty one.                                  *)
THEOREM MergedIsRecursive ==
  ASSUME NEW d \in Documents, NEW p \in PatchDocuments, NEW w \in DOMAIN p
  PROVE  /\ p[w] = Null => w \notin DOMAIN Merged(d, p)
         /\ p[w] # Null => w \in DOMAIN Merged(d, p) /\ Merged(d, p)[w] = p[w]
         /\ p[w] # Object => \A x \in DOMAIN Merged(d, p) : ~Above(w, x)
         /\ p[w] = Object => Under(Merged(d, p), w) = Merged(Under(d, w), Under(p, w))
<1>1. /\ DOMAIN p \subseteq Paths /\ Paths \subseteq Seq(Keys) /\ w \in Seq(Keys)
      /\ \A u \in DOMAIN p : \A v \in Paths : Above(v, u) => v \in DOMAIN p /\ p[v] = Object
  BY PathsAssumption DEF PatchDocuments, Trees
<1>2. /\ p[w] = Null => w \notin DOMAIN Merged(d, p)
      /\ p[w] # Null => w \in DOMAIN Merged(d, p) /\ Merged(d, p)[w] = p[w]
  BY DEF Merged, Silent
<1>3. ASSUME p[w] # Object, NEW x \in DOMAIN Merged(d, p) PROVE ~Above(w, x)
  BY <1>1, <1>3 DEF Merged, Silent
<1>4. ASSUME p[w] = Object
      PROVE  Under(Merged(d, p), w) = Merged(Under(d, w), Under(p, w))
  <2> DEFINE m == Merged(d, p)
             said == {x \in DOMAIN Under(p, w) : Under(p, w)[x] # Null}
             kept == {x \in DOMAIN Under(d, w) : Silent(Under(p, w), x)}
             D == {y \in Seq(Keys) : y # <<>> /\ w \o y \in DOMAIN m}
  <2>1. said = {x \in Seq(Keys) : x # <<>> /\ w \o x \in DOMAIN p /\ p[w \o x] # Null}
    BY DEF Under
  <2>2. kept = {x \in Seq(Keys) : x # <<>> /\ w \o x \in DOMAIN d /\ Silent(p, w \o x)}
    BY <1>4, SilentUnder DEF Under
  <2>3. D = said \cup kept
    BY <2>1, <2>2 DEF Merged
  <2>4. ASSUME NEW x \in D
        PROVE  m[w \o x] = IF x \in said THEN Under(p, w)[x] ELSE Under(d, w)[x]
    <3>1. x \in Seq(Keys) /\ x # <<>> /\ w \o x \in DOMAIN m  OBVIOUS
    <3>2. CASE x \in said
      <4>1. m[w \o x] = p[w \o x]  BY <2>1, <3>1, <3>2 DEF Merged
      <4>2. Under(p, w)[x] = p[w \o x]  BY <2>1, <3>2 DEF Under
      <4> QED  BY <3>2, <4>1, <4>2
    <3>3. CASE x \notin said
      <4>1. m[w \o x] = d[w \o x]  BY <2>1, <3>1, <3>3 DEF Merged
      <4>2. x \in kept  BY <2>3, <3>3
      <4>3. Under(d, w)[x] = d[w \o x]  BY <2>2, <4>2 DEF Under
      <4> QED  BY <3>3, <4>1, <4>3
    <3> QED  BY <3>2, <3>3
  <2>5. Under(m, w) = [x \in D |-> m[w \o x]]  BY DEF Under
  <2>6. Merged(Under(d, w), Under(p, w)) =
          [x \in said \cup kept |-> IF x \in said THEN Under(p, w)[x] ELSE Under(d, w)[x]]
    BY DEF Merged
  <2> HIDE DEF m, said, kept, D
  <2> QED  BY <2>3, <2>4, <2>5, <2>6 DEF m
<1> QED  BY <1>2, <1>3, <1>4
------------------------------------------------------------------------------
(* The part of the patch that has been visited. *)
VisitedPatch == [w \in DOMAIN patch \ pending |-> patch[w]]

(* The innermost call is in an object of the patch that has been visited,  *)
(* and every visit was preceded by those of the objects above.             *)
MergeTypeOK ==
  /\ settings \in Documents /\ patch \in PatchDocuments
  /\ pending \subseteq DOMAIN patch
  /\ at # <<>> => at \in DOMAIN patch \ pending /\ patch[at] = Object
VisitsInOrder ==
  \A w \in DOMAIN patch \ pending : \A v \in Paths : Above(v, w) => v \notin pending

(* What is still to be visited hangs below a key that one of the loops on  *)
(* the stack has left.                                                     *)
WithinReach ==
  \A w \in pending : \E u \in pending :
    /\ u = w \/ Above(u, w)
    /\ Parent(u) = at \/ Above(Parent(u), at)

(* At every moment the target is what RFC 7396 makes of the visited part.  *)
TargetKnown == target = Merged(settings, VisitedPatch)

MergeInv == MergeTypeOK /\ VisitsInOrder /\ WithinReach /\ TargetKnown

LEMMA PatchFacts ==
  ASSUME MergeTypeOK
  PROVE  /\ DOMAIN patch \subseteq Paths /\ Paths \subseteq Seq(Keys)
         /\ at \in Seq(Keys)
         /\ \A w \in DOMAIN patch : \A v \in Paths :
              Above(v, w) => v \in DOMAIN patch /\ patch[v] = Object
<1>1. <<>> \in Seq(Keys)  OBVIOUS
<1> QED  BY <1>1, PathsAssumption DEF MergeTypeOK, PatchDocuments, Trees

LEMMA MergeInitInv == MergeInit => MergeInv
<1> SUFFICES ASSUME MergeInit PROVE MergeInv
  OBVIOUS
<1>1. MergeTypeOK  BY DEF MergeInit, MergeTypeOK
<1>2. VisitsInOrder  BY DEF MergeInit, VisitsInOrder
<1>3. WithinReach
  <2> SUFFICES ASSUME NEW w \in pending
               PROVE  \E u \in pending : (u = w \/ Above(u, w)) /\ Parent(u) = at
    BY DEF WithinReach
  <2>1. w \in Paths /\ w # <<>> /\ w \in Seq(Keys)
    BY <1>1, PatchFacts, PathsAssumption DEF MergeTypeOK
  <2>2. CASE Len(w) = 1
    <3>1. Parent(w) = <<>>  BY <2>1, <2>2, ParentFacts
    <3> QED  BY <3>1 DEF MergeInit
  <2>3. CASE Len(w) # 1
    <3>1. PICK u \in Paths : u = SubSeq(w, 1, 1)
      <4>1. 1 \in 1..Len(w)  BY <2>1
      <4> QED  BY <2>1, <4>1, PathsAssumption
    <3>2. u \in Seq(Keys) /\ Len(u) = 1 /\ u[1] = w[1]
      BY <2>1, <3>1, PrefixFacts
    <3>3. Above(u, w)  BY <2>1, <2>3, <3>2, AbovePointwise
    <3>4. u \in pending
      BY <1>1, <3>3, PatchFacts DEF MergeInit
    <3>5. Parent(u) = <<>>
      <4>1. u # <<>>  BY <3>2
      <4>2. Parent(u) \in Seq(Keys) /\ Len(Parent(u)) = 0  BY <3>2, <4>1, ParentFacts
      <4> QED  BY <4>2
    <3> QED  BY <3>3, <3>4, <3>5 DEF MergeInit
  <2> QED  BY <2>2, <2>3
<1>4. TargetKnown
  <2>1. DOMAIN VisitedPatch = {}  BY DEF MergeInit, VisitedPatch
  <2>2. DOMAIN Merged(settings, VisitedPatch) = DOMAIN settings
        /\ \A w \in DOMAIN settings : Merged(settings, VisitedPatch)[w] = settings[w]
    BY <2>1 DEF Merged, Silent
  <2>3. Merged(settings, VisitedPatch) = [w \in DOMAIN settings |-> settings[w]]
    BY <2>1 DEF Merged, Silent
  <2>4. settings = [w \in DOMAIN settings |-> settings[w]]
    BY DEF MergeInit, Documents, Trees
  <2> QED  BY <2>3, <2>4 DEF TargetKnown, MergeInit
<1> QED  BY <1>1, <1>2, <1>3, <1>4 DEF MergeInv

LEMMA VisitType ==
  ASSUME MergeTypeOK, NEW v \in Paths, Visit(v)
  PROVE  MergeTypeOK'
<1>1. v \in DOMAIN patch /\ v \in pending  BY DEF Visit, Remaining, MergeTypeOK
<1>2. CASE patch[v] = Object
  BY <1>1, <1>2 DEF Visit, MergeTypeOK
<1>3. CASE patch[v] # Object
  BY <1>1, <1>3 DEF Visit, MergeTypeOK
<1> QED  BY <1>2, <1>3

LEMMA VisitOrder ==
  ASSUME MergeTypeOK, VisitsInOrder, NEW v \in Paths, Visit(v)
  PROVE  VisitsInOrder'
<1> SUFFICES ASSUME NEW w \in DOMAIN patch \ pending', NEW x \in Paths, Above(x, w)
             PROVE  x \notin pending'
  BY DEF VisitsInOrder, Visit
<1>1. pending' = pending \ {v} /\ v \in pending /\ Parent(v) = at
  BY DEF Visit, Remaining
<1>2. CASE w # v
  BY <1>1, <1>2 DEF VisitsInOrder
<1>3. CASE w = v
  <2>1. x \in Seq(Keys) /\ v \in Seq(Keys) /\ v # <<>> /\ x # <<>> /\ at \in Seq(Keys)
    BY PatchFacts, PathsAssumption
  <2>2. x = at \/ Above(x, at)  BY <1>1, <1>3, <2>1, ParentFacts
  <2>3. at # <<>>  BY <2>1, <2>2 DEF Above
  <2>4. at \in DOMAIN patch \ pending  BY <2>3 DEF MergeTypeOK
  <2> QED  BY <1>1, <2>2, <2>4 DEF VisitsInOrder
<1> QED  BY <1>2, <1>3

LEMMA VisitReach ==
  ASSUME MergeTypeOK, VisitsInOrder, WithinReach, NEW v \in Paths, Visit(v)
  PROVE  WithinReach'
<1>1. /\ pending' = pending \ {v} /\ v \in pending /\ Parent(v) = at
      /\ at' = IF patch[v] = Object THEN v ELSE at
  BY DEF Visit, Remaining
<1>2. /\ pending \subseteq Paths /\ Paths \subseteq Seq(Keys) /\ at \in Seq(Keys)
      /\ v # <<>>
  BY PatchFacts, PathsAssumption DEF MergeTypeOK
<1>3. Above(at, v)  BY <1>1, <1>2, ParentFacts
<1> SUFFICES ASSUME NEW w \in pending, w # v
             PROVE  \E u \in pending : /\ u # v
                                       /\ u = w \/ Above(u, w)
                                       /\ Parent(u) = at' \/ Above(Parent(u), at')
  BY <1>1 DEF WithinReach
<1>4. PICK u \in pending : /\ u = w \/ Above(u, w)
                           /\ Parent(u) = at \/ Above(Parent(u), at)
  BY DEF WithinReach
<1>5. u \in Paths /\ u # <<>> /\ Parent(u) \in Seq(Keys)
  BY <1>2, ParentFacts, PathsAssumption
<1>6. CASE u # v
  <2>1. Parent(u) = at' \/ Above(Parent(u), at')
    <3>1. CASE patch[v] # Object  BY <1>1, <1>4, <3>1
    <3>2. CASE patch[v] = Object
      <4>1. Above(Parent(u), v)  BY <1>2, <1>3, <1>4, <1>5, AboveTransitive
      <4> QED  BY <1>1, <3>2, <4>1
    <3> QED  BY <3>1, <3>2
  <2> QED  BY <1>4, <1>6, <2>1
<1>7. CASE u = v
  <2>1. Above(v, w)  BY <1>4, <1>7
  <2>2. w \in DOMAIN patch /\ w \in Paths  BY <1>2 DEF MergeTypeOK
  <2>3. patch[v] = Object  BY <2>1, <2>2, PatchFacts
  <2>4. PICK x \in Paths : Parent(x) = v /\ Above(v, x) /\ (x = w \/ Above(x, w))
    BY <2>1, <2>2, ChildExists
  <2>5. x \in DOMAIN patch  BY <2>2, <2>4, PatchFacts
  <2>6. x \in pending  BY <1>1, <2>4, <2>5 DEF VisitsInOrder
  <2>7. x # v  BY <1>2, <2>4 DEF Above
  <2> QED  BY <1>1, <2>3, <2>4, <2>6, <2>7
<1> QED  BY <1>6, <1>7

(* What a visit adds to the visited part of the patch, and how that bears  *)
(* on where the visited part is silent.                                    *)
LEMMA VisitedGrows ==
  ASSUME MergeTypeOK, VisitsInOrder, NEW v \in Paths, Visit(v)
  PROVE  /\ v \notin DOMAIN VisitedPatch
         /\ DOMAIN VisitedPatch' = DOMAIN VisitedPatch \cup {v}
         /\ VisitedPatch'[v] = patch[v]
         /\ \A w \in DOMAIN VisitedPatch : /\ VisitedPatch'[w] = VisitedPatch[w]
                                           /\ ~Above(v, w)
         /\ \A w : Silent(VisitedPatch', w) <=>
              /\ Silent(VisitedPatch, w) /\ w # v
              /\ Above(v, w) => patch[v] = Object
<1>1. /\ pending' = pending \ {v} /\ v \in pending /\ v \in DOMAIN patch /\ patch' = patch
  BY DEF Visit, Remaining, MergeTypeOK
<1>2. DOMAIN VisitedPatch = DOMAIN patch \ pending
      /\ DOMAIN VisitedPatch' = DOMAIN VisitedPatch \cup {v}
  BY <1>1 DEF VisitedPatch
<1>3. VisitedPatch'[v] = patch[v] /\ v \notin DOMAIN VisitedPatch
  BY <1>1, <1>2 DEF VisitedPatch
<1>4. ASSUME NEW w \in DOMAIN VisitedPatch
      PROVE  VisitedPatch'[w] = VisitedPatch[w] /\ ~Above(v, w)
  BY <1>1, <1>2 DEF VisitedPatch, VisitsInOrder
<1>5. ASSUME NEW w
      PROVE  Silent(VisitedPatch', w) <=>
               /\ Silent(VisitedPatch, w) /\ w # v
               /\ Above(v, w) => patch[v] = Object
  BY <1>2, <1>3, <1>4 DEF Silent
<1> QED  BY <1>2, <1>3, <1>4, <1>5

LEMMA VisitTarget ==
  ASSUME MergeTypeOK, VisitsInOrder, TargetKnown, NEW v \in Paths, Visit(v)
  PROVE  TargetKnown'
<1> DEFINE q == VisitedPatch
           said == {w \in DOMAIN q : q[w] # Null}
           kept == {w \in DOMAIN settings : Silent(q, w)}
           saidN == {w \in DOMAIN q' : q'[w] # Null}
           keptN == {w \in DOMAIN settings : Silent(q', w)}
<1>1. target' = Visited(target, v) /\ settings' = settings  BY DEF Visit
<1>2. /\ DOMAIN target = said \cup kept
      /\ \A w \in said \cup kept : target[w] = IF w \in said THEN q[w] ELSE settings[w]
  BY DEF TargetKnown, Merged
<1>3. /\ v \notin said /\ \A w \in said : w \in saidN /\ q'[w] = q[w] /\ w # v /\ ~Above(v, w)
      /\ saidN = IF patch[v] = Null THEN said ELSE said \cup {v}
      /\ q'[v] = patch[v]
  BY VisitedGrows
<1>4. keptN = {w \in kept : w # v /\ (Above(v, w) => patch[v] = Object)}
  BY VisitedGrows
<1>5. Merged(settings, q') = [w \in saidN \cup keptN |-> IF w \in saidN THEN q'[w] ELSE settings[w]]
  BY DEF Merged
<1>6. \A w \in kept : w \notin said  BY DEF Silent
<1> DEFINE Deleted == {w \in said \cup kept : w # v /\ ~Above(v, w)}
<1> HIDE DEF q, said, kept, saidN, keptN
<1>8. Delete(target, v) = [w \in Deleted |-> target[w]]
  BY <1>2 DEF Delete
<1>9. CASE patch[v] = Null
  <2>1. Deleted = saidN \cup keptN  BY <1>3, <1>4, <1>9, MarkersAssumption
  <2>2. \A w \in Deleted : target[w] = IF w \in saidN THEN q'[w] ELSE settings[w]
    BY <1>2, <1>3, <1>9
  <2>3. Visited(target, v) = Delete(target, v)  BY <1>9, MarkersAssumption DEF Visited
  <2>4. Visited(target, v) = Merged(settings, q')  BY <1>5, <1>8, <2>1, <2>2, <2>3
  <2> QED  BY <1>1, <2>4 DEF TargetKnown, q
<1>10. CASE patch[v] = Object
  <2>1. (said \cup kept) \cup {v} = saidN \cup keptN
    BY <1>3, <1>4, <1>10, MarkersAssumption
  <2>2. \A w \in saidN \cup keptN :
          (IF w = v THEN Object ELSE target[w]) = IF w \in saidN THEN q'[w] ELSE settings[w]
    BY <1>2, <1>3, <1>4, <1>10, MarkersAssumption
  <2>3. Visited(target, v) = [w \in (said \cup kept) \cup {v} |-> IF w = v THEN Object ELSE target[w]]
    BY <1>2, <1>10, MarkersAssumption DEF Visited, Assign
  <2>4. Visited(target, v) = Merged(settings, q')  BY <1>5, <2>1, <2>2, <2>3
  <2> QED  BY <1>1, <2>4 DEF TargetKnown, q
<1>11. CASE patch[v] # Null /\ patch[v] # Object
  <2>1. Deleted \cup {v} = saidN \cup keptN  BY <1>3, <1>4, <1>11
  <2>2. \A w \in saidN \cup keptN :
          (IF w = v THEN patch[v] ELSE target[w]) = IF w \in saidN THEN q'[w] ELSE settings[w]
    BY <1>2, <1>3, <1>4, <1>11
  <2>3. Visited(target, v) = [w \in Deleted \cup {v} |-> IF w = v THEN patch[v] ELSE target[w]]
    BY <1>8, <1>11 DEF Visited, Assign
  <2>4. Visited(target, v) = Merged(settings, q')  BY <1>5, <2>1, <2>2, <2>3
  <2> QED  BY <1>1, <2>4 DEF TargetKnown, q
<1> QED  BY <1>9, <1>10, <1>11

LEMMA ReturnInv ==
  ASSUME MergeInv, Return
  PROVE  MergeInv'
<1> USE DEF MergeInv
<1>1. /\ UNCHANGED <<settings, patch, target, pending>>
      /\ at' = Parent(at) /\ at # <<>> /\ Remaining = {}
  BY DEF Return
<1>2. at \in DOMAIN patch \ pending /\ at \in Paths /\ at \in Seq(Keys)
  BY <1>1, PatchFacts DEF MergeTypeOK
<1>3. Parent(at) \in Seq(Keys) /\ Above(Parent(at), at)
  BY <1>1, <1>2, ParentFacts
<1>4. MergeTypeOK'
  <2>1. ASSUME Parent(at) # <<>>
        PROVE  Parent(at) \in DOMAIN patch \ pending /\ patch[Parent(at)] = Object
    <3>1. Parent(at) \in Paths
      <4>1. Len(at) - 1 \in 1..Len(at)
        <5>1. Len(Parent(at)) = Len(at) - 1  BY <1>1, <1>2, ParentFacts
        <5>2. Len(Parent(at)) \in Nat /\ Len(Parent(at)) # 0  BY <1>3, <2>1
        <5>3. Len(at) \in Nat  BY <1>2
        <5> QED  BY <5>1, <5>2, <5>3
      <4> QED  BY <1>2, <4>1, PathsAssumption DEF Parent
    <3> QED  BY <1>2, <1>3, <3>1, PatchFacts DEF VisitsInOrder
  <2> QED  BY <1>1, <2>1 DEF MergeTypeOK
<1>5. VisitsInOrder'  BY <1>1 DEF VisitsInOrder
<1>6. WithinReach'
  <2> SUFFICES ASSUME NEW w \in pending
               PROVE  \E u \in pending :
                        /\ u = w \/ Above(u, w)
                        /\ Parent(u) = Parent(at) \/ Above(Parent(u), Parent(at))
    BY <1>1 DEF WithinReach
  <2>1. PICK u \in pending : /\ u = w \/ Above(u, w)
                             /\ Parent(u) = at \/ Above(Parent(u), at)
    BY DEF WithinReach
  <2>2. Parent(u) # at  BY <1>1, <2>1 DEF Remaining
  <2>3. u \in Seq(Keys) /\ u # <<>>
    BY PatchFacts, PathsAssumption DEF MergeTypeOK
  <2>4. Parent(u) \in Seq(Keys)  BY <2>3, ParentFacts
  <2>5. Parent(u) = Parent(at) \/ Above(Parent(u), Parent(at))
    BY <1>1, <1>2, <2>1, <2>2, <2>4, ParentFacts
  <2> QED  BY <2>1, <2>5
<1>7. TargetKnown'  BY <1>1 DEF TargetKnown, VisitedPatch
<1> QED  BY <1>4, <1>5, <1>6, <1>7

LEMMA MergeInvariance == MergeSpec => []MergeInv
<1>1. ASSUME MergeInv, [MergeNext]_mergeVars PROVE MergeInv'
  <2>1. ASSUME NEW v \in Paths, Visit(v) PROVE MergeInv'
    BY <1>1, <2>1, VisitType, VisitOrder, VisitReach, VisitTarget DEF MergeInv
  <2>2. CASE UNCHANGED mergeVars
    BY <1>1, <2>2 DEF mergeVars, MergeInv, MergeTypeOK, VisitsInOrder, WithinReach,
       TargetKnown, VisitedPatch
  <2> QED  BY <1>1, <2>1, <2>2, ReturnInv DEF MergeNext
<1> QED  BY <1>1, MergeInitInv, PTL DEF MergeSpec

(* MatchesRFC7396: for documents and patches of any depth, and in whatever *)
(* order the loops take the keys, mergeJSONPatch returns the document that *)
(* RFC 7396 asks for.                                                      *)
THEOREM MergeCorrect == MergeSpec => []MatchesRFC7396
<1>1. ASSUME MergeInv, MergeDone PROVE MatchesRFC7396
  <2> USE <1>1 DEF MergeInv, MergeDone
  <2>1. pending = {}
    <3> SUFFICES ASSUME NEW w \in pending PROVE FALSE
      OBVIOUS
    <3>1. PICK u \in pending : Parent(u) = at \/ Above(Parent(u), at)
      BY DEF WithinReach
    <3>2. Parent(u) # at  BY DEF Remaining
    <3>3. Parent(u) \in Seq(Keys)
      BY ParentFacts, PatchFacts, PathsAssumption DEF MergeTypeOK
    <3> QED  BY <3>1, <3>2, <3>3 DEF Above
  <2>2. VisitedPatch = patch
    BY <2>1 DEF VisitedPatch, MergeTypeOK, PatchDocuments, Trees
  <2>3. target = Merged(settings, patch)  BY <2>2 DEF TargetKnown
  <2> QED  BY <2>1, <2>3, MergedType, MergedIdempotent DEF MatchesRFC7396, MergeTypeOK
<1>2. MergeInv => MatchesRFC7396  BY <1>1 DEF MatchesRFC7396
<1> QED  BY <1>2, MergeInvariance, PTL
------------------------------------------------------------------------------
USE DEF Toggles, Patches

InFlight == {"get", "put", "patch"}

(* A call about to PUT holds an object that is not ahead of the server's;  *)
(* while the resourceVersions are equal, it holds the server's object.     *)
SnapshotFaithful ==
  \A c \in Calls : pc[c] = "put" =>
    snap[c].rv <= config.rv /\ (snap[c].rv = config.rv => snap[c] = config)

(* What a toggle will answer is what it read. *)
PreviousFaithful ==
  \A c \in Calls : pc[c] = "put" /\ Kind[c] \in Toggles =>
    (previous[c] <=> snap[c].body.enabled = "true")

(* A call in flight has not written, is of the kind for its place, and has *)
(* something to write.                                                     *)
Placed ==
  \A c \in Calls :
    /\ pc[c] \in {"idle"} \cup InFlight => writes[c] = 0
    /\ pc[c] = "patch" => Kind[c] \in Patches
    /\ pc[c] \in InFlight => ~RejectsEmpty(c)

IInv ==
  /\ TypeOK /\ SnapshotFaithful /\ PreviousFaithful /\ Placed
  /\ PreviousIsReplaced /\ SuccessMeansWritten

LEMMA WantedType ==
  ASSUME NEW c \in Calls, NEW b \in Bodies
  PROVE  Wanted(c, b) \in Bodies
<1>1. b.settings \in Documents  BY DEF Bodies
<1>2. Merged(b.settings, Patch[c]) \in Documents  BY <1>1, MergedType, PatchAssumption
<1>3. Kind[c] \in Kinds  BY KindAssumption
<1>4. CASE Kind[c] = "settings"
  BY <1>2, <1>4 DEF Wanted, Bodies
<1>5. CASE Kind[c] \in Toggles
  BY <1>5 DEF Wanted, Bodies
<1>6. CASE Kind[c] \in Patches
  BY <1>6 DEF Wanted, Bodies
<1> QED  BY <1>3, <1>4, <1>5, <1>6 DEF Kinds

LEMMA InitInv == Init => IInv
<1> SUFFICES ASSUME Init PROVE IInv
  OBVIOUS
<1>1. TypeOK  BY DEF Init, TypeOK, Objects
<1>2. \A c \in Calls : pc[c] = "idle" /\ writes[c] = 0  BY DEF Init
<1> QED
  BY <1>1, <1>2 DEF IInv, SnapshotFaithful, PreviousFaithful, Placed, InFlight,
     PreviousIsReplaced, SuccessMeansWritten

(* The server takes a write of c only where there is one to take. *)
LEMMA WriteType ==
  ASSUME TypeOK, Placed, NEW c \in Calls, PutTaken(c) \/ PatchTaken(c)
  PROVE  TypeOK'
<1>1. PICK b \in Bodies : Write(c, Wanted(c, b))
  BY DEF PutTaken, PatchTaken, TypeOK, Objects
<1>2. Wanted(c, b) \in Bodies  BY WantedType
<1>3. config' \in Objects(Bodies)
  BY <1>1, <1>2 DEF Write, Stored, TypeOK, Objects
<1>4. writes' \in [Calls -> 0..1]
  <2>1. writes[c] = 0  BY DEF Placed, InFlight, PutTaken, PatchTaken
  <2>2. writes' = [writes EXCEPT ![c] = 1]  BY <1>1, <2>1 DEF Write
  <2> QED  BY <2>2 DEF TypeOK
<1>5. config.body \in Bodies  BY DEF TypeOK, Objects
<1> QED  BY <1>1, <1>3, <1>4, <1>5 DEF Write, TypeOK, Goto

LEMMA TypeStep == TypeOK /\ Placed /\ [Next]_vars => TypeOK'
<1> SUFFICES ASSUME TypeOK, Placed, [Next]_vars PROVE TypeOK'
  OBVIOUS
<1>1. ASSUME NEW c \in Calls, Begin(c) PROVE TypeOK'
  BY <1>1 DEF Begin, TypeOK, Goto
<1>2. ASSUME NEW c \in Calls, RequestFails(c) \/ PutConflicts(c) PROVE TypeOK'
  BY <1>2 DEF RequestFails, PutConflicts, TypeOK, Goto
<1>3. ASSUME NEW c \in Calls, Get(c) PROVE TypeOK'
  BY <1>3 DEF Get, TypeOK, Goto
<1>4. CASE OtherWriter
  BY <1>4 DEF OtherWriter, Stored, TypeOK, Objects
<1>5. CASE UNCHANGED vars
  BY <1>5 DEF vars, TypeOK
<1> QED  BY <1>1, <1>2, <1>3, <1>4, <1>5, WriteType DEF Next, Step

(* A write of the object, by a call or another writer. *)
Written == \E b : config' = Stored(config, b)

LEMMA WriteGrows ==
  ASSUME TypeOK, Written
  PROVE  /\ config.rv \in Nat /\ config'.rv \in Nat /\ config'.rv >= config.rv
         /\ config'.rv = config.rv => config' = config
  BY DEF TypeOK, Objects, Written, Stored

(* In every step, a call that is about to PUT has just read the object, or *)
(* was about to PUT before.                                                *)
LEMMA PutCases ==
  ASSUME TypeOK, [Next]_vars, NEW d \in Calls, pc'[d] = "put"
  PROVE  \/ /\ snap'[d] = config /\ config' = config
            /\ Kind[d] \in Toggles => (previous'[d] <=> config.body.enabled = "true")
         \/ /\ pc[d] = "put" /\ snap'[d] = snap[d] /\ previous'[d] = previous[d]
            /\ config' = config \/ Written
<1> USE DEF TypeOK, Goto
<1>1. ASSUME NEW c \in Calls, Begin(c) \/ RequestFails(c) \/ PutConflicts(c)
      PROVE  pc[d] = "put" /\ UNCHANGED <<snap, previous, config>>
  BY <1>1 DEF Begin, RequestFails, PutConflicts
<1>2. ASSUME NEW c \in Calls, Get(c), d = c
      PROVE  /\ snap'[d] = config /\ config' = config
             /\ Kind[d] \in Toggles => (previous'[d] <=> config.body.enabled = "true")
  <2>1. snap'[d] = config /\ config' = config  BY <1>2 DEF Get
  <2>2. ASSUME Kind[d] \in Toggles PROVE previous'[d] = (config.body.enabled = "true")
    BY <1>2, <2>2 DEF Get
  <2> QED  BY <2>1, <2>2
<1>3. ASSUME NEW c \in Calls, Get(c), d # c
      PROVE  pc[d] = "put" /\ snap'[d] = snap[d] /\ previous'[d] = previous[d] /\ config' = config
  BY <1>3 DEF Get
<1>4. ASSUME NEW c \in Calls, PutTaken(c) \/ PatchTaken(c)
      PROVE  pc[d] = "put" /\ UNCHANGED <<snap, previous>> /\ Written
  BY <1>4 DEF PutTaken, PatchTaken, Write, Written
<1>5. CASE OtherWriter
  BY <1>5 DEF OtherWriter, Written
<1>6. CASE UNCHANGED vars
  BY <1>6 DEF vars
<1> QED  BY <1>1, <1>2, <1>3, <1>4, <1>5, <1>6 DEF Next, Step

LEMMA SnapshotStep == TypeOK /\ SnapshotFaithful /\ [Next]_vars => SnapshotFaithful'
<1> SUFFICES ASSUME TypeOK, SnapshotFaithful, [Next]_vars, NEW d \in Calls, pc'[d] = "put"
             PROVE  snap'[d].rv <= config'.rv /\ (snap'[d].rv = config'.rv => snap'[d] = config')
  BY DEF SnapshotFaithful
<1>1. config.rv \in Nat /\ snap[d].rv \in Nat  BY DEF TypeOK, Objects
<1> QED  BY <1>1, PutCases, WriteGrows DEF SnapshotFaithful

LEMMA PreviousStep == TypeOK /\ PreviousFaithful /\ [Next]_vars => PreviousFaithful'
<1> SUFFICES ASSUME TypeOK, PreviousFaithful, [Next]_vars, NEW d \in Calls,
                    pc'[d] = "put", Kind[d] \in Toggles
             PROVE  previous'[d] <=> snap'[d].body.enabled = "true"
  BY DEF PreviousFaithful
<1> QED  BY PutCases DEF PreviousFaithful

LEMMA PlacedStep == TypeOK /\ Placed /\ [Next]_vars => Placed'
<1> SUFFICES ASSUME TypeOK, Placed, [Next]_vars PROVE Placed'
  OBVIOUS
<1> USE DEF TypeOK, Placed, Goto, InFlight, RejectsEmpty
<1>1. ASSUME NEW c \in Calls, Begin(c) PROVE Placed'
  BY <1>1 DEF Begin
<1>2. ASSUME NEW c \in Calls, RequestFails(c) \/ PutConflicts(c) \/ Get(c) PROVE Placed'
  BY <1>2 DEF RequestFails, PutConflicts, Get
<1>3. ASSUME NEW c \in Calls, PutTaken(c) \/ PatchTaken(c) PROVE Placed'
  BY <1>3 DEF PutTaken, PatchTaken, Write
<1>4. CASE OtherWriter \/ UNCHANGED vars
  BY <1>4 DEF OtherWriter, vars
<1> QED  BY <1>1, <1>2, <1>3, <1>4 DEF Next, Step

(* A call turns "ok" only where the server has taken its write. *)
LEMMA OkCases ==
  ASSUME TypeOK, [Next]_vars, NEW d \in Calls, pc'[d] = "ok"
  PROVE  \/ pc[d] = "ok" /\ UNCHANGED <<writes[d], previous[d], replaced[d]>>
         \/ PutTaken(d) \/ PatchTaken(d)
<1> USE DEF TypeOK, Goto
<1>1. ASSUME NEW c \in Calls, Begin(c) \/ RequestFails(c) \/ PutConflicts(c) \/ Get(c)
      PROVE  pc[d] = "ok" /\ UNCHANGED <<writes[d], previous[d], replaced[d]>>
  BY <1>1 DEF Begin, RequestFails, PutConflicts, Get
<1>2. ASSUME NEW c \in Calls, PutTaken(c) \/ PatchTaken(c), c # d
      PROVE  pc[d] = "ok" /\ UNCHANGED <<writes[d], previous[d], replaced[d]>>
  BY <1>2 DEF PutTaken, PatchTaken, Write
<1>3. CASE OtherWriter \/ UNCHANGED vars
  BY <1>3 DEF OtherWriter, vars
<1> QED  BY <1>1, <1>2, <1>3 DEF Next, Step

LEMMA SuccessStep ==
  TypeOK /\ Placed /\ SuccessMeansWritten /\ [Next]_vars => SuccessMeansWritten'
<1> SUFFICES ASSUME TypeOK, Placed, SuccessMeansWritten, [Next]_vars,
                    NEW d \in Calls, pc'[d] = "ok"
             PROVE  writes'[d] = 1 /\ ~RejectsEmpty(d)
  BY DEF SuccessMeansWritten, RejectsEmpty
<1>1. CASE pc[d] = "ok" /\ UNCHANGED <<writes[d], previous[d], replaced[d]>>
  BY <1>1 DEF SuccessMeansWritten
<1>2. CASE PutTaken(d) \/ PatchTaken(d)
  <2>1. pc[d] \in InFlight  BY <1>2 DEF PutTaken, PatchTaken, InFlight
  <2>2. writes[d] = 0 /\ ~RejectsEmpty(d)  BY <2>1 DEF Placed
  <2>3. writes'[d] = writes[d] + 1  BY <1>2 DEF PutTaken, PatchTaken, Write, TypeOK
  <2> QED  BY <2>2, <2>3
<1> QED  BY <1>1, <1>2, OkCases

LEMMA ReplacedStep ==
  TypeOK /\ SnapshotFaithful /\ PreviousFaithful /\ Placed /\ PreviousIsReplaced /\ [Next]_vars
    => PreviousIsReplaced'
<1> SUFFICES ASSUME TypeOK, SnapshotFaithful, PreviousFaithful, Placed, PreviousIsReplaced,
                    [Next]_vars, NEW d \in Calls, pc'[d] = "ok", Kind[d] \in Toggles
             PROVE  previous'[d] <=> (replaced'[d].enabled = "true")
  BY DEF PreviousIsReplaced
<1>1. CASE pc[d] = "ok" /\ UNCHANGED <<writes[d], previous[d], replaced[d]>>
  BY <1>1 DEF PreviousIsReplaced
<1>2. CASE PutTaken(d)
  <2>1. snap[d] = config  BY <1>2 DEF PutTaken, Accepts, SnapshotFaithful
  <2>2. previous[d] <=> config.body.enabled = "true"
    BY <1>2, <2>1 DEF PutTaken, PreviousFaithful
  <2>3. replaced'[d] = config.body /\ previous' = previous
    BY <1>2 DEF PutTaken, Write, TypeOK
  <2> QED  BY <2>2, <2>3
<1>3. ~PatchTaken(d)
  BY DEF PatchTaken, Placed
<1> QED  BY <1>1, <1>2, <1>3, OkCases

LEMMA Invariance == Spec => []IInv
<1>1. IInv /\ [Next]_vars => IInv'
  BY TypeStep, SnapshotStep, PreviousStep, PlacedStep, SuccessStep, ReplacedStep DEF IInv
<1> QED  BY InitInv, <1>1, PTL DEF Spec

(* TypeOK: what the tools store is a ModuleConfig again, with no null left *)
(* in its settings, and no call writes twice.                              *)
THEOREM TypeCorrect == Spec => []TypeOK
<1>1. IInv => TypeOK  BY DEF IInv
<1> QED  BY <1>1, Invariance, PTL

(* PreviousIsReplaced: the previous_state of EnableModule and              *)
(* DisableModule is the state that the call itself replaced.               *)
THEOREM PreviousCorrect == Spec => []PreviousIsReplaced
<1>1. IInv => PreviousIsReplaced  BY DEF IInv
<1> QED  BY <1>1, Invariance, PTL

(* SuccessMeansWritten: no success without a write the server has taken. *)
THEOREM SuccessCorrect == Spec => []SuccessMeansWritten
<1>1. IInv => SuccessMeansWritten  BY DEF IInv
<1> QED  BY <1>1, Invariance, PTL

(* The field that a kind of tool writes. *)
FieldOf(c) == CASE Kind[c] \in Toggles -> "enabled"
                [] Kind[c] \in Patches -> "maintenance"
                [] OTHER -> "settings"

(* Wanted changes the field of its tool, and of the settings only the keys *)
(* of the patch.                                                           *)
LEMMA WantedIsNarrow ==
  ASSUME NEW c \in Calls, NEW b \in Bodies
  PROVE  /\ \A f \in {"enabled", "settings", "maintenance", "rest"} :
              Wanted(c, b)[f] # b[f] => f = FieldOf(c)
         /\ Kind[c] = "settings" =>
              \A w \in Paths : Silent(Patch[c], w) =>
                /\ w \in DOMAIN Wanted(c, b).settings <=> w \in DOMAIN b.settings
                /\ w \in DOMAIN b.settings => Wanted(c, b).settings[w] = b.settings[w]
<1>1. Kind[c] \in Kinds  BY KindAssumption
<1>2. CASE Kind[c] = "settings"
  <2>1. Wanted(c, b) = [b EXCEPT !.settings = Merged(b.settings, Patch[c])]
    BY <1>2 DEF Wanted
  <2>2. FieldOf(c) = "settings"  BY <1>2 DEF FieldOf
  <2>3. \A f \in {"enabled", "maintenance", "rest"} : Wanted(c, b)[f] = b[f]
    BY <2>1 DEF Bodies
  <2>4. Wanted(c, b).settings = Merged(b.settings, Patch[c])  BY <2>1 DEF Bodies
  <2> QED  BY <2>2, <2>3, <2>4, MergedKeeps
<1>3. CASE Kind[c] \in Toggles
  BY <1>3 DEF Wanted, FieldOf, Bodies
<1>4. CASE Kind[c] \in Patches
  BY <1>4 DEF Wanted, FieldOf, Bodies
<1> QED  BY <1>1, <1>2, <1>3, <1>4 DEF Kinds

(* What a write of one of the tools may change: the field of its tool and, *)
(* in settings, the paths that its patch has something to say of.          *)
Narrow(c) ==
  /\ \A f \in {"enabled", "settings", "maintenance", "rest"} :
       config'.body[f] # config.body[f] => f = FieldOf(c)
  /\ Kind[c] = "settings" =>
       \A w \in Paths : Silent(Patch[c], w) =>
         /\ w \in DOMAIN config'.body.settings <=> w \in DOMAIN config.body.settings
         /\ w \in DOMAIN config.body.settings =>
              config'.body.settings[w] = config.body.settings[w]

(* None of the four tools rolls back what another writer, or another of    *)
(* them, has put into the ModuleConfig in the meantime.                    *)
THEOREM NothingLost == Spec => [][\A c \in Calls : writes'[c] # writes[c] => Narrow(c)]_vars
<1> DEFINE A == \A c \in Calls : writes'[c] # writes[c] => Narrow(c)
<1>1. ASSUME IInv, Next, NEW d \in Calls, writes'[d] # writes[d]
      PROVE  config'.body = Wanted(d, config.body)
  <2>1. TypeOK /\ SnapshotFaithful  BY <1>1 DEF IInv
  <2>2. PICK c \in Calls : PutTaken(c) \/ PatchTaken(c)
    BY <1>1 DEF Next, Step, Begin, RequestFails, Get, PutConflicts, OtherWriter
  <2>3. c = d  BY <1>1, <2>1, <2>2 DEF PutTaken, PatchTaken, Write, TypeOK
  <2>4. PutTaken(d) => snap[d] = config
    BY <2>1 DEF PutTaken, Accepts, SnapshotFaithful
  <2>5. Write(d, Wanted(d, config.body))
    BY <2>2, <2>3, <2>4 DEF PutTaken, PatchTaken
  <2> QED  BY <2>5 DEF Write, Stored
<1>2. IInv /\ [Next]_vars => [A]_vars
  <2> SUFFICES ASSUME IInv, Next PROVE A
    OBVIOUS
  <2>1. config.body \in Bodies  BY DEF IInv, TypeOK, Objects
  <2> QED  BY <1>1, <2>1, WantedIsNarrow DEF Narrow
<1>3. Spec => [][A]_vars  BY <1>2, Invariance, PTL DEF Spec
<1> QED  BY <1>3

------------------------------------------------------------------------------
(* What the code makes of a body is what the tool promises.                *)
LEMMA WantedAsPromised ==
  ASSUME NEW c \in Calls, NEW b \in Bodies
  PROVE  Wanted(c, b) = Promised(c, b)
<1>1. Kind[c] \in Kinds  BY KindAssumption
<1>2. CASE Kind[c] = "settings"  BY <1>2 DEF Wanted, Promised
<1>3. CASE Kind[c] = "enable"  BY <1>3 DEF Wanted, Promised
<1>4. CASE Kind[c] = "disable"  BY <1>4 DEF Wanted, Promised
<1>5. CASE Kind[c] = "pause"  BY <1>5 DEF Wanted, Promised
<1>6. CASE Kind[c] = "resume"  BY <1>6 DEF Wanted, Promised
<1> QED  BY <1>1, <1>2, <1>3, <1>4, <1>5, <1>6 DEF Kinds

(* A call in flight is "running"; it may move on, end well or end badly.   *)
LEMMA StatusFollows ==
  ASSUME TypeOK, NEW c \in Calls, pc[c] \in {"idle"} \cup InFlight, NEW l, Goto(c, l)
  PROVE  /\ Status[c] = "running"
         /\ l = "ok" => Status' = [Status EXCEPT ![c] = "ok"]
         /\ l = "error" => Status' = [Status EXCEPT ![c] = "failed"]
         /\ l \in InFlight => Status' = Status
<1>1. pc' = [pc EXCEPT ![c] = l] /\ pc \in [Calls -> {"idle", "get", "put", "patch", "ok", "error"}]
  BY DEF Goto, TypeOK
<1>2. Status[c] = "running"  BY DEF Status, InFlight
<1>3. CASE l = "ok"  BY <1>1, <1>2, <1>3 DEF Status, InFlight
<1>4. CASE l = "error"  BY <1>1, <1>2, <1>4 DEF Status, InFlight
<1>5. CASE l \in InFlight  BY <1>1, <1>2, <1>5 DEF Status, InFlight
<1> QED  BY <1>2, <1>3, <1>4, <1>5 DEF InFlight

(* A call writes to the object as it stands what it promises.              *)
LEMMA WriteRefines ==
  ASSUME IInv, NEW c \in Calls, PutTaken(c) \/ PatchTaken(c)
  PROVE  Atomic!TakeEffect(c)
<1>1. TypeOK /\ SnapshotFaithful /\ config.body \in Bodies
  BY DEF IInv, TypeOK, Objects
<1>2. PutTaken(c) => snap[c] = config
  BY <1>1 DEF PutTaken, Accepts, SnapshotFaithful
<1>3. Write(c, Wanted(c, config.body)) /\ pc[c] \in InFlight
  BY <1>2 DEF PutTaken, PatchTaken, InFlight
<1>4. config'.body = Promised(c, config.body)
  BY <1>1, <1>3, WantedAsPromised DEF Write, Stored
<1>5. Status[c] = "running" /\ \E s \in {"ok", "failed"} : Status' = [Status EXCEPT ![c] = s]
  <2>1. PICK l \in {"ok", "error"} : Goto(c, l)  BY <1>3 DEF Write
  <2> QED  BY <1>1, <1>3, <2>1, StatusFollows
<1> QED  BY <1>1, <1>4, <1>5 DEF Atomic!TakeEffect

(* Every step is a step of AtomicUpdate, or leaves its variables alone.    *)
LEMMA StepRefines == IInv /\ IInv' /\ [Next]_vars => [Atomic!Next]_(Atomic!vars)
<1> SUFFICES ASSUME IInv, IInv', [Next]_vars PROVE Atomic!Next \/ UNCHANGED Atomic!vars
  OBVIOUS
<1>0. TypeOK /\ TypeOK' /\ config'.body \in Bodies
  BY DEF IInv, TypeOK, Objects
<1>1. ASSUME NEW c \in Calls, NEW l \in InFlight \cup {"error"}, Goto(c, l),
             pc[c] \in {"idle"} \cup InFlight, UNCHANGED config
      PROVE  Atomic!Next \/ UNCHANGED Atomic!vars
  <2>1. CASE l = "error"
    <3>1. Status[c] = "running" /\ Status' = [Status EXCEPT ![c] = "failed"]
      BY <1>0, <1>1, <2>1, StatusFollows
    <3> QED  BY <1>1, <3>1 DEF Atomic!Next, Atomic!Fail
  <2>2. CASE l \in InFlight
    <3>1. Status' = Status  BY <1>0, <1>1, <2>2, StatusFollows
    <3> QED  BY <1>1, <3>1 DEF Atomic!vars
  <2> QED  BY <2>1, <2>2
<1>2. ASSUME NEW c \in Calls, Begin(c) \/ RequestFails(c) \/ Get(c) \/ PutConflicts(c)
      PROVE  Atomic!Next \/ UNCHANGED Atomic!vars
  <2>1. PICK l \in InFlight \cup {"error"} : Goto(c, l)
    BY <1>2 DEF Begin, RequestFails, Get, PutConflicts, InFlight
  <2>2. pc[c] \in {"idle"} \cup InFlight /\ UNCHANGED config
    BY <1>2 DEF Begin, RequestFails, Get, PutConflicts, InFlight
  <2> QED  BY <1>1, <2>1, <2>2
<1>3. ASSUME NEW c \in Calls, PutTaken(c) \/ PatchTaken(c) PROVE Atomic!Next
  BY <1>3, WriteRefines DEF Atomic!Next
<1>4. CASE OtherWriter
  <2>1. Status' = Status  BY <1>4 DEF OtherWriter, Status
  <2> QED  BY <1>0, <2>1 DEF Atomic!Next, Atomic!External
<1>5. CASE UNCHANGED vars
  BY <1>5 DEF vars, Atomic!vars, Status
<1> QED  BY <1>2, <1>3, <1>4, <1>5 DEF Next, Step

(* AtomicSpec: whatever the interleaving with other calls, Deckhouse and   *)
(* operators, each of the four tools behaves as one indivisible update.    *)
THEOREM Refinement == Spec => AtomicSpec
<1>1. Init => Atomic!Init
  <2> SUFFICES ASSUME Init PROVE Atomic!Init
    OBVIOUS
  <2>1. config.body \in Bodies  BY DEF Init
  <2>2. Status = [c \in Calls |-> "running"]  BY DEF Init, Status
  <2> QED  BY <2>1, <2>2 DEF Atomic!Init
<1>2. IInv /\ IInv' /\ [Next]_vars => [Atomic!Next]_(Atomic!vars)  BY StepRefines
<1>3. Spec => Atomic!Spec  BY <1>1, <1>2, Invariance, PTL DEF Spec, Atomic!Spec
<1> QED  BY <1>3 DEF AtomicSpec
==============================================================================
