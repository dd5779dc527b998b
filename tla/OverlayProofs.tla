---------------------------- MODULE OverlayProofs ----------------------------
(***************************************************************************)
(* The overlay, for every set of paths, every lower layer and any number   *)
(* of descriptors: the writable layer stays a tree through copy-up,        *)
(* whiteouts and renames, and directories list exactly what can be opened. *)
(***************************************************************************)
EXTENDS Overlay, TLAPS

----------------------------------------------------------------------------
(* Paths.                                                                  *)

Name == UNION {Range(p) : p \in Paths}

\* Paths are sequences, and what a path goes through are paths.
LEMMA PathsAreSeqs == \A p \in Paths : p \in Seq(Name) /\ Len(p) \in Nat \ {0}
<1>1. Paths \subseteq Seq(Name) /\ <<>> \notin Paths
  BY OverlayAssumption DEF Name
<1> QED BY <1>1

LEMMA PrefixIs ==
  ASSUME NEW s \in Paths, NEW t \in Paths
  PROVE  /\ IsPrefix(s, t) <=> Len(s) <= Len(t) /\ \A i \in 1..Len(s) : s[i] = t[i]
         /\ IsPrefix(s, t) /\ Len(s) = Len(t) => s = t
<1>0. s \in Seq(Name) /\ t \in Seq(Name)
  BY PathsAreSeqs
<1>1. CASE Len(s) <= Len(t)
  <2>1. /\ SubSeq(s, 1, Len(s)) \in Seq(Name) /\ SubSeq(t, 1, Len(s)) \in Seq(Name)
        /\ Len(SubSeq(s, 1, Len(s))) = Len(s) /\ Len(SubSeq(t, 1, Len(s))) = Len(s)
        /\ \A i \in 1..Len(s) : SubSeq(s, 1, Len(s))[i] = s[i] /\ SubSeq(t, 1, Len(s))[i] = t[i]
    BY <1>0, <1>1
  <2>2. SubSeq(s, 1, Len(s)) = SubSeq(t, 1, Len(s)) <=> \A i \in 1..Len(s) : s[i] = t[i]
    BY <2>1
  <2>3. IsPrefix(s, t) <=> Len(s) <= Len(t) /\ \A i \in 1..Len(s) : s[i] = t[i]
    BY <1>1, <2>2 DEF IsPrefix
  <2>4. ASSUME IsPrefix(s, t), Len(s) = Len(t) PROVE s = t
    BY <1>0, <2>3, <2>4
  <2> QED BY <2>3, <2>4
<1>2. CASE ~(Len(s) <= Len(t))
  <2>1. ~IsPrefix(s, t) /\ Len(s) # Len(t)
    BY <1>0, <1>2 DEF IsPrefix
  <2> QED BY <1>2, <2>1
<1> QED BY <1>1, <1>2

LEMMA PrefixOrder ==
  ASSUME NEW p \in Paths, NEW q \in Paths, NEW r \in Paths
  PROVE  /\ IsPrefix(p, p)
         /\ IsPrefix(p, q) /\ IsPrefix(q, r) => IsPrefix(p, r)
         /\ IsPrefix(p, q) /\ IsPrefix(q, p) => p = q
         /\ IsPrefix(p, r) /\ IsPrefix(q, r) => IsPrefix(p, q) \/ IsPrefix(q, p)
<1>0. p \in Seq(Name) /\ q \in Seq(Name) /\ r \in Seq(Name)
  BY PathsAreSeqs
<1>1. IsPrefix(p, p)
  BY PrefixIs
<1>p. /\ IsPrefix(p, q) <=> Len(p) <= Len(q) /\ \A i \in 1..Len(p) : p[i] = q[i]
      /\ IsPrefix(q, p) <=> Len(q) <= Len(p) /\ \A i \in 1..Len(q) : q[i] = p[i]
      /\ IsPrefix(p, r) <=> Len(p) <= Len(r) /\ \A i \in 1..Len(p) : p[i] = r[i]
      /\ IsPrefix(q, r) <=> Len(q) <= Len(r) /\ \A i \in 1..Len(q) : q[i] = r[i]
  BY PrefixIs
<1>l. Len(p) \in Nat /\ Len(q) \in Nat /\ Len(r) \in Nat
  BY <1>0
<1>2. ASSUME IsPrefix(p, q), IsPrefix(q, r) PROVE IsPrefix(p, r)
  <2>1. \A i \in 1..Len(p) : i \in 1..Len(q)
    BY <1>p, <1>l, <1>2
  <2> QED BY <1>p, <1>l, <1>2, <2>1
<1>3. ASSUME IsPrefix(p, q), IsPrefix(q, p) PROVE p = q
  <2>1. Len(p) = Len(q) /\ \A i \in 1..Len(p) : p[i] = q[i]
    BY <1>p, <1>l, <1>3
  <2> QED BY <1>3, <2>1, PrefixIs
<1>4. ASSUME IsPrefix(p, r), IsPrefix(q, r) PROVE IsPrefix(p, q) \/ IsPrefix(q, p)
  <2>1. CASE Len(p) <= Len(q)
    <3>1. \A i \in 1..Len(p) : i \in 1..Len(q)
      BY <1>l, <2>1
    <3> QED BY <1>p, <1>4, <2>1, <3>1
  <2>2. CASE Len(q) <= Len(p)
    <3>1. \A i \in 1..Len(q) : i \in 1..Len(p)
      BY <1>l, <2>2
    <3> QED BY <1>p, <1>4, <2>2, <3>1
  <2> QED BY <1>l, <2>1, <2>2
<1> QED BY <1>1, <1>2, <1>3, <1>4

LEMMA AboveIs == \A p, q \in Paths : q \in Above(p) <=> IsPrefix(q, p) /\ q # p
BY DEF Above, IsStrictPrefix

\* The directories above an entry are its own directory and those above that.
LEMMA AboveEntry ==
  ASSUME NEW p \in Paths, NEW q \in Paths, Front(q) = p
  PROVE  Above(q) = Above(p) \union {p}
<1>0. p \in Seq(Name) /\ q \in Seq(Name) /\ Len(p) \in Nat \ {0} /\ Len(q) \in Nat \ {0}
  BY PathsAreSeqs
<1>1. Len(q) = Len(p) + 1 /\ \A i \in 1..Len(p) : q[i] = p[i]
  BY <1>0 DEF Front
<1>2. ASSUME NEW r \in Paths PROVE IsPrefix(r, q) /\ r # q <=> IsPrefix(r, p)
  <2>0. r \in Seq(Name) /\ Len(r) \in Nat
    BY PathsAreSeqs
  <2>1. /\ IsPrefix(r, q) <=> Len(r) <= Len(q) /\ \A i \in 1..Len(r) : r[i] = q[i]
        /\ IsPrefix(r, p) <=> Len(r) <= Len(p) /\ \A i \in 1..Len(r) : r[i] = p[i]
    BY PrefixIs
  <2>2. IsPrefix(r, q) /\ Len(r) = Len(q) => r = q
    BY PrefixIs
  <2>3. ASSUME IsPrefix(r, q), r # q PROVE IsPrefix(r, p)
    <3>1. Len(r) <= Len(p)
      BY <1>0, <1>1, <2>0, <2>1, <2>2, <2>3
    <3>2. \A i \in 1..Len(r) : i \in 1..Len(p)
      BY <1>0, <2>0, <3>1
    <3> QED BY <1>1, <2>1, <2>3, <3>1, <3>2
  <2>4. ASSUME IsPrefix(r, p) PROVE IsPrefix(r, q) /\ r # q
    <3>1. Len(r) <= Len(p) /\ Len(r) < Len(q) /\ \A i \in 1..Len(r) : i \in 1..Len(p)
      BY <1>0, <1>1, <2>0, <2>1, <2>4
    <3>2. IsPrefix(r, q)
      BY <1>0, <1>1, <2>0, <2>1, <2>4, <3>1
    <3> QED BY <1>0, <3>1, <3>2
  <2> QED BY <2>3, <2>4
<1>3. \A r \in Paths : r \in Above(p) \union {p} <=> IsPrefix(r, p)
  BY AboveIs, PrefixOrder
<1>4. \A r \in Paths : r \in Above(q) <=> r \in Above(p) \union {p}
  BY <1>2, <1>3, AboveIs
<1>5. Above(q) \subseteq Paths /\ Above(p) \union {p} \subseteq Paths
  BY DEF Above
<1> QED BY <1>4, <1>5

LEMMA AboveAbove ==
  \A p, q, r \in Paths : q \in Above(p) /\ r \in Above(q) => r \in Above(p)
<1> SUFFICES ASSUME NEW p \in Paths, NEW q \in Paths, NEW r \in Paths, q \in Above(p), r \in Above(q)
             PROVE  r \in Above(p)
  OBVIOUS
<1>1. IsPrefix(q, p) /\ q # p /\ IsPrefix(r, q) /\ r # q
  BY AboveIs
<1>2. IsPrefix(r, p) /\ r # p
  BY <1>1, PrefixOrder
<1> QED BY <1>2, AboveIs

\* A path taken from below q to below p keeps its place in the tree.
LEMMA MovedPaths ==
  ASSUME NEW p \in Paths, NEW q \in Paths, NEW r \in Paths, NEW s \in Paths,
         IsPrefix(q, r), r \in Above(s),
         p \o SubSeq(s, Len(q) + 1, Len(s)) \in Paths
  PROVE  p \o SubSeq(r, Len(q) + 1, Len(r)) \in Above(p \o SubSeq(s, Len(q) + 1, Len(s)))
<1> DEFINE fr == p \o SubSeq(r, Len(q) + 1, Len(r))
           fs == p \o SubSeq(s, Len(q) + 1, Len(s))
           n == Len(p) + Len(r) - Len(q)
<1>0. /\ p \in Seq(Name) /\ q \in Seq(Name) /\ r \in Seq(Name) /\ s \in Seq(Name)
      /\ Len(p) \in Nat \ {0} /\ Len(q) \in Nat \ {0} /\ Len(r) \in Nat \ {0} /\ Len(s) \in Nat \ {0}
  BY PathsAreSeqs
<1>1. Len(q) <= Len(r) /\ Len(r) < Len(s) /\ \A i \in 1..Len(r) : r[i] = s[i]
  <2>1. Len(q) <= Len(r)
    BY PrefixIs
  <2>2. IsPrefix(r, s) /\ r # s
    BY AboveIs
  <2>3. Len(r) <= Len(s) /\ Len(r) # Len(s) /\ \A i \in 1..Len(r) : r[i] = s[i]
    BY <2>2, PrefixIs
  <2> QED BY <1>0, <2>1, <2>3
<1>2. /\ SubSeq(r, Len(q) + 1, Len(r)) \in Seq(Name) /\ Len(SubSeq(r, Len(q) + 1, Len(r))) = Len(r) - Len(q)
      /\ \A i \in 1..Len(r) - Len(q) : SubSeq(r, Len(q) + 1, Len(r))[i] = r[Len(q) + i]
  BY <1>0, <1>1
<1>3. /\ SubSeq(s, Len(q) + 1, Len(s)) \in Seq(Name) /\ Len(SubSeq(s, Len(q) + 1, Len(s))) = Len(s) - Len(q)
      /\ \A i \in 1..Len(s) - Len(q) : SubSeq(s, Len(q) + 1, Len(s))[i] = s[Len(q) + i]
  BY <1>0, <1>1
<1>j. ASSUME NEW t \in Seq(Name)
      PROVE  /\ p \o t \in Seq(Name) /\ Len(p \o t) = Len(p) + Len(t)
             /\ \A i \in 1..Len(p) + Len(t) : (p \o t)[i] = IF i <= Len(p) THEN p[i] ELSE t[i - Len(p)]
  BY <1>0
<1>4. /\ fr \in Seq(Name) /\ Len(fr) = n
      /\ \A i \in 1..n : fr[i] = IF i <= Len(p) THEN p[i] ELSE r[Len(q) + i - Len(p)]
  <2> DEFINE t == SubSeq(r, Len(q) + 1, Len(r))
  <2>1. t \in Seq(Name) /\ Len(t) = Len(r) - Len(q) /\ \A i \in 1..Len(t) : t[i] = r[Len(q) + i]
    BY <1>2
  <2> HIDE DEF t
  <2>2. ASSUME NEW i \in 1..n, ~(i <= Len(p)) PROVE i - Len(p) \in 1..Len(t) /\ t[i - Len(p)] = r[Len(q) + i - Len(p)]
    <3>1. i - Len(p) \in 1..Len(t) /\ Len(q) + (i - Len(p)) = Len(q) + i - Len(p)
      BY <1>0, <1>1, <2>1, <2>2
    <3> QED BY <2>1, <3>1
  <2>3. fr = p \o t /\ n = Len(p) + Len(t)
    BY <1>0, <1>1, <2>1 DEF t
  <2>4. fr \in Seq(Name) /\ Len(fr) = n
    BY <1>j, <2>1, <2>3
  <2> HIDE DEF fr
  <2>5. ASSUME NEW i \in 1..n PROVE fr[i] = IF i <= Len(p) THEN p[i] ELSE t[i - Len(p)]
    BY <1>j, <2>1, <2>3
  <2> QED BY <2>2, <2>4, <2>5
<1>5. /\ fs \in Seq(Name) /\ n < Len(fs)
      /\ \A i \in 1..n : fs[i] = IF i <= Len(p) THEN p[i] ELSE s[Len(q) + i - Len(p)]
  <2> DEFINE t == SubSeq(s, Len(q) + 1, Len(s))
  <2>1. t \in Seq(Name) /\ Len(t) = Len(s) - Len(q) /\ \A i \in 1..Len(t) : t[i] = s[Len(q) + i]
    BY <1>3
  <2> HIDE DEF t
  <2>2. ASSUME NEW i \in 1..n, ~(i <= Len(p)) PROVE i - Len(p) \in 1..Len(t) /\ t[i - Len(p)] = s[Len(q) + i - Len(p)]
    <3>1. i - Len(p) \in 1..Len(t) /\ Len(q) + (i - Len(p)) = Len(q) + i - Len(p)
      BY <1>0, <1>1, <2>1, <2>2
    <3> QED BY <2>1, <3>1
  <2>3. fs = p \o t /\ n < Len(p) + Len(t)
    BY <1>0, <1>1, <2>1 DEF t
  <2>4. Len(fs) = Len(p) + Len(t) /\ \A i \in 1..n : i \in 1..Len(p) + Len(t)
    BY <1>0, <1>1, <1>j, <2>1, <2>3
  <2>5. fs \in Seq(Name) /\ n < Len(fs)
    BY <1>j, <2>1, <2>3, <2>4
  <2>6. ASSUME NEW i \in 1..n PROVE fs[i] = IF i <= Len(p) THEN p[i] ELSE t[i - Len(p)]
    BY <1>j, <2>1, <2>3, <2>4
  <2> QED BY <2>2, <2>5, <2>6
<1>6. \A i \in 1..n : fr[i] = fs[i]
  <2> SUFFICES ASSUME NEW i \in 1..n PROVE fr[i] = fs[i]
    OBVIOUS
  <2>1. CASE i <= Len(p)
    BY <1>4, <1>5, <2>1
  <2>2. CASE ~(i <= Len(p))
    <3>1. Len(q) + i - Len(p) \in 1..Len(r)
      BY <1>0, <1>1, <2>2
    <3> QED BY <1>1, <1>4, <1>5, <2>2, <3>1
  <2> QED BY <2>1, <2>2
<1> HIDE DEF fr, fs
<1>7. n \in 1..Len(fs)
  BY <1>0, <1>1, <1>5
<1>8. SubSeq(fs, 1, n) \in Paths
  BY <1>7, OverlayAssumption DEF fs
<1>9. SubSeq(fs, 1, n) = fr
  <2> HIDE DEF n
  <2>1. /\ SubSeq(fs, 1, n) \in Seq(Name) /\ Len(SubSeq(fs, 1, n)) = n
        /\ \A i \in 1..n : SubSeq(fs, 1, n)[i] = fs[i]
    BY <1>5, <1>7
  <2> QED BY <1>4, <1>6, <2>1
<1>10. fr \in Paths /\ fs \in Paths
  BY <1>8, <1>9 DEF fs
<1>11. IsPrefix(fr, fs)
  <2>1. Len(fr) <= Len(fs)
    BY <1>4, <1>5, <1>7
  <2> QED BY <1>4, <1>6, <1>10, <2>1, PrefixIs
<1>12. fr # fs
  BY <1>4, <1>5, <1>7
<1> QED BY <1>10, <1>11, <1>12, AboveIs DEF fr, fs

----------------------------------------------------------------------------
(* The writable tree.                                                      *)

\* What may be attached at p: a tree of nodes at and below it.
IsSubtree(p, sub) ==
    /\ DOMAIN sub \subseteq Paths
    /\ \A s \in DOMAIN sub : sub[s] \in Nodes /\ IsPrefix(p, s)
    /\ \A s \in DOMAIN sub : \A r \in Above(s) : IsPrefix(p, r) => r \in DOMAIN sub /\ sub[r] = Dir

LEMMA MkdirAllKeepsTree ==
  ASSUME NEW u, IsTree(u), NEW P \in SUBSET Paths, \A p \in P : Above(p) \subseteq P
  PROVE  IsTree(mkdirAll(u, P))
<1> DEFINE v == mkdirAll(u, P)
<1>1. /\ DOMAIN v = DOMAIN u \union P
      /\ \A p \in DOMAIN v : v[p] = IF p \in P THEN Dir ELSE u[p]
  BY DEF mkdirAll
<1>2. DOMAIN v \subseteq Paths /\ \A p \in DOMAIN v : v[p] \in Nodes
  BY <1>1 DEF IsTree, Nodes
<1>3. ASSUME NEW p \in DOMAIN v, NEW q \in Above(p) PROVE q \in DOMAIN v /\ v[q] = Dir
  <2>1. CASE p \in P
    BY <1>1, <2>1
  <2>2. CASE p \in DOMAIN u
    <3>1. q \in DOMAIN u /\ u[q] = Dir
      BY <2>2 DEF IsTree
    <3> QED BY <1>1, <3>1
  <2> QED BY <1>1, <2>1, <2>2
<1> HIDE DEF v
<1>4. IsTree(v)
  BY <1>2, <1>3 DEF IsTree
<1> QED BY <1>4 DEF v

LEMMA RemoveTreeKeepsTree ==
  ASSUME NEW u, IsTree(u), NEW p \in Paths
  PROVE  IsTree(RemoveTree(u, p)) /\ \A q \in DOMAIN RemoveTree(u, p) : ~IsPrefix(p, q)
<1> DEFINE v == RemoveTree(u, p)
<1>1. /\ DOMAIN v = {q \in DOMAIN u : ~IsPrefix(p, q)}
      /\ \A q \in DOMAIN v : v[q] = u[q]
  BY DEF RemoveTree, Restrict
<1>2. DOMAIN v \subseteq Paths /\ \A q \in DOMAIN v : v[q] \in Nodes
  BY <1>1 DEF IsTree
<1>3. ASSUME NEW q \in DOMAIN v, NEW r \in Above(q) PROVE r \in DOMAIN v /\ v[r] = Dir
  <2>1. q \in DOMAIN u /\ q \in Paths /\ r \in Paths /\ ~IsPrefix(p, q)
    BY <1>1, <1>2 DEF Above
  <2>2. r \in DOMAIN u /\ u[r] = Dir
    BY <2>1 DEF IsTree
  <2>3. IsPrefix(r, q)
    BY <2>1, AboveIs
  <2>4. ~IsPrefix(p, r)
    BY <2>1, <2>3, PrefixOrder
  <2> QED BY <1>1, <2>2, <2>4
<1> HIDE DEF v
<1>4. IsTree(v) /\ \A q \in DOMAIN v : ~IsPrefix(p, q)
  BY <1>1, <1>2, <1>3 DEF IsTree
<1> QED BY <1>4 DEF v

\* place keeps a tree a tree, whatever was at p and above it.
LEMMA PlaceKeepsTree ==
  ASSUME NEW u, IsTree(u), NEW p \in Paths, NEW sub, IsSubtree(p, sub)
  PROVE  IsTree(place(u, p, sub))
<1> DEFINE v == mkdirAll(RemoveTree(u, p), Above(p))
           w == place(u, p, sub)
<1>0. Above(p) \subseteq Paths /\ \A q \in Above(p) : Above(q) \subseteq Above(p)
  BY AboveAbove DEF Above
<1>1. IsTree(v)
  BY <1>0, RemoveTreeKeepsTree, MkdirAllKeepsTree
<1>2. DOMAIN v = DOMAIN RemoveTree(u, p) \union Above(p) /\ \A q \in Above(p) : q \in DOMAIN v /\ v[q] = Dir
  BY DEF mkdirAll
<1>3. \A q \in DOMAIN v : ~IsPrefix(p, q)
  <2>1. \A q \in Above(p) : ~IsPrefix(p, q)
    BY <1>0, AboveIs, PrefixOrder
  <2> QED BY <1>2, <2>1, RemoveTreeKeepsTree
<1> HIDE DEF v
<1>4. /\ DOMAIN w = DOMAIN v \union DOMAIN sub
      /\ \A q \in DOMAIN w : w[q] = IF q \in DOMAIN sub THEN sub[q] ELSE v[q]
  BY DEF place, Attached, v
<1>5. DOMAIN w \subseteq Paths /\ \A q \in DOMAIN w : w[q] \in Nodes
  BY <1>1, <1>4 DEF IsTree, IsSubtree
<1>6. ASSUME NEW q \in DOMAIN w, NEW r \in Above(q) PROVE r \in DOMAIN w /\ w[r] = Dir
  <2>0. q \in Paths /\ r \in Paths /\ IsPrefix(r, q) /\ r # q
    BY <1>5, AboveIs DEF Above
  <2>1. CASE q \in DOMAIN v
    <3>1. r \in DOMAIN v /\ v[r] = Dir
      BY <1>1, <2>1 DEF IsTree
    <3>2. r \notin DOMAIN sub
      BY <1>3, <3>1 DEF IsSubtree
    <3> QED BY <1>4, <3>1, <3>2
  <2>2. CASE q \in DOMAIN sub /\ IsPrefix(p, r)
    <3>1. r \in DOMAIN sub /\ sub[r] = Dir
      BY <2>2 DEF IsSubtree
    <3> QED BY <1>4, <3>1
  <2>3. CASE q \in DOMAIN sub /\ ~IsPrefix(p, r)
    <3>1. IsPrefix(p, q)
      BY <2>3 DEF IsSubtree
    <3>2. IsPrefix(r, p) /\ r # p
      BY <2>0, <2>3, <3>1, PrefixOrder
    <3>3. r \in DOMAIN v /\ v[r] = Dir
      BY <1>2, <2>0, <3>2, AboveIs
    <3>4. r \notin DOMAIN sub
      BY <2>3 DEF IsSubtree
    <3> QED BY <1>4, <3>3, <3>4
  <2> QED BY <1>4, <2>1, <2>2, <2>3
<1> HIDE DEF w
<1>7. IsTree(w)
  BY <1>5, <1>6 DEF IsTree
<1> QED BY <1>7 DEF w

LEMMA AtIsSubtree ==
  ASSUME NEW p \in Paths, NEW n \in Nodes
  PROVE  IsSubtree(p, At(p, n))
<1>1. DOMAIN At(p, n) = {p} /\ At(p, n)[p] = n
  BY DEF At
<1>2. ASSUME NEW r \in Above(p) PROVE ~IsPrefix(p, r)
  <2>1. r \in Paths
    BY DEF Above
  <2> QED BY <2>1, AboveIs, PrefixOrder
<1> QED BY <1>1, <1>2, PrefixOrder DEF IsSubtree

LEMMA RemoveChildKeepsTree ==
  ASSUME NEW u, IsTree(u), NEW p \in Paths
  PROVE  IsTree(removeChild(u, p))
<1>1. White \in Nodes
  BY DEF Nodes
<1>2. IsTree(place(u, p, At(p, White)))
  BY <1>1, AtIsSubtree, PlaceKeepsTree
<1> QED BY <1>2, RemoveTreeKeepsTree DEF removeChild

\* What Rename attaches at q is the tree that was at p.
LEMMA MovedIsSubtree ==
  ASSUME NEW u, IsTree(u), NEW p \in Paths, NEW q \in Paths
  PROVE  IsSubtree(q, Moved(u, p, q))
<1> DEFINE from(r) == p \o SubSeq(r, Len(q) + 1, Len(r))
           m == Moved(u, p, q)
<1>1. /\ DOMAIN m = {s \in Paths : IsPrefix(q, s) /\ from(s) \in DOMAIN u}
      /\ \A s \in DOMAIN m : m[s] = u[from(s)]
  BY DEF Moved
<1>2. ASSUME NEW s \in DOMAIN m, NEW r \in Above(s), IsPrefix(q, r) PROVE r \in DOMAIN m /\ m[r] = Dir
  <2>1. s \in Paths /\ r \in Paths /\ from(s) \in DOMAIN u
    BY <1>1 DEF Above
  <2>2. from(s) \in Paths
    BY <2>1 DEF IsTree
  <2>3. from(r) \in Above(from(s))
    BY <1>2, <2>1, <2>2, MovedPaths
  <2> HIDE DEF from
  <2>4. from(r) \in DOMAIN u /\ u[from(r)] = Dir
    BY <2>1, <2>3 DEF IsTree
  <2> QED BY <1>1, <1>2, <2>1, <2>4
<1> HIDE DEF from, m
<1>3. DOMAIN m \subseteq Paths /\ \A s \in DOMAIN m : m[s] \in Nodes /\ IsPrefix(q, s)
  BY <1>1 DEF IsTree
<1>4. IsSubtree(q, m)
  BY <1>2, <1>3 DEF IsSubtree
<1> QED BY <1>4 DEF m

----------------------------------------------------------------------------
(* The operations.                                                         *)

Handles == {Closed} \union [kind : {"upper", "lower"}, ino : Ids, path : Paths]

LEMMA TypeOKIs == TypeOK <=> IsTree(upper) /\ content \in [Ids -> Data] /\ fds \in [Fds -> Handles]
BY DEF TypeOK, Handles

LEMMA BecomesTyped ==
  ASSUME NEW u, NEW c \in [Ids -> Data], NEW o \in [Fds -> Handles], IsTree(u), Becomes(u, c, o)
  PROVE  TypeOK'
<1>1. upper' = u /\ fds' = o /\ content' = [i \in Ids |-> IF i \in Used(u, o) THEN c[i] ELSE Empty]
  BY DEF Becomes
<1>2. content' \in [Ids -> Data]
  BY <1>1 DEF Data
<1>3. IsTree(upper)' /\ fds' \in [Fds -> Handles]
  BY <1>1 DEF IsTree
<1> QED BY <1>2, <1>3 DEF TypeOK, Handles

\* The node at a path is a node, and a file has an identity.
LEMMA NodeTypes ==
  ASSUME TypeOK, NEW p \in Paths, statNode(p)
  PROVE  /\ inUpper(p) \/ lowerHas(p)
         /\ inUpper(p) => upper[p] \in Nodes /\ p \in DOMAIN upper
         /\ lowerHas(p) => Lower[p] = Dir \/ \E i \in DOMAIN LowerData : Lower[p] = File(i)
         /\ Node(p).typ = "file" => Node(p).ino \in Ids
<1>1. inUpper(p) \/ lowerHas(p)
  BY DEF statNode
<1>2. inUpper(p) => upper[p] \in Nodes /\ p \in DOMAIN upper
  BY DEF TypeOK, IsTree, inUpper
<1>3. lowerHas(p) => Lower[p] = Dir \/ \E i \in DOMAIN LowerData : Lower[p] = File(i)
  BY OverlayAssumption DEF lowerHas
<1>4. ASSUME Node(p).typ = "file" PROVE Node(p).ino \in Ids
  <2>1. CASE inUpper(p)
    BY <1>2, <1>4, <2>1 DEF Node, Nodes, Dir, White, File
  <2>2. CASE ~inUpper(p)
    <3>1. Node(p) = Dir \/ \E i \in DOMAIN LowerData : Node(p) = File(i)
      BY <1>1, <1>3, <2>2 DEF Node
    <3> QED BY <1>4, <3>1 DEF Dir, File, Ids
  <2> QED BY <2>1, <2>2
<1> QED BY <1>1, <1>2, <1>3, <1>4

\* copyUp leaves a tree with the node in it.
LEMMA CopyUpTyped ==
  ASSUME TypeOK, NEW p \in Paths, inUpper(p) \/ lowerHas(p), CanCopyUp(p)
  PROVE  /\ IsTree(copyUp(p).tree) /\ copyUp(p).data \in [Ids -> Data]
         /\ (IF inUpper(p) THEN upper[p].typ = "file" ELSE Lower[p] # Dir) => copyUp(p).tree[p].ino \in Ids
<1>0. IsTree(upper) /\ content \in [Ids -> Data]
  BY DEF TypeOK
<1>1. CASE inUpper(p)
  <2>1. copyUp(p) = [tree |-> upper, data |-> content]
    BY <1>1 DEF copyUp
  <2>2. upper[p] \in Nodes
    BY <1>0, <1>1 DEF inUpper, IsTree
  <2> QED BY <1>0, <1>1, <2>1, <2>2 DEF Nodes, Dir, White, File
<1>2. CASE ~inUpper(p) /\ Lower[p] = Dir
  <2>1. copyUp(p) = [tree |-> place(upper, p, At(p, Dir)), data |-> content]
    BY <1>2 DEF copyUp
  <2>2. IsTree(place(upper, p, At(p, Dir)))
    BY <1>0, AtIsSubtree, PlaceKeepsTree DEF Nodes
  <2> QED BY <1>0, <1>2, <2>1, <2>2
<1>3. CASE ~inUpper(p) /\ Lower[p] # Dir
  <2>1. PICK l \in DOMAIN LowerData : Lower[p] = File(l)
    BY <1>3, OverlayAssumption DEF lowerHas
  <2>2. UpNode(p) \in Ids
    <3>1. CASE InUpperUse(l)
      <4>1. Fresh # {}
        BY <1>3, <2>1, <3>1 DEF CanCopyUp, File
      <4>2. UpNode(p) = CHOOSE i \in Fresh : TRUE
        BY <2>1, <3>1 DEF UpNode, File
      <4>3. UpNode(p) \in Fresh
        BY <4>1, <4>2
      <4> QED BY <4>3 DEF Fresh, Ids
    <3>2. CASE ~InUpperUse(l)
      BY <2>1, <3>2 DEF UpNode, File, Ids
    <3> QED BY <3>1, <3>2
  <2> DEFINE n == UpNode(p)
  <2> HIDE DEF n
  <2>3. copyUp(p) = [tree |-> place(upper, p, At(p, File(n))), data |-> [content EXCEPT ![n] = LowerData[l]]]
    BY <1>3, <2>1 DEF copyUp, File, n
  <2>4. n \in Ids /\ File(n) \in Nodes
    BY <2>2 DEF n, Nodes
  <2>5. IsTree(place(upper, p, At(p, File(n))))
    BY <1>0, <2>4, AtIsSubtree, PlaceKeepsTree
  <2>6. LowerData[l] \in Data
    BY DEF Data, Range
  <2>7. [content EXCEPT ![n] = LowerData[l]] \in [Ids -> Data]
    BY <1>0, <2>6
  <2>8. place(upper, p, At(p, File(n)))[p] = File(n)
    BY DEF place, Attached, At
  <2> QED BY <2>3, <2>4, <2>5, <2>7, <2>8 DEF File
<1> QED BY <1>1, <1>2, <1>3

LEMMA OpenKeepsType ==
  ASSUME TypeOK, NEW f \in Fds, NEW p \in Paths,
         OpenRead(f, p) \/ OpenCreate(f, p) \/ \E t \in BOOLEAN : OpenWrite(f, p, t)
  PROVE  TypeOK'
<1>0. IsTree(upper) /\ content \in [Ids -> Data] /\ fds \in [Fds -> Handles]
  BY TypeOKIs
<1>h. \A kind \in {"upper", "lower"}, i \in Ids : [fds EXCEPT ![f] = Opened(kind, i, p)] \in [Fds -> Handles]
  BY <1>0 DEF Handles, Opened
<1>f. IsFile(p) => statNode(p) /\ Node(p).typ = "file"
  BY DEF IsFile, eval
<1>1. CASE OpenRead(f, p)
  <2>1. Node(p).ino \in Ids
    BY <1>1, <1>f, NodeTypes DEF OpenRead
  <2>2. PICK kind \in {"upper", "lower"} : Becomes(upper, content, [fds EXCEPT ![f] = Opened(kind, Node(p).ino, p)])
    BY <1>1 DEF OpenRead
  <2> QED BY <1>0, <1>h, <2>1, <2>2, BecomesTyped
<1>2. CASE OpenCreate(f, p)
  <2>1. PICK i \in Fresh : Becomes(place(upper, p, At(p, File(i))), content, [fds EXCEPT ![f] = Opened("upper", i, p)])
    BY <1>2 DEF OpenCreate
  <2>2. i \in Ids /\ File(i) \in Nodes
    BY DEF Fresh, Ids, Nodes
  <2>3. IsTree(place(upper, p, At(p, File(i))))
    BY <1>0, <2>2, AtIsSubtree, PlaceKeepsTree
  <2> QED BY <1>0, <1>h, <2>1, <2>2, <2>3, BecomesTyped
<1>3. ASSUME NEW t \in BOOLEAN, OpenWrite(f, p, t) PROVE TypeOK'
  <2> DEFINE up == copyUp(p)
             i == up.tree[p].ino
             c == IF t THEN [up.data EXCEPT ![i] = Empty] ELSE up.data
  <2>1. Becomes(up.tree, c, [fds EXCEPT ![f] = Opened("upper", i, p)]) /\ IsFile(p) /\ CanCopyUp(p)
    BY <1>3 DEF OpenWrite
  <2>2. inUpper(p) \/ lowerHas(p)
    BY <1>f, <2>1, NodeTypes
  <2>3. IF inUpper(p) THEN upper[p].typ = "file" ELSE Lower[p] # Dir
    BY <1>f, <2>1 DEF Node, Dir
  <2>4. IsTree(up.tree) /\ up.data \in [Ids -> Data] /\ i \in Ids
    BY <2>1, <2>2, <2>3, CopyUpTyped
  <2>5. c \in [Ids -> Data]
    BY <2>4 DEF Data
  <2> HIDE DEF up, i, c
  <2> QED BY <1>h, <2>1, <2>4, <2>5, BecomesTyped
<1> QED BY <1>1, <1>2, <1>3

LEMMA DescriptorsKeepType ==
  ASSUME TypeOK, NEW f \in Fds,
         \/ Close(f) \/ Truncate(f) \/ \E g \in Fds : Dup(f, g)
         \/ \E v \in Written : Write(f, v)
  PROVE  TypeOK'
<1>0. IsTree(upper) /\ content \in [Ids -> Data] /\ fds \in [Fds -> Handles]
  BY TypeOKIs
<1>1. CASE Close(f)
  <2>1. [fds EXCEPT ![f] = Closed] \in [Fds -> Handles]
    BY <1>0 DEF Handles
  <2> QED BY <1>0, <1>1, <2>1, BecomesTyped DEF Close
<1>2. ASSUME NEW g \in Fds, Dup(f, g) PROVE TypeOK'
  <2>1. [fds EXCEPT ![g] = fds[f]] \in [Fds -> Handles]
    BY <1>0
  <2> QED BY <1>0, <1>2, <2>1, BecomesTyped DEF Dup
<1>3. ASSUME NEW v \in Written, Write(f, v) PROVE TypeOK'
  <2>1. [content EXCEPT ![fds[f].ino] = v] \in [Ids -> Data]
    BY <1>0 DEF Data
  <2> QED BY <1>0, <1>3, <2>1, BecomesTyped DEF Write
<1>4. CASE Truncate(f)
  <2> DEFINE p == fds[f].path
             up == copyUp(p)
             i == up.tree[p].ino
             c == [up.data EXCEPT ![i] = Empty]
  <2>1. /\ Becomes(up.tree, c, [fds EXCEPT ![f] = Opened("upper", i, p)]) /\ CanCopyUp(p) /\ fds[f] # Closed
        /\ IF inUpper(p) THEN upper[p].typ = "file" ELSE lowerHas(p) /\ Lower[p] # Dir
    BY <1>4 DEF Truncate
  <2>2. p \in Paths
    BY <1>0, <2>1 DEF Handles
  <2> HIDE DEF p
  <2>3. IsTree(up.tree) /\ up.data \in [Ids -> Data] /\ i \in Ids
    BY <2>1, <2>2, CopyUpTyped
  <2>4. c \in [Ids -> Data]
    BY <2>3 DEF Data
  <2>5. [fds EXCEPT ![f] = Opened("upper", i, p)] \in [Fds -> Handles]
    BY <1>0, <2>2, <2>3 DEF Handles, Opened
  <2> HIDE DEF up, i, c
  <2> QED BY <2>1, <2>3, <2>4, <2>5, BecomesTyped
<1> QED BY <1>1, <1>2, <1>3, <1>4

LEMMA NamesKeepType ==
  ASSUME TypeOK, NEW p \in Paths,
         \/ MkdirAll(p) \/ Unlink(p) \/ Rmdir(p)
         \/ \E v \in Written : WriteFile(p, v)
         \/ \E q \in Paths : Rename(p, q)
  PROVE  TypeOK'
<1>0. IsTree(upper) /\ content \in [Ids -> Data] /\ fds \in [Fds -> Handles]
  BY TypeOKIs
<1>1. CASE MkdirAll(p)
  <2>1. Above(p) \union {p} \in SUBSET Paths /\ \A q \in Above(p) \union {p} : Above(q) \subseteq Above(p) \union {p}
    BY AboveAbove DEF Above
  <2>2. IsTree(mkdirAll(upper, Above(p) \union {p}))
    BY <1>0, <2>1, MkdirAllKeepsTree
  <2> QED BY <1>0, <1>1, <2>2, BecomesTyped DEF MkdirAll
<1>2. CASE Unlink(p) \/ Rmdir(p)
  <2>1. Becomes(removeChild(upper, p), content, fds)
    BY <1>2 DEF Unlink, Rmdir
  <2> QED BY <1>0, <2>1, RemoveChildKeepsTree, BecomesTyped
<1>3. ASSUME NEW v \in Written, WriteFile(p, v) PROVE TypeOK'
  <2>1. PICK i \in Fresh : Becomes(place(upper, p, At(p, File(i))), [content EXCEPT ![i] = v], fds)
    BY <1>3 DEF WriteFile
  <2>2. i \in Ids /\ File(i) \in Nodes
    BY DEF Fresh, Ids, Nodes
  <2>3. IsTree(place(upper, p, At(p, File(i))))
    BY <1>0, <2>2, AtIsSubtree, PlaceKeepsTree
  <2>4. [content EXCEPT ![i] = v] \in [Ids -> Data]
    BY <1>0 DEF Data
  <2> QED BY <1>0, <2>1, <2>3, <2>4, BecomesTyped
<1>4. ASSUME NEW q \in Paths, Rename(p, q) PROVE TypeOK'
  <2> DEFINE up == copyUp(p)
             u == removeChild(up.tree, p)
             w == IF CanPlace(u, q) THEN place(u, q, Moved(up.tree, p, q)) ELSE u
  <2>1. Becomes(w, up.data, fds) /\ eval(p) /\ CanCopyUp(p)
    BY <1>4 DEF Rename
  <2>2. inUpper(p) \/ lowerHas(p)
    BY <2>1, NodeTypes DEF eval
  <2>3. IsTree(up.tree) /\ up.data \in [Ids -> Data]
    BY <2>1, <2>2, CopyUpTyped
  <2>4. IsTree(u) /\ IsSubtree(q, Moved(up.tree, p, q))
    BY <2>3, RemoveChildKeepsTree, MovedIsSubtree
  <2>5. IsTree(w)
    BY <2>4, PlaceKeepsTree
  <2> HIDE DEF w
  <2> QED BY <1>0, <2>1, <2>3, <2>5, BecomesTyped
<1> QED BY <1>1, <1>2, <1>3, <1>4

\* The writable layer is a tree of nodes, and descriptors and contents keep their
\* types, whatever is copied up, covered by a whiteout, moved or made again.
THEOREM UpperStaysTree == Spec => []TypeOK
<1>1. Init => TypeOK
  <2> SUFFICES ASSUME Init PROVE TypeOK
    OBVIOUS
  <2>1. IsTree(upper)
    BY DEF Init, IsTree
  <2> QED BY <2>1 DEF Init, TypeOK, Data
<1>2. TypeOK /\ [Next]_vars => TypeOK'
  <2> SUFFICES ASSUME TypeOK, [Next]_vars PROVE TypeOK'
    OBVIOUS
  <2>1. CASE UNCHANGED vars
    BY <2>1 DEF vars, TypeOK, IsTree
  <2> QED BY <2>1, OpenKeepsType, DescriptorsKeepType, NamesKeepType DEF Next
<1> QED BY <1>1, <1>2, PTL DEF Spec

----------------------------------------------------------------------------
(* Listing.                                                                *)

LEMMA TreeLists == TypeOK => ListingIsLookup
<1>1. IsTree(upper) => ListingIsLookup
  <2> SUFFICES ASSUME IsTree(upper), NEW p \in Visible, Node(p) = Dir
               PROVE  readdirNames(p) = {q \in Visible : Front(q) = p}
    BY DEF ListingIsLookup
  <2>0. p \in Paths /\ eval(p)
    BY DEF Visible
  <2>1. readdirNames(p) \subseteq Paths
    BY DEF readdirNames
  <2>2. ASSUME NEW q \in Paths, Front(q) = p PROVE q \in readdirNames(p) <=> statNode(q)
    <3>1. q \in readdirNames(p) <=> \/ inUpper(p) /\ q \in DOMAIN upper /\ upper[q] # White
                                    \/ ~(inUpper(p) /\ q \in DOMAIN upper /\ upper[q] = White) /\ lowerHas(q)
      BY <2>2 DEF readdirNames
    <3>2. q \in DOMAIN upper => inUpper(p)
      <4>1. p \in Above(q)
        BY <2>0, <2>2, AboveEntry
      <4> QED BY <4>1 DEF IsTree, inUpper, Dir, White
    <3>3. CASE q \in DOMAIN upper
      BY <3>1, <3>2, <3>3 DEF statNode, inUpper, upperWhiteout
    <3>4. CASE q \notin DOMAIN upper
      BY <3>1, <3>4 DEF statNode, inUpper, upperWhiteout
    <3> QED BY <3>3, <3>4
  <2>3. ASSUME NEW q \in Paths, Front(q) = p PROVE eval(q) <=> statNode(q)
    BY <2>0, <2>3, AboveEntry DEF eval
  <2>4. \A q \in readdirNames(p) : Front(q) = p
    BY DEF readdirNames
  <2>5. \A q \in Paths : q \in readdirNames(p) <=> Front(q) = p /\ eval(q)
    BY <2>2, <2>3, <2>4
  <2> QED BY <2>1, <2>5 DEF Visible
<1>2. TypeOK => IsTree(upper)
  BY DEF TypeOK
<1> QED BY <1>1, <1>2

\* Directories list what can be opened there, whatever the layers hold.
THEOREM DirectoriesListWhatOpens == Spec => []ListingIsLookup
BY TreeLists, UpperStaysTree, PTL
----------------------------------------------------------------------------
(* What a writable tree over the lower layer shows.                        *)

\* statNode, Node and eval in a tree u; Through(u) is what is seen of the lower layer.
Stat(u, p) == IF p \in DOMAIN u THEN u[p] # White ELSE p \in DOMAIN Lower
NodeOf(u, p) == IF p \in DOMAIN u THEN u[p] ELSE Lower[p]
Shows(u) == {p \in Paths : \A q \in Above(p) \union {p} : Stat(u, q)}
Shown(u) == [p \in Shows(u) |-> NodeOf(u, p)]
Through(u) == Shows(u) \ DOMAIN u

ViewShown ==
    /\ \A p : (statNode(p) <=> Stat(upper, p)) /\ (statNode(p) => Node(p) = NodeOf(upper, p))
    /\ \A p \in Paths : eval(p) <=> p \in Shows(upper)
    /\ Visible = Shows(upper) /\ ViewTree = Shown(upper)
LEMMA ViewIsShown == ViewShown
<1>1. \A p : (statNode(p) <=> Stat(upper, p)) /\ (statNode(p) => Node(p) = NodeOf(upper, p))
  BY DEF statNode, Stat, inUpper, upperWhiteout, lowerHas, Node, NodeOf
<1>2. \A p \in Paths : eval(p) <=> p \in Shows(upper)
  BY <1>1 DEF eval, Shows
<1>3. Visible = Shows(upper)
  BY <1>2 DEF Visible, Shows
<1>4. \A p \in Shows(upper) : Node(p) = NodeOf(upper, p)
  BY <1>1 DEF Shows
<1> QED BY <1>1, <1>2, <1>3, <1>4 DEF ViewShown, ViewTree, Shown

LEMMA ViewIsShownNext == ViewShown'
BY ViewIsShown, PTL

\* No file of the tree stands over a directory of the lower layer.
Sound(u) == IsTree(u) /\ \A p \in DOMAIN u : u[p].typ = "file" => LowerChildren(p) = {}

\* The lower layer is a tree.
LEMMA LowerTree ==
  /\ \A p \in DOMAIN Lower : p \in Paths /\ (Lower[p] = Dir \/ \E i \in DOMAIN LowerData : Lower[p] = File(i))
  /\ \A p \in DOMAIN Lower : \A q \in Above(p) : q \in DOMAIN Lower /\ Lower[q] = Dir
  /\ \A p \in Paths : p \notin DOMAIN Lower => LowerChildren(p) = {}
  /\ \A p \in DOMAIN Lower : Lower[p] # Dir => LowerChildren(p) = {}
  /\ \A p, q \in Paths : q \in Above(p) /\ LowerChildren(q) = {} => p \notin DOMAIN Lower /\ LowerChildren(p) = {}
<1>1. \A p \in DOMAIN Lower : p \in Paths /\ (Lower[p] = Dir \/ \E i \in DOMAIN LowerData : Lower[p] = File(i))
  BY OverlayAssumption
<1>2. \A p \in DOMAIN Lower : \A q \in Above(p) : q \in DOMAIN Lower /\ Lower[q] = Dir
  BY OverlayAssumption DEF Above
<1>3. \A p, q \in Paths : q \in LowerChildren(p) <=> q \in DOMAIN Lower /\ p \in Above(q)
  BY DEF LowerChildren, Above
<1>4. \A p \in Paths : LowerChildren(p) \subseteq Paths
  BY <1>1 DEF LowerChildren
<1>5. ASSUME NEW p \in Paths, NEW q \in Paths, q \in Above(p), LowerChildren(q) = {}
      PROVE  p \notin DOMAIN Lower /\ LowerChildren(p) = {}
  <2>1. p \notin DOMAIN Lower
    BY <1>3, <1>5
  <2>2. ASSUME NEW r \in LowerChildren(p) PROVE FALSE
    <3>1. r \in Paths /\ r \in DOMAIN Lower /\ p \in Above(r)
      BY <1>3, <1>4, <2>2
    <3> QED BY <1>2, <2>1, <3>1
  <2> QED BY <2>1, <2>2
<1>6. ASSUME NEW p \in Paths, p \notin DOMAIN Lower PROVE LowerChildren(p) = {}
  BY <1>2, <1>3, <1>4, <1>6
<1>7. ASSUME NEW p \in DOMAIN Lower, Lower[p] # Dir PROVE LowerChildren(p) = {}
  BY <1>1, <1>2, <1>3, <1>4, <1>7
<1> QED BY <1>1, <1>2, <1>5, <1>6, <1>7

\* What is above something shown is shown, and is a directory.
LEMMA ShownAbove ==
  ASSUME NEW u, Sound(u), NEW p \in Shows(u), NEW q \in Above(p)
  PROVE  q \in Shows(u) /\ NodeOf(u, q) = Dir
<1>0. p \in Paths /\ q \in Paths /\ IsTree(u)
  BY DEF Shows, Above, Sound
<1>1. q \in Shows(u)
  <2>1. Above(q) \subseteq Paths
    BY DEF Above
  <2>2. Above(q) \union {q} \subseteq Above(p) \union {p}
    BY <1>0, <2>1, AboveAbove
  <2> QED BY <1>0, <2>2 DEF Shows
<1>2. Stat(u, p) /\ Stat(u, q)
  BY DEF Shows
<1>3. CASE p \in DOMAIN u
  BY <1>0, <1>1, <1>3 DEF IsTree, NodeOf
<1>4. CASE p \notin DOMAIN u
  <2>1. p \in DOMAIN Lower /\ Lower[q] = Dir /\ q \in DOMAIN Lower
    BY <1>2, <1>4, LowerTree DEF Stat
  <2>2. p \in LowerChildren(q)
    BY <2>1 DEF LowerChildren, Above
  <2>3. ASSUME q \in DOMAIN u PROVE u[q] = Dir
    <3>1. u[q] \in Nodes /\ u[q] # White /\ u[q].typ # "file"
      BY <1>0, <1>2, <2>2, <2>3 DEF Stat, IsTree, Sound
    <3> QED BY <3>1 DEF Nodes, File
  <2> QED BY <1>1, <2>1, <2>3 DEF NodeOf
<1> QED BY <1>1, <1>3, <1>4

\* P can become directories: nothing removed reappears there and no file is in the way.
Clear(u, P) ==
    \A q \in P : /\ q \in DOMAIN u /\ u[q] = White => LowerChildren(q) = {}
                 /\ Stat(u, q) => NodeOf(u, q) = Dir

\* Where something new is made, the lower layer has nothing below.
LEMMA NothingBelow ==
  ASSUME NEW u, Sound(u), NEW p \in Paths,
         \A q \in Above(p) \union {p} : q \in DOMAIN u /\ u[q] = White => LowerChildren(q) = {},
         p \in Shows(u) => NodeOf(u, p) # Dir
  PROVE  LowerChildren(p) = {}
<1>0. Above(p) \subseteq Paths
  BY DEF Above
<1>1. CASE p \in Shows(u)
  <2>1. Stat(u, p) /\ NodeOf(u, p) # Dir
    BY <1>1 DEF Shows
  <2>2. CASE p \in DOMAIN u
    <3>1. u[p] \in Nodes /\ u[p] # White /\ u[p] # Dir
      BY <2>1, <2>2 DEF Stat, NodeOf, Sound, IsTree
    <3>2. u[p].typ = "file"
      BY <3>1 DEF Nodes, File
    <3> QED BY <2>2, <3>2 DEF Sound
  <2>3. CASE p \notin DOMAIN u
    <3>1. p \in DOMAIN Lower /\ Lower[p] # Dir
      BY <2>1, <2>3 DEF Stat, NodeOf
    <3> QED BY <3>1, LowerTree
  <2> QED BY <2>2, <2>3
<1>2. CASE p \notin Shows(u)
  <2>1. PICK q \in Above(p) \union {p} : ~Stat(u, q)
    BY <1>2 DEF Shows
  <2>2. LowerChildren(q) = {}
    BY <1>0, <2>1, LowerTree DEF Stat
  <2> QED BY <1>0, <2>1, <2>2, LowerTree
<1> QED BY <1>1, <1>2

\* Making P directories, and changing what is in R, shows the same elsewhere.
OnlyMakes(u, v, P, R) ==
    /\ P \subseteq Paths /\ Clear(u, P)
    /\ \A q \in P : q \in DOMAIN v /\ v[q] = Dir
    /\ \A q \in Paths \ (P \union R) : /\ q \in DOMAIN v <=> q \in DOMAIN u
                                       /\ q \in DOMAIN v => v[q] = u[q]

LEMMA SameElsewhere ==
  ASSUME NEW u, Sound(u), NEW v, NEW P, NEW R, OnlyMakes(u, v, P, R),
         NEW r \in Paths, r \notin P, r \notin R, \A q \in Above(r) : q \notin R
  PROVE  (r \in Shows(v) <=> r \in Shows(u)) /\ NodeOf(v, r) = NodeOf(u, r)
<1>0. Above(r) \subseteq Paths /\ Dir # White
  BY DEF Above, Dir, White
<1>m. /\ P \subseteq Paths /\ Clear(u, P)
      /\ \A q \in P : q \in DOMAIN v /\ v[q] = Dir
  BY DEF OnlyMakes
<1>s. ASSUME NEW q \in Paths, q \notin P, q \notin R
      PROVE  (q \in DOMAIN v <=> q \in DOMAIN u) /\ (q \in DOMAIN v => v[q] = u[q])
  BY <1>s DEF OnlyMakes
<1>1. NodeOf(v, r) = NodeOf(u, r)
  BY <1>s DEF NodeOf
<1>2. ASSUME NEW q \in Above(r) \union {r}, q \notin P PROVE Stat(v, q) <=> Stat(u, q)
  <2>1. q \in Paths /\ q \notin P /\ q \notin R
    BY <1>0, <1>2
  <2> QED BY <1>s, <2>1 DEF Stat
<1>3. ASSUME NEW q \in P PROVE Stat(v, q)
  BY <1>0, <1>m DEF Stat
<1>4. r \in Shows(u) => r \in Shows(v)
  BY <1>2, <1>3 DEF Shows
<1>5. ASSUME r \in Shows(v) PROVE r \in Shows(u)
  <2> SUFFICES ASSUME NEW q \in Above(r) \union {r}, ~Stat(u, q) PROVE FALSE
    BY DEF Shows
  <2>1. Stat(v, q) /\ Stat(v, r)
    BY <1>5 DEF Shows
  <2>2. q \in P
    BY <1>2, <2>1
  <2>3. q \in Above(r) /\ q \in Paths
    BY <1>0, <2>2
  <2>4. LowerChildren(q) = {}
    BY <1>m, <2>2, <2>3, LowerTree DEF Stat, Clear
  <2>5. r \notin DOMAIN Lower
    BY <2>3, <2>4, LowerTree
  <2>6. r \notin DOMAIN u
    BY <1>0, <2>3 DEF Sound, IsTree, Stat
  <2> QED BY <1>2, <2>1, <2>5, <2>6 DEF Stat
<1> QED BY <1>1, <1>4, <1>5

----------------------------------------------------------------------------
(* What the operations on the tree do to what is shown.                    *)

LEMMA PlaceIs ==
  ASSUME NEW u, NEW p \in Paths, NEW sub, IsSubtree(p, sub)
  PROVE  /\ DOMAIN place(u, p, sub) = {q \in DOMAIN u : ~IsPrefix(p, q)} \union Above(p) \union DOMAIN sub
         /\ \A q \in DOMAIN place(u, p, sub) : place(u, p, sub)[q] =
               IF q \in DOMAIN sub THEN sub[q] ELSE IF q \in Above(p) THEN Dir ELSE u[q]
<1> DEFINE t == RemoveTree(u, p)
           w == mkdirAll(t, Above(p))
<1>1. DOMAIN t = {q \in DOMAIN u : ~IsPrefix(p, q)} /\ \A q \in DOMAIN t : t[q] = u[q]
  BY DEF RemoveTree, Restrict
<1> HIDE DEF t
<1>2. DOMAIN w = DOMAIN t \union Above(p) /\ \A q \in DOMAIN w : w[q] = IF q \in Above(p) THEN Dir ELSE t[q]
  BY DEF mkdirAll
<1> HIDE DEF w
<1>3. place(u, p, sub) = Attached(w, sub)
  BY DEF place, w, t
<1>4. /\ DOMAIN Attached(w, sub) = DOMAIN w \union DOMAIN sub
      /\ \A q \in DOMAIN w \union DOMAIN sub : Attached(w, sub)[q] = IF q \in DOMAIN sub THEN sub[q] ELSE w[q]
  BY DEF Attached
<1> QED BY <1>1, <1>2, <1>3, <1>4

\* The visible part of what is attached.
Plainly(sub) == Restrict(sub, {s \in DOMAIN sub : sub[s] # White})

\* The plain file system speaks of the same paths, directories and files.
LEMMA PlainNames ==
  /\ \A s, t : (Plain!IsPrefix(s, t) <=> IsPrefix(s, t)) /\ (Plain!IsStrictPrefix(s, t) <=> IsStrictPrefix(s, t))
  /\ \A p : Plain!Above(p) = Above(p) /\ Plain!Dir = Dir /\ \A i : Plain!File(i) = File(i)
  /\ \A f : Plain!Range(f) = Range(f)
<1>1. \A s, t : Plain!IsPrefix(s, t) <=> IsPrefix(s, t)
  BY DEF Plain!IsPrefix, IsPrefix
<1>2. \A s, t : Plain!IsStrictPrefix(s, t) <=> IsStrictPrefix(s, t)
  BY <1>1 DEF Plain!IsStrictPrefix, IsStrictPrefix
<1>3. \A p : Plain!Above(p) = Above(p)
  BY <1>2 DEF Plain!Above, Above
<1> QED BY <1>1, <1>2, <1>3 DEF Plain!Dir, Dir, Plain!File, File, Plain!Range, Range

LEMMA GraftIs ==
  ASSUME NEW t, NEW p, NEW sub
  PROVE  Plain!Graft(t, p, sub) =
           [q \in DOMAIN sub \union Above(p) \union {r \in DOMAIN t : ~IsPrefix(p, r)} |->
              IF q \in DOMAIN sub THEN sub[q] ELSE IF q \in Above(p) THEN Dir ELSE t[q]]
<1>1. /\ Plain!Above(p) = Above(p) /\ Plain!Dir = Dir
      /\ {r \in DOMAIN t : ~Plain!IsPrefix(p, r)} = {r \in DOMAIN t : ~IsPrefix(p, r)}
  BY PlainNames
<1> QED BY <1>1 DEF Plain!Graft

\* place shows what it attaches, and the directories made for it.
LEMMA PlaceShows ==
  ASSUME NEW u, Sound(u), NEW p \in Paths, NEW sub, IsSubtree(p, sub), p \in DOMAIN sub,
         LowerChildren(p) = {}, Clear(u, Above(p))
  PROVE  /\ Sound(place(u, p, sub))
         /\ Through(place(u, p, sub)) \subseteq Through(u)
         /\ Shown(place(u, p, sub)) = Plain!Graft(Shown(u), p, Plainly(sub))
         /\ \A q \in DOMAIN place(u, p, sub) :
               \/ place(u, p, sub)[q] = Dir
               \/ q \in DOMAIN sub /\ place(u, p, sub)[q] = sub[q]
               \/ q \in DOMAIN u /\ place(u, p, sub)[q] = u[q]
<1> DEFINE v == place(u, p, sub)
           R == {q \in Paths : IsPrefix(p, q)}
           S == {s \in DOMAIN sub : sub[s] # White}
<1>1. /\ DOMAIN v = {q \in DOMAIN u : ~IsPrefix(p, q)} \union Above(p) \union DOMAIN sub
      /\ \A q \in DOMAIN v : v[q] = IF q \in DOMAIN sub THEN sub[q] ELSE IF q \in Above(p) THEN Dir ELSE u[q]
  BY PlaceIs
<1>2. IsTree(v)
  BY PlaceKeepsTree DEF Sound
<1> HIDE DEF v
<1>3. /\ DOMAIN sub \subseteq R /\ Above(p) \subseteq Paths /\ DOMAIN u \subseteq Paths /\ p \in R
      /\ \A q \in Above(p) : q \notin R
  <2>1. \A q \in Above(p) : q \in Paths /\ ~IsPrefix(p, q)
    BY AboveIs, PrefixOrder DEF Above
  <2> QED BY <2>1, PrefixOrder DEF IsSubtree, Sound, IsTree
<1>4. \A r \in Paths \ R : \A q \in Above(r) : q \in Paths /\ q \notin R
  BY AboveIs, PrefixOrder DEF Above
<1>5. \A q \in Above(p) : q \in DOMAIN v /\ v[q] = Dir
  BY <1>1, <1>3
<1>6. \A q \in Paths \ (Above(p) \union R) : /\ q \in DOMAIN v <=> q \in DOMAIN u
                                             /\ q \in DOMAIN v => v[q] = u[q]
  BY <1>1, <1>3
<1> HIDE DEF R
<1>7. ASSUME NEW r \in Paths, r \notin R, r \notin Above(p)
      PROVE  (r \in Shows(v) <=> r \in Shows(u)) /\ NodeOf(v, r) = NodeOf(u, r)
  <2>1. OnlyMakes(u, v, Above(p), R)
    BY <1>3, <1>5, <1>6 DEF OnlyMakes
  <2> QED BY <1>4, <1>7, <2>1, SameElsewhere
<1>8. ASSUME NEW r \in DOMAIN v, v[r] # White PROVE r \in Shows(v) /\ NodeOf(v, r) = v[r]
  <2>1. \A q \in Above(r) : q \in DOMAIN v /\ v[q] = Dir
    BY <1>2 DEF IsTree
  <2> QED BY <1>2, <1>8, <2>1 DEF Shows, Stat, NodeOf, IsTree, Dir, White
<1>9. ASSUME NEW r \in R PROVE (r \in Shows(v) <=> r \in S) /\ (r \in S => NodeOf(v, r) = sub[r])
  <2>1. CASE r \in DOMAIN sub
    <3>1. r \in DOMAIN v /\ v[r] = sub[r]
      BY <1>1, <2>1
    <3> QED BY <1>8, <2>1, <3>1 DEF Shows, Stat
  <2>2. CASE r \notin DOMAIN sub
    <3>1. r \in Paths /\ p \in Above(r)
      BY <2>2, <1>3, AboveIs DEF R
    <3>2. r \notin DOMAIN Lower /\ r \notin DOMAIN v
      BY <1>1, <1>3, <1>9, <2>2, <3>1, LowerTree DEF R
    <3> QED BY <2>2, <3>2 DEF Shows, Stat
  <2> QED BY <2>1, <2>2
<1>10. ASSUME NEW r \in Above(p) PROVE r \in Shows(v) /\ NodeOf(v, r) = Dir
  BY <1>5, <1>8 DEF Dir, White
<1>11. Sound(v)
  <2> SUFFICES ASSUME NEW q \in DOMAIN v, v[q].typ = "file" PROVE LowerChildren(q) = {}
    BY <1>2 DEF Sound
  <2>1. CASE q \in DOMAIN sub
    <3>1. q \in Paths /\ (q = p \/ p \in Above(q))
      BY <1>3, <2>1, AboveIs DEF R
    <3> QED BY <3>1, LowerTree
  <2>2. CASE q \notin DOMAIN sub
    <3>1. q \notin Above(p)
      BY <1>1, <2>2 DEF Dir
    <3>2. q \in DOMAIN u /\ v[q] = u[q]
      BY <1>1, <2>2, <3>1
    <3> QED BY <3>2 DEF Sound
  <2> QED BY <2>1, <2>2
<1>12. Through(v) \subseteq Through(u)
  <2> SUFFICES ASSUME NEW r \in Shows(v), r \notin DOMAIN v PROVE r \in Shows(u) /\ r \notin DOMAIN u
    BY DEF Through
  <2>1. r \in Paths /\ r \notin Above(p)
    BY <1>5 DEF Shows
  <2>2. r \notin R
    BY <1>1, <1>9
  <2> QED BY <1>6, <1>7, <2>1, <2>2
<1>13. Shown(v) = Plain!Graft(Shown(u), p, Plainly(sub))
  <2> DEFINE g == Plain!Graft(Shown(u), p, Plainly(sub))
  <2>1. /\ DOMAIN Plainly(sub) = S /\ \A s \in S : Plainly(sub)[s] = sub[s]
        /\ DOMAIN Shown(u) = Shows(u) /\ \A q \in Shows(u) : Shown(u)[q] = NodeOf(u, q)
    BY DEF Plainly, Restrict, Shown
  <2>2. /\ g = [q \in DOMAIN g |-> g[q]]
        /\ DOMAIN g = S \union Above(p) \union {q \in Shows(u) : ~IsPrefix(p, q)}
        /\ \A q \in DOMAIN g : g[q] = IF q \in S THEN sub[q] ELSE IF q \in Above(p) THEN Dir ELSE NodeOf(u, q)
    <3>1. /\ g = [q \in DOMAIN g |-> g[q]]
          /\ DOMAIN g = DOMAIN Plainly(sub) \union Above(p) \union {q \in DOMAIN Shown(u) : ~IsPrefix(p, q)}
          /\ \A q \in DOMAIN g : g[q] = IF q \in DOMAIN Plainly(sub) THEN Plainly(sub)[q]
                                       ELSE IF q \in Above(p) THEN Dir ELSE Shown(u)[q]
      <4> DEFINE D == DOMAIN Plainly(sub) \union Above(p) \union {q \in DOMAIN Shown(u) : ~IsPrefix(p, q)}
                 val(q) == IF q \in DOMAIN Plainly(sub) THEN Plainly(sub)[q]
                           ELSE IF q \in Above(p) THEN Dir ELSE Shown(u)[q]
      <4>1. g = [q \in D |-> val(q)]
        BY GraftIs
      <4> HIDE DEF g, D, val
      <4>2. g = [q \in DOMAIN g |-> g[q]] /\ DOMAIN g = D /\ \A q \in DOMAIN g : g[q] = val(q)
        BY <4>1
      <4> QED BY <4>2 DEF D, val
    <3> HIDE DEF g
    <3> QED BY <2>1, <3>1
  <2> HIDE DEF g
  <2>3. ASSUME NEW r \in Paths PROVE /\ r \in Shows(v) <=> r \in DOMAIN g
                                     /\ r \in Shows(v) => NodeOf(v, r) = g[r]
    <3>1. CASE r \in R
      <4>1. r \notin Above(p) /\ IsPrefix(p, r)
        BY <1>3, <3>1 DEF R
      <4> QED BY <1>9, <2>2, <3>1, <4>1
    <3>2. CASE r \in Above(p)
      <4>1. r \notin S
        BY <1>3, <3>2
      <4> QED BY <1>10, <2>2, <3>2, <4>1
    <3>3. CASE r \notin R /\ r \notin Above(p)
      <4>1. r \notin S /\ ~IsPrefix(p, r)
        BY <1>3, <3>3 DEF R
      <4> QED BY <1>7, <2>2, <3>3, <4>1
    <3> QED BY <3>1, <3>2, <3>3
  <2>4. Shows(v) \subseteq Paths /\ DOMAIN g \subseteq Paths
    BY <1>3, <2>2 DEF Shows, R
  <2>5. Shows(v) = DOMAIN g
    BY <2>3, <2>4
  <2>6. \A r \in Shows(v) : NodeOf(v, r) = g[r]
    BY <2>3, <2>4
  <2>7. Shown(v) = [r \in DOMAIN g |-> g[r]]
    BY <2>5, <2>6 DEF Shown
  <2> QED BY <2>2, <2>7 DEF g
<1>14. \A q \in DOMAIN v : \/ v[q] = Dir
                           \/ q \in DOMAIN sub /\ v[q] = sub[q]
                           \/ q \in DOMAIN u /\ v[q] = u[q]
  BY <1>1
<1> QED BY <1>11, <1>12, <1>13, <1>14 DEF v

LEMMA SameShown ==
  ASSUME NEW u, NEW v, Shows(v) = Shows(u), \A q \in Shows(u) : NodeOf(v, q) = NodeOf(u, q)
  PROVE  Shown(v) = Shown(u)
BY DEF Shown

\* removeChild takes away what was shown at and below p, and nothing else.
LEMMA RemoveShows ==
  ASSUME NEW u, Sound(u), NEW p \in Shows(u)
  PROVE  /\ Sound(removeChild(u, p))
         /\ Through(removeChild(u, p)) \subseteq Through(u)
         /\ Shown(removeChild(u, p)) = [q \in {r \in Shows(u) : ~IsPrefix(p, r)} |-> NodeOf(u, q)]
         /\ \A q \in DOMAIN removeChild(u, p) :
               \/ removeChild(u, p)[q] = Dir
               \/ q = p /\ removeChild(u, p)[q] = White
               \/ q \in DOMAIN u /\ ~IsPrefix(p, q) /\ removeChild(u, p)[q] = u[q]
         /\ \A q \in Paths : ~IsPrefix(p, q) =>
               /\ Stat(removeChild(u, p), q) <=> Stat(u, q)
               /\ Stat(u, q) => NodeOf(removeChild(u, p), q) = NodeOf(u, q)
               /\ q \in DOMAIN u => q \in DOMAIN removeChild(u, p)
<1> DEFINE v == removeChild(u, p)
           R == {q \in Paths : IsPrefix(p, q)}
<1>0. /\ p \in Paths /\ IsTree(u) /\ Above(p) \subseteq Paths /\ DOMAIN u \subseteq Paths /\ p \in R
      /\ Dir # White /\ Dir.typ # "file" /\ White.typ # "file"
  BY PrefixOrder DEF Shows, Sound, IsTree, Above, Dir, White
<1>1. \A q \in Above(p) : q \in Shows(u) /\ Stat(u, q) /\ NodeOf(u, q) = Dir /\ q \notin R
  <2>1. \A q \in Above(p) : q \in Shows(u) /\ NodeOf(u, q) = Dir
    BY ShownAbove
  <2>2. \A q \in Above(p) : ~IsPrefix(p, q)
    BY <1>0, AboveIs, PrefixOrder
  <2> QED BY <2>1, <2>2 DEF Shows
<1>2. IsTree(v)
  BY <1>0, RemoveChildKeepsTree
<1>3. /\ DOMAIN v \subseteq Paths /\ \A q \in DOMAIN u \ R : q \in DOMAIN v
      /\ \A q \in DOMAIN v : \/ v[q] = Dir /\ q \in Above(p)
                             \/ q = p /\ v[q] = White
                             \/ q \in DOMAIN u \ R /\ v[q] = u[q]
      /\ (p \in DOMAIN v /\ v[p] = White) \/ (DOMAIN v = DOMAIN u \ R /\ p \notin DOMAIN Lower)
  <2>1. CASE lowerHas(p)
    <3> DEFINE s == At(p, White)
    <3>1. DOMAIN s = {p} /\ s[p] = White /\ IsSubtree(p, s)
      BY <1>0, AtIsSubtree DEF At, Nodes
    <3> HIDE DEF s
    <3>2. v = place(u, p, s)
      BY <2>1 DEF removeChild, s
    <3>3. /\ DOMAIN v = {q \in DOMAIN u : ~IsPrefix(p, q)} \union Above(p) \union {p}
          /\ \A q \in DOMAIN v : v[q] = IF q = p THEN White ELSE IF q \in Above(p) THEN Dir ELSE u[q]
      <4>1. /\ DOMAIN place(u, p, s) = {q \in DOMAIN u : ~IsPrefix(p, q)} \union Above(p) \union DOMAIN s
            /\ \A q \in DOMAIN place(u, p, s) : place(u, p, s)[q] =
                  IF q \in DOMAIN s THEN s[q] ELSE IF q \in Above(p) THEN Dir ELSE u[q]
        <5>1. p \in Paths /\ IsSubtree(p, s)
          BY <1>0, <3>1
        <5> QED BY <5>1, PlaceIs
      <4> HIDE DEF v
      <4> QED BY <3>1, <3>2, <4>1
    <3> HIDE DEF v
    <3> QED BY <1>0, <3>3
  <2>2. CASE ~lowerHas(p)
    <3>1. v = RemoveTree(u, p)
      BY <2>2 DEF removeChild
    <3>2. DOMAIN v = {q \in DOMAIN u : ~IsPrefix(p, q)} /\ \A q \in DOMAIN v : v[q] = u[q]
      BY <3>1 DEF RemoveTree, Restrict
    <3> HIDE DEF v
    <3> QED BY <1>0, <2>2, <3>2 DEF lowerHas
  <2> QED BY <2>1, <2>2
<1> HIDE DEF v
<1>4. ASSUME NEW r \in Paths, r \notin R
      PROVE  (Stat(v, r) <=> Stat(u, r)) /\ (Stat(u, r) => NodeOf(v, r) = NodeOf(u, r))
  <2>1. r # p
    BY <1>0, <1>4
  <2>2. CASE r \in DOMAIN v
    <3>1. (v[r] = Dir /\ r \in Above(p)) \/ (r \in DOMAIN u /\ v[r] = u[r])
      BY <1>3, <2>1, <2>2
    <3> QED BY <1>0, <1>1, <2>2, <3>1 DEF Stat, NodeOf
  <2>3. CASE r \notin DOMAIN v
    <3>1. r \notin DOMAIN u
      BY <1>3, <1>4, <2>3
    <3> QED BY <2>3, <3>1 DEF Stat, NodeOf
  <2> QED BY <2>2, <2>3
<1>5. \A r \in Paths \ R : \A q \in Above(r) : q \in Paths /\ q \notin R
  BY <1>0, AboveIs, PrefixOrder DEF Above
<1>6. \A r \in Paths \ R : r \in Shows(v) <=> r \in Shows(u)
  BY <1>4, <1>5 DEF Shows
<1>7. ASSUME NEW r \in R PROVE r \notin Shows(v)
  <2>1. r \in Paths /\ p \in Above(r) \union {r}
    BY <1>0, AboveIs
  <2>2. CASE p \in DOMAIN v /\ v[p] = White
    BY <2>1, <2>2 DEF Shows, Stat
  <2>3. CASE DOMAIN v = DOMAIN u \ R /\ p \notin DOMAIN Lower
    <3>1. ~Stat(v, p)
      BY <1>0, <2>3 DEF Stat
    <3> QED BY <2>1, <3>1 DEF Shows
  <2> QED BY <1>3, <2>2, <2>3
<1>8. Sound(v)
  <2> SUFFICES ASSUME NEW q \in DOMAIN v, v[q].typ = "file" PROVE LowerChildren(q) = {}
    BY <1>2 DEF Sound
  <2>1. q \in DOMAIN u /\ v[q] = u[q]
    BY <1>0, <1>3
  <2> QED BY <2>1 DEF Sound
<1>9. Through(v) \subseteq Through(u)
  <2> SUFFICES ASSUME NEW r \in Shows(v), r \notin DOMAIN v PROVE r \in Shows(u) /\ r \notin DOMAIN u
    BY DEF Through
  <2>1. r \in Paths \ R
    BY <1>7 DEF Shows
  <2> QED BY <1>3, <1>6, <2>1
<1>10. Shown(v) = [q \in {r \in Shows(u) : ~IsPrefix(p, r)} |-> NodeOf(u, q)]
  <2>1. Shows(v) = {r \in Shows(u) : ~IsPrefix(p, r)}
    <3>1. Shows(v) \subseteq Paths /\ Shows(u) \subseteq Paths
      BY DEF Shows
    <3>2. \A r \in Paths : r \in R <=> IsPrefix(p, r)
      OBVIOUS
    <3> HIDE DEF R
    <3> QED BY <1>6, <1>7, <3>1, <3>2
  <2>2. \A q \in Shows(v) : NodeOf(v, q) = NodeOf(u, q)
    <3>1. \A q \in Shows(v) : q \in Paths \ R /\ Stat(v, q)
      BY <1>7 DEF Shows
    <3> QED BY <1>4, <3>1
  <2> QED BY <2>1, <2>2 DEF Shown
<1>11. \A q \in DOMAIN v : \/ v[q] = Dir
                           \/ q = p /\ v[q] = White
                           \/ q \in DOMAIN u /\ ~IsPrefix(p, q) /\ v[q] = u[q]
  BY <1>0, <1>3
<1>12. \A q \in Paths : ~IsPrefix(p, q) =>
         /\ Stat(v, q) <=> Stat(u, q)
         /\ Stat(u, q) => NodeOf(v, q) = NodeOf(u, q)
         /\ q \in DOMAIN u => q \in DOMAIN v
  BY <1>3, <1>4
<1> QED BY <1>8, <1>9, <1>10, <1>11, <1>12 DEF v

\* mkdirAll shows the directories it makes.
LEMMA MkdirShows ==
  ASSUME NEW u, Sound(u), NEW P \in SUBSET Paths, \A q \in P : Above(q) \subseteq P, Clear(u, P)
  PROVE  /\ Sound(mkdirAll(u, P))
         /\ Through(mkdirAll(u, P)) \subseteq Through(u)
         /\ Shown(mkdirAll(u, P)) = Plain!WithDirs(Shown(u), P)
<1> DEFINE v == mkdirAll(u, P)
<1>1. DOMAIN v = DOMAIN u \union P /\ \A q \in DOMAIN v : v[q] = IF q \in P THEN Dir ELSE u[q]
  BY DEF mkdirAll
<1>2. IsTree(v)
  BY MkdirAllKeepsTree DEF Sound
<1> HIDE DEF v
<1>3. ASSUME NEW r \in Paths, r \notin P
      PROVE  (r \in Shows(v) <=> r \in Shows(u)) /\ NodeOf(v, r) = NodeOf(u, r)
  <2>1. OnlyMakes(u, v, P, {})
    BY <1>1 DEF OnlyMakes
  <2> QED BY <1>3, <2>1, SameElsewhere
<1>4. ASSUME NEW r \in P PROVE r \in Shows(v) /\ NodeOf(v, r) = Dir
  <2>1. \A q \in Above(r) \union {r} : q \in DOMAIN v /\ v[q] = Dir
    BY <1>1
  <2> QED BY <2>1 DEF Shows, Stat, NodeOf, Dir, White
<1>5. Sound(v)
  BY <1>1, <1>2 DEF Sound, Dir
<1>6. Through(v) \subseteq Through(u)
  <2> SUFFICES ASSUME NEW r \in Shows(v), r \notin DOMAIN v PROVE r \in Shows(u) /\ r \notin DOMAIN u
    BY DEF Through
  <2>1. r \in Paths /\ r \notin P
    BY <1>1 DEF Shows
  <2> QED BY <1>1, <1>3, <2>1
<1>7. Shown(v) = Plain!WithDirs(Shown(u), P)
  <2>1. DOMAIN Shown(u) = Shows(u) /\ \A q \in Shows(u) : Shown(u)[q] = NodeOf(u, q)
    BY DEF Shown
  <2>2. Plain!WithDirs(Shown(u), P) = [q \in Shows(u) \union P |-> IF q \in P THEN Dir ELSE NodeOf(u, q)]
    BY <2>1, PlainNames DEF Plain!WithDirs
  <2>3. Shows(v) \subseteq Paths /\ Shows(u) \subseteq Paths
    BY DEF Shows
  <2>4. Shows(v) = Shows(u) \union P
    BY <1>3, <1>4, <2>3
  <2>5. \A q \in Shows(v) : NodeOf(v, q) = IF q \in P THEN Dir ELSE NodeOf(u, q)
    BY <1>3, <1>4, <2>3
  <2> QED BY <2>2, <2>4, <2>5 DEF Shown
<1> QED BY <1>5, <1>6, <1>7 DEF v

\* Copying up shows what was there before: only the layer it is seen through changes.
LEMMA CopyUpShows ==
  ASSUME NEW u, Sound(u), NEW p \in Shows(u), p \notin DOMAIN u
  PROVE  LET v == place(u, p, At(p, Lower[p])) IN
         /\ p \in DOMAIN Lower /\ Sound(v) /\ p \in DOMAIN v /\ v[p] = Lower[p]
         /\ Through(v) \subseteq Through(u) \ {p}
         /\ Shows(v) = Shows(u) /\ Shown(v) = Shown(u)
         /\ \A q \in Paths : /\ Stat(v, q) <=> Stat(u, q)
                             /\ NodeOf(v, q) = NodeOf(u, q)
                             /\ q \in DOMAIN u => q \in DOMAIN v /\ v[q] = u[q]
                             /\ q \in DOMAIN v => v[q] \in {Dir, Lower[p]} \/ (q \in DOMAIN u /\ v[q] = u[q])
                             /\ q \in DOMAIN v /\ v[q] = White => q \in DOMAIN u /\ u[q] = White
<1> DEFINE s == At(p, Lower[p])
           v == place(u, p, s)
<1>0. /\ p \in Paths /\ IsTree(u) /\ Above(p) \subseteq Paths /\ DOMAIN u \subseteq Paths /\ p \in DOMAIN Lower
      /\ Lower[p] \in Nodes /\ Lower[p] # White /\ Dir # White /\ Dir.typ # "file"
  <2>1. p \in DOMAIN Lower
    BY DEF Shows, Stat
  <2>2. Lower[p] = Dir \/ \E i \in DOMAIN LowerData : Lower[p] = File(i)
    BY <2>1, LowerTree
  <2> QED BY <2>1, <2>2 DEF Shows, Sound, IsTree, Above, Dir, White, File, Nodes, Ids
<1>1. DOMAIN s = {p} /\ s[p] = Lower[p] /\ IsSubtree(p, s)
  BY <1>0, AtIsSubtree DEF At
<1> HIDE DEF s
<1>2. /\ DOMAIN v = {q \in DOMAIN u : ~IsPrefix(p, q)} \union Above(p) \union {p}
      /\ \A q \in DOMAIN v : v[q] = IF q = p THEN Lower[p] ELSE IF q \in Above(p) THEN Dir ELSE u[q]
  <2>1. /\ DOMAIN v = {q \in DOMAIN u : ~IsPrefix(p, q)} \union Above(p) \union DOMAIN s
        /\ \A q \in DOMAIN v : v[q] = IF q \in DOMAIN s THEN s[q] ELSE IF q \in Above(p) THEN Dir ELSE u[q]
    <3>1. p \in Paths /\ IsSubtree(p, s)
      BY <1>0, <1>1
    <3> QED BY <3>1, PlaceIs
  <2> HIDE DEF v
  <2> QED BY <1>1, <2>1
<1>3. IsTree(v)
  BY <1>0, <1>1, PlaceKeepsTree
<1> HIDE DEF v
<1>4. \A q \in Above(p) : Stat(u, q) /\ NodeOf(u, q) = Dir /\ q \in DOMAIN Lower /\ Lower[q] = Dir /\ q # p
  <2>1. \A q \in Above(p) : q \in Shows(u) /\ NodeOf(u, q) = Dir
    BY ShownAbove
  <2>2. \A q \in Above(p) : q \in DOMAIN Lower /\ Lower[q] = Dir
    BY <1>0, LowerTree
  <2> QED BY <1>0, <2>1, <2>2, AboveIs DEF Shows
<1>5. ASSUME NEW q \in DOMAIN u PROVE q \in DOMAIN v /\ v[q] = u[q]
  <2>1. q \in Paths /\ q # p
    BY <1>0
  <2>2. ~IsPrefix(p, q)
    <3>1. ASSUME IsPrefix(p, q) PROVE FALSE
      <4>1. p \in Above(q)
        BY <1>0, <2>1, <3>1, AboveIs
      <4> QED BY <1>0, <4>1 DEF IsTree
    <3> QED BY <3>1
  <2>3. q \in Above(p) => u[q] = Dir
    BY <1>4 DEF NodeOf
  <2> QED BY <1>2, <2>1, <2>2, <2>3
<1>6. ASSUME NEW q \in DOMAIN v, q \notin DOMAIN u PROVE q \in DOMAIN Lower /\ v[q] = Lower[q] /\ v[q] # White
  BY <1>0, <1>2, <1>4, <1>6
<1>7. \A q \in Paths : (Stat(v, q) <=> Stat(u, q)) /\ NodeOf(v, q) = NodeOf(u, q)
  <2> SUFFICES ASSUME NEW q \in Paths PROVE (Stat(v, q) <=> Stat(u, q)) /\ NodeOf(v, q) = NodeOf(u, q)
    OBVIOUS
  <2>1. CASE q \in DOMAIN u
    BY <1>5, <2>1 DEF Stat, NodeOf
  <2>2. CASE q \notin DOMAIN u
    BY <1>6, <2>2 DEF Stat, NodeOf
  <2> QED BY <2>1, <2>2
<1>8. Shows(v) = Shows(u)
  <2>1. \A q \in Paths : Above(q) \union {q} \subseteq Paths
    BY DEF Above
  <2> QED BY <1>7, <2>1 DEF Shows
<1>9. Shown(v) = Shown(u)
  <2>1. Shows(u) \subseteq Paths
    BY DEF Shows
  <2> QED BY <1>7, <1>8, <2>1, SameShown
<1>10. Sound(v)
  <2> SUFFICES ASSUME NEW q \in DOMAIN v, v[q].typ = "file" PROVE LowerChildren(q) = {}
    BY <1>3 DEF Sound
  <2>1. CASE q \in DOMAIN u
    BY <1>5, <2>1 DEF Sound
  <2>2. CASE q \notin DOMAIN u
    BY <1>0, <1>6, <2>2, LowerTree
  <2> QED BY <2>1, <2>2
<1>11. p \in DOMAIN v /\ v[p] = Lower[p]
  BY <1>2
<1>12. Through(v) \subseteq Through(u) \ {p}
  BY <1>5, <1>8, <1>11 DEF Through
<1>13. \A q \in Paths : /\ q \in DOMAIN u => q \in DOMAIN v /\ v[q] = u[q]
                        /\ q \in DOMAIN v => v[q] \in {Dir, Lower[p]} \/ (q \in DOMAIN u /\ v[q] = u[q])
                        /\ q \in DOMAIN v /\ v[q] = White => q \in DOMAIN u /\ u[q] = White
  BY <1>2, <1>5, <1>6
<1>14. v = place(u, p, At(p, Lower[p]))
  BY DEF v, s
<1> QED BY <1>0, <1>7, <1>8, <1>9, <1>10, <1>11, <1>12, <1>13, <1>14

----------------------------------------------------------------------------
(* Renaming.                                                               *)

\* Where what comes to be at r was before p became q.
From(p, q, r) == p \o SubSeq(r, Len(q) + 1, Len(r))

LEMMA FromIs ==
  ASSUME NEW p \in Paths, NEW q \in Paths
  PROVE  /\ From(p, q, q) = p
         /\ \A s \in Paths : IsPrefix(p, s) => From(p, p, s) = s
         /\ \A s \in Paths : IsPrefix(q, s) /\ s # q /\ From(p, q, s) \in Paths => p \in Above(From(p, q, s))
<1>0. p \in Seq(Name) /\ q \in Seq(Name)
  BY PathsAreSeqs
<1>1. From(p, q, q) = p
  <2>1. SubSeq(q, Len(q) + 1, Len(q)) = <<>>
    BY <1>0
  <2> QED BY <1>0, <2>1 DEF From
<1>2. ASSUME NEW s \in Paths, IsPrefix(p, s) PROVE From(p, p, s) = s
  <2> DEFINE t == SubSeq(s, Len(p) + 1, Len(s))
  <2>0. s \in Seq(Name)
    BY PathsAreSeqs
  <2>1. Len(p) <= Len(s) /\ \A i \in 1..Len(p) : p[i] = s[i]
    BY <1>2, PrefixIs
  <2>2. t \in Seq(Name) /\ Len(t) = Len(s) - Len(p) /\ \A i \in 1..Len(s) - Len(p) : t[i] = s[Len(p) + i]
    BY <1>0, <2>0, <2>1
  <2> HIDE DEF t
  <2>3. /\ p \o t \in Seq(Name) /\ Len(p \o t) = Len(s)
        /\ \A i \in 1..Len(s) : (p \o t)[i] = IF i <= Len(p) THEN p[i] ELSE t[i - Len(p)]
    BY <1>0, <2>0, <2>1, <2>2
  <2>4. ASSUME NEW i \in 1..Len(s) PROVE (p \o t)[i] = s[i]
    <3>1. CASE i <= Len(p)
      <4>1. i \in 1..Len(p)
        BY <1>0, <3>1
      <4> QED BY <2>1, <2>3, <3>1, <4>1
    <3>2. CASE ~(i <= Len(p))
      <4>1. i - Len(p) \in 1..Len(s) - Len(p) /\ Len(p) + (i - Len(p)) = i
        BY <1>0, <2>0, <2>1, <3>2
      <4> QED BY <2>2, <2>3, <3>2, <4>1
    <3> QED BY <3>1, <3>2
  <2>5. p \o t = s
    <3> DEFINE x == p \o t
    <3>1. x \in Seq(Name) /\ s \in Seq(Name) /\ Len(x) = Len(s) /\ \A i \in 1..Len(s) : x[i] = s[i]
      BY <2>0, <2>3, <2>4
    <3> HIDE DEF x
    <3>2. x = s
      BY <3>1
    <3> QED BY <3>2 DEF x
  <2> QED BY <2>5 DEF From, t
<1>3. ASSUME NEW s \in Paths, IsPrefix(q, s), s # q, From(p, q, s) \in Paths PROVE p \in Above(From(p, q, s))
  <2>1. q \in Above(s) /\ IsPrefix(q, q)
    BY <1>3, AboveIs, PrefixOrder
  <2>2. From(p, q, q) \in Above(From(p, q, s))
    BY <1>3, <2>1, MovedPaths DEF From
  <2> QED BY <1>1, <2>2
<1> QED BY <1>1, <1>2, <1>3

\* What a tree shows at and below p, seen from q.
Seen(u, p, q) ==
    [s \in {r \in Paths : IsPrefix(q, r) /\ From(p, q, r) \in Shows(u)} |-> NodeOf(u, From(p, q, s))]
Without(u, p) == [q \in {r \in Shows(u) : ~IsPrefix(p, r)} |-> NodeOf(u, q)]

\* What Rename moves is all that is shown, once what the lower layer has below p is hidden.
LEMMA MovedIsSeen ==
  ASSUME NEW u, Sound(u), NEW p \in DOMAIN u, NEW q \in Paths,
         \A r \in LowerChildren(p) : r \notin Shows(u)
  PROVE  Plainly(Moved(u, p, q)) = Seen(u, p, q)
<1> DEFINE m == Moved(u, p, q)
<1>0. IsTree(u) /\ p \in Paths /\ DOMAIN u \subseteq Paths
  BY DEF Sound, IsTree
<1>1. /\ DOMAIN m = {s \in Paths : IsPrefix(q, s) /\ From(p, q, s) \in DOMAIN u}
      /\ \A s \in DOMAIN m : m[s] = u[From(p, q, s)]
  BY DEF Moved, From
<1> HIDE DEF m
<1>2. ASSUME NEW r \in DOMAIN u, u[r] # White PROVE r \in Shows(u) /\ NodeOf(u, r) = u[r]
  <2>1. \A t \in Above(r) : t \in DOMAIN u /\ u[t] = Dir
    BY <1>0 DEF IsTree
  <2> QED BY <1>0, <1>2, <2>1 DEF Shows, Stat, NodeOf, Dir, White
<1>3. ASSUME NEW s \in Paths, IsPrefix(q, s), From(p, q, s) \in Shows(u)
      PROVE  From(p, q, s) \in DOMAIN u /\ u[From(p, q, s)] # White
  <2> DEFINE r == From(p, q, s)
  <2>0. r \in Paths /\ Stat(u, r)
    BY <1>3 DEF Shows
  <2> HIDE DEF r
  <2>1. ASSUME r \notin DOMAIN u PROVE FALSE
    <3>1. r # p
      BY <2>1
    <3>2. s # q
      BY <1>0, <3>1, FromIs DEF r
    <3>3. p \in Above(r)
      BY <1>0, <1>3, <2>0, <3>2, FromIs DEF r
    <3>4. r \in LowerChildren(p)
      BY <2>0, <2>1, <3>3 DEF Stat, LowerChildren, Above
    <3> QED BY <1>3, <3>4 DEF r
  <2>2. r \in DOMAIN u /\ u[r] # White
    BY <2>0, <2>1 DEF Stat
  <2> QED BY <2>2 DEF r
<1>4. {s \in DOMAIN m : m[s] # White} = {r \in Paths : IsPrefix(q, r) /\ From(p, q, r) \in Shows(u)}
  <2>1. ASSUME NEW s \in DOMAIN m, m[s] # White PROVE s \in Paths /\ IsPrefix(q, s) /\ From(p, q, s) \in Shows(u)
    BY <1>1, <1>2, <2>1
  <2>2. ASSUME NEW s \in Paths, IsPrefix(q, s), From(p, q, s) \in Shows(u) PROVE s \in DOMAIN m /\ m[s] # White
    BY <1>1, <1>3, <2>2
  <2> QED BY <2>1, <2>2
<1>5. \A s \in DOMAIN m : m[s] # White => m[s] = NodeOf(u, From(p, q, s))
  BY <1>1, <1>2
<1>6. Plainly(m) = [s \in {t \in DOMAIN m : m[t] # White} |-> m[s]]
  BY DEF Plainly, Restrict
<1>7. Plainly(m) = Seen(u, p, q)
  BY <1>4, <1>5, <1>6 DEF Seen
<1> QED BY <1>7 DEF m

\* A rename shows what was at p at q, and it is gone from p.
LEMMA RenameShows ==
  ASSUME NEW u, Sound(u), NEW p \in Shows(u), p \in DOMAIN u, NEW q \in Paths,
         ~IsPrefix(p, q), ~IsPrefix(q, p),
         \A r \in LowerChildren(p) : r \notin Shows(u),
         \A r \in Above(q) \union {q} : r \in DOMAIN u /\ u[r] = White => LowerChildren(r) = {},
         \A r \in Above(q) : Stat(u, r) => NodeOf(u, r) = Dir,
         q \in Shows(u) => NodeOf(u, q) # Dir
  PROVE  LET v == place(removeChild(u, p), q, Moved(u, p, q)) IN
         /\ Sound(v)
         /\ Through(v) \subseteq Through(u)
         /\ Shown(v) = Plain!Graft(Without(u, p), q, Seen(u, p, q))
         /\ \A s \in DOMAIN v : v[s] \in {Dir, White} \/ \E r \in DOMAIN u : v[s] = u[r]
<1> DEFINE w == removeChild(u, p)
           m == Moved(u, p, q)
           v == place(w, q, m)
<1>0. IsTree(u) /\ p \in Paths /\ Above(q) \subseteq Paths
  BY DEF Sound, IsTree, Shows, Above
<1>1. IsSubtree(q, m)
  BY <1>0, MovedIsSubtree
<1>2. /\ DOMAIN m = {s \in Paths : IsPrefix(q, s) /\ From(p, q, s) \in DOMAIN u}
      /\ \A s \in DOMAIN m : m[s] = u[From(p, q, s)]
  BY DEF Moved, From
<1>3. Plainly(m) = Seen(u, p, q)
  BY MovedIsSeen
<1> HIDE DEF m
<1>4. q \in DOMAIN m
  <2>1. From(p, q, q) = p /\ IsPrefix(q, q)
    BY <1>0, FromIs, PrefixOrder
  <2> QED BY <1>2, <2>1
<1>5. /\ Sound(w) /\ Through(w) \subseteq Through(u) /\ Shown(w) = Without(u, p)
      /\ \A r \in DOMAIN w : \/ w[r] = Dir
                             \/ r = p /\ w[r] = White
                             \/ r \in DOMAIN u /\ ~IsPrefix(p, r) /\ w[r] = u[r]
      /\ \A r \in Paths : ~IsPrefix(p, r) => /\ Stat(w, r) <=> Stat(u, r)
                                             /\ Stat(u, r) => NodeOf(w, r) = NodeOf(u, r)
  <2>1. /\ Sound(w) /\ Through(w) \subseteq Through(u)
        /\ Shown(w) = [r \in {s \in Shows(u) : ~IsPrefix(p, s)} |-> NodeOf(u, r)]
    BY RemoveShows
  <2>2. \A r \in DOMAIN w : \/ w[r] = Dir
                            \/ r = p /\ w[r] = White
                            \/ r \in DOMAIN u /\ ~IsPrefix(p, r) /\ w[r] = u[r]
    BY RemoveShows
  <2>3. \A r \in Paths : ~IsPrefix(p, r) => /\ Stat(w, r) <=> Stat(u, r)
                                            /\ Stat(u, r) => NodeOf(w, r) = NodeOf(u, r)
    BY RemoveShows
  <2> HIDE DEF w
  <2> QED BY <2>1, <2>2, <2>3 DEF Without
<1> HIDE DEF w
<1>6. LowerChildren(q) = {}
  BY NothingBelow
<1>7. Clear(w, Above(q))
  <2> SUFFICES ASSUME NEW r \in Above(q)
               PROVE  /\ r \in DOMAIN w /\ w[r] = White => LowerChildren(r) = {}
                      /\ Stat(w, r) => NodeOf(w, r) = Dir
    BY DEF Clear
  <2>1. r \in Paths /\ ~IsPrefix(p, r) /\ r # p
    <3>1. r \in Paths /\ IsPrefix(r, q)
      BY <1>0, AboveIs
    <3> QED BY <1>0, <3>1, PrefixOrder
  <2>2. r \in DOMAIN w /\ w[r] = White => r \in DOMAIN u /\ u[r] = White
    BY <1>5, <2>1 DEF Dir, White
  <2> QED BY <1>5, <2>1, <2>2
<1>8. Sound(v) /\ Through(v) \subseteq Through(w) /\ Shown(v) = Plain!Graft(Shown(w), q, Plainly(m))
  BY <1>1, <1>4, <1>5, <1>6, <1>7, PlaceShows
<1>9. \A r \in DOMAIN v : \/ v[r] = Dir
                          \/ r \in DOMAIN m /\ v[r] = m[r]
                          \/ r \in DOMAIN w /\ v[r] = w[r]
  BY <1>1, <1>4, <1>5, <1>6, <1>7, PlaceShows
<1> HIDE DEF v
<1>10. \A s \in DOMAIN v : v[s] \in {Dir, White} \/ \E r \in DOMAIN u : v[s] = u[r]
  BY <1>2, <1>5, <1>9
<1>11. v = place(removeChild(u, p), q, Moved(u, p, q))
  BY DEF v, w, m
<1> QED BY <1>3, <1>5, <1>8, <1>10, <1>11

\* Renaming something to its own name shows what was there.
LEMMA RenameSelfShows ==
  ASSUME NEW u, Sound(u), NEW p \in Shows(u), p \in DOMAIN u
  PROVE  LET v == place(removeChild(u, p), p, Moved(u, p, p)) IN
         /\ Sound(v)
         /\ Shown(v) = Shown(u) /\ Through(v) = Through(u)
         /\ DOMAIN v = DOMAIN u /\ \A s \in DOMAIN v : v[s] = u[s]
<1> DEFINE w == removeChild(u, p)
           m == Moved(u, p, p)
           v == place(w, p, m)
<1>0. IsTree(u) /\ p \in Paths /\ DOMAIN u \subseteq Paths /\ \A q \in Above(p) : q \in DOMAIN u /\ u[q] = Dir
  BY DEF Sound, IsTree, Shows
<1>1. IsSubtree(p, m)
  BY <1>0, MovedIsSubtree
<1>2. DOMAIN m = {s \in DOMAIN u : IsPrefix(p, s)} /\ \A s \in DOMAIN m : m[s] = u[s]
  <2>1. /\ DOMAIN m = {s \in Paths : IsPrefix(p, s) /\ From(p, p, s) \in DOMAIN u}
        /\ \A s \in DOMAIN m : m[s] = u[From(p, p, s)]
    BY DEF Moved, From
  <2>2. \A s \in Paths : IsPrefix(p, s) => From(p, p, s) = s
    BY <1>0, FromIs
  <2> HIDE DEF m
  <2>3. \A s \in Paths : s \in DOMAIN m <=> IsPrefix(p, s) /\ s \in DOMAIN u
    BY <2>1, <2>2
  <2> QED BY <1>0, <2>1, <2>2, <2>3
<1> HIDE DEF m
<1>3. /\ \A r \in DOMAIN w : \/ w[r] = Dir
                             \/ r = p /\ w[r] = White
                             \/ r \in DOMAIN u /\ ~IsPrefix(p, r) /\ w[r] = u[r]
      /\ \A r \in DOMAIN u : ~IsPrefix(p, r) => r \in DOMAIN w
      /\ \A r \in DOMAIN w : ~IsPrefix(p, r) => r \in DOMAIN u /\ w[r] = u[r]
  <2>1. /\ \A r \in DOMAIN w : \/ w[r] = Dir
                               \/ r = p /\ w[r] = White
                               \/ r \in DOMAIN u /\ ~IsPrefix(p, r) /\ w[r] = u[r]
        /\ \A r \in Paths : ~IsPrefix(p, r) => (r \in DOMAIN u => r \in DOMAIN w)
    BY RemoveShows
  <2>2. w = IF lowerHas(p) THEN place(u, p, At(p, White)) ELSE RemoveTree(u, p)
    BY DEF removeChild
  <2> HIDE DEF w
  <2>3. ASSUME NEW r \in DOMAIN w, ~IsPrefix(p, r) PROVE r \in DOMAIN u /\ w[r] = u[r]
    <3>1. CASE lowerHas(p)
      <4>1. IsSubtree(p, At(p, White)) /\ DOMAIN At(p, White) = {p}
        BY <1>0, AtIsSubtree DEF At, Nodes
      <4>2. /\ DOMAIN w = {q \in DOMAIN u : ~IsPrefix(p, q)} \union Above(p) \union DOMAIN At(p, White)
            /\ \A q \in DOMAIN w : w[q] =
                 IF q \in DOMAIN At(p, White) THEN At(p, White)[q] ELSE IF q \in Above(p) THEN Dir ELSE u[q]
        <5> DEFINE white == At(p, White)
        <5>1. p \in Paths /\ IsSubtree(p, white) /\ w = place(u, p, white)
          BY <1>0, <2>2, <3>1, <4>1
        <5> HIDE DEF white
        <5>2. /\ DOMAIN place(u, p, white) = {q \in DOMAIN u : ~IsPrefix(p, q)} \union Above(p) \union DOMAIN white
              /\ \A q \in DOMAIN place(u, p, white) : place(u, p, white)[q] =
                   IF q \in DOMAIN white THEN white[q] ELSE IF q \in Above(p) THEN Dir ELSE u[q]
          BY <5>1, PlaceIs
        <5> QED BY <5>1, <5>2 DEF white
      <4>3. r # p
        BY <1>0, <2>3, PrefixOrder
      <4> QED BY <1>0, <2>3, <4>1, <4>2, <4>3
    <3>2. CASE ~lowerHas(p)
      BY <2>2, <2>3, <3>2 DEF RemoveTree, Restrict
    <3> QED BY <3>1, <3>2
  <2> QED BY <1>0, <2>1, <2>3
<1>4. /\ DOMAIN v = {r \in DOMAIN w : ~IsPrefix(p, r)} \union Above(p) \union DOMAIN m
      /\ \A r \in DOMAIN v : v[r] = IF r \in DOMAIN m THEN m[r] ELSE IF r \in Above(p) THEN Dir ELSE w[r]
  BY <1>0, <1>1, PlaceIs
<1> HIDE DEF v, w
<1>5. DOMAIN v = DOMAIN u /\ \A s \in DOMAIN v : v[s] = u[s]
  <2>1. DOMAIN v = DOMAIN u
    BY <1>0, <1>2, <1>3, <1>4
  <2>2. ASSUME NEW s \in DOMAIN v PROVE v[s] = u[s]
    BY <1>0, <1>2, <1>3, <1>4
  <2> QED BY <2>1, <2>2
<1>6. Sound(v)
  BY <1>5 DEF Sound, IsTree
<1>7. Shows(v) = Shows(u) /\ \A r \in Paths : NodeOf(v, r) = NodeOf(u, r)
  BY <1>5 DEF Shows, Stat, NodeOf
<1>8. Shown(v) = Shown(u) /\ Through(v) = Through(u)
  BY <1>5, <1>7 DEF Shown, Through, Shows
<1>9. v = place(removeChild(u, p), p, Moved(u, p, p))
  BY DEF v, w, m
<1> QED BY <1>5, <1>6, <1>8, <1>9

----------------------------------------------------------------------------
(* The layers together.                                                    *)

\* The files in use through upper nodes, and through the lower layer.
UpUse(u, o) == {u[p].ino : p \in DOMAIN u} \union {o[f].ino : f \in {g \in Fds : o[g].kind = "upper"}}
LowUse(u, o) == {Lower[p].ino : p \in Through(u)} \union {o[f].ino : f \in {g \in Fds : o[g].kind = "lower"}}

\* A handle on the lower layer is on the file its path has there.
LowerHandles(o) ==
    \A f \in Fds : o[f].kind = "lower" => o[f].path \in DOMAIN Lower /\ Lower[o[f].path] = File(o[f].ino)

\* No file is seen through both layers: copying up moves every user of a lower file.
Apart(u, o) == \A i \in LowUse(u, o) : i # 0 => i \notin UpUse(u, o)

\* A node that is not in use has no bytes left.
Clean == \A i \in Inodes : i \notin UpUse(upper, fds) => content[i] = Empty

LayerInv == Sound(upper) /\ LowerHandles(fds) /\ Apart(upper, fds) /\ Clean
PlainInv == TypeOK /\ LayerInv

LEMMA UseTypes ==
  ASSUME NEW u, IsTree(u), NEW o \in [Fds -> Handles], LowerHandles(o)
  PROVE  /\ UpUse(u, o) \subseteq Ids \union {0} /\ LowUse(u, o) \subseteq DOMAIN LowerData \union {0}
         /\ \A f \in Fds : \/ o[f] = Closed
                           \/ o[f].kind = "upper" /\ o[f].ino \in Ids /\ o[f].ino \in UpUse(u, o)
                           \/ o[f].kind = "lower" /\ o[f].ino \in DOMAIN LowerData /\ o[f].ino \in LowUse(u, o)
         /\ 0 \notin Ids /\ DOMAIN LowerData \subseteq Ids /\ Inodes \subseteq Ids
         /\ \A i \in DOMAIN LowerData : i \notin Inodes
<1>1. 0 \notin Ids /\ DOMAIN LowerData \subseteq Ids /\ Inodes \subseteq Ids /\ \A i \in DOMAIN LowerData : i \notin Inodes
  BY OverlayAssumption DEF Ids
<1>2. \A p \in DOMAIN u : u[p].ino \in Ids \union {0}
  BY DEF IsTree, Nodes, Dir, White, File
<1>3. \A p \in DOMAIN Lower : Lower[p].ino \in DOMAIN LowerData \union {0}
  BY LowerTree DEF Dir, File
<1>4. \A p \in Through(u) : p \in DOMAIN Lower
  BY DEF Through, Shows, Stat
<1>5. ASSUME NEW f \in Fds
      PROVE  \/ o[f] = Closed /\ o[f].kind = "none"
             \/ o[f].kind = "upper" /\ o[f].ino \in Ids
             \/ o[f].kind = "lower" /\ o[f].ino \in DOMAIN LowerData
  <2>1. o[f] \in Handles
    OBVIOUS
  <2>2. CASE o[f].kind = "lower"
    <3>1. o[f].path \in DOMAIN Lower /\ Lower[o[f].path] = File(o[f].ino)
      BY <2>2 DEF LowerHandles
    <3>2. o[f].ino \in DOMAIN LowerData
      BY <3>1, LowerTree DEF Dir, File
    <3> QED BY <2>2, <3>2
  <2> QED BY <2>1, <2>2 DEF Handles, Closed
<1>6. UpUse(u, o) \subseteq Ids \union {0}
  BY <1>2, <1>5 DEF UpUse
<1>7. LowUse(u, o) \subseteq DOMAIN LowerData \union {0}
  BY <1>3, <1>4, <1>5 DEF LowUse
<1>8. \A f \in Fds : \/ o[f] = Closed
                     \/ o[f].kind = "upper" /\ o[f].ino \in Ids /\ o[f].ino \in UpUse(u, o)
                     \/ o[f].kind = "lower" /\ o[f].ino \in DOMAIN LowerData /\ o[f].ino \in LowUse(u, o)
  BY <1>5 DEF UpUse, LowUse
<1> QED BY <1>1, <1>6, <1>7, <1>8

\* What the plain file system has of a file, read off the layers.
LayerData(u, c, o, i) ==
    IF i \in UpUse(u, o) THEN c[i] ELSE IF i \in LowUse(u, o) THEN LowerData[i] ELSE Empty
ViewOfLayers ==
    PlainInv =>
      /\ \A i \in Ids : i \in ViewUsed <=> i \in UpUse(upper, fds) \/ i \in LowUse(upper, fds)
      /\ \A i : InUpperUse(i) <=> i \in UpUse(upper, fds)
      /\ ViewData = [i \in Ids |-> LayerData(upper, content, fds, i)]
      /\ ViewUsed = Plain!Used(ViewTree, ViewFd)
LEMMA ViewIsLayers == ViewOfLayers
<1> SUFFICES ASSUME PlainInv
             PROVE  /\ \A i \in Ids : i \in ViewUsed <=> i \in UpUse(upper, fds) \/ i \in LowUse(upper, fds)
                    /\ \A i : InUpperUse(i) <=> i \in UpUse(upper, fds)
                    /\ ViewData = [i \in Ids |-> LayerData(upper, content, fds, i)]
                    /\ ViewUsed = Plain!Used(ViewTree, ViewFd)
  BY DEF ViewOfLayers
<1>0. /\ IsTree(upper) /\ fds \in [Fds -> Handles] /\ LowerHandles(fds) /\ Apart(upper, fds)
      /\ Dir.ino = 0 /\ White.ino = 0
  BY TypeOKIs DEF PlainInv, LayerInv, Dir, White
<1>1. \A i : InUpperUse(i) <=> i \in UpUse(upper, fds)
  BY DEF InUpperUse, UpUse
<1>2. Visible = Shows(upper) /\ \A p \in Shows(upper) : Node(p) = NodeOf(upper, p)
  BY ViewIsShown DEF ViewShown, Shows
<1>3. ViewUsed = {NodeOf(upper, p).ino : p \in Shows(upper)} \union {fds[f].ino : f \in Fds}
  BY <1>2 DEF ViewUsed
<1>4. ASSUME NEW i \in Ids PROVE i \in ViewUsed <=> i \in UpUse(upper, fds) \/ i \in LowUse(upper, fds)
  <2>0. i # 0
    BY <1>0, UseTypes
  <2>1. ASSUME NEW p \in DOMAIN upper, upper[p].ino = i PROVE i \in ViewUsed
    <3>1. upper[p] # White /\ \A q \in Above(p) : q \in DOMAIN upper /\ upper[q] = Dir
      BY <1>0, <2>0, <2>1 DEF IsTree
    <3>2. p \in Shows(upper) /\ NodeOf(upper, p) = upper[p]
      BY <1>0, <3>1 DEF Shows, Stat, NodeOf, IsTree, Dir, White
    <3> QED BY <1>3, <2>1, <3>2
  <2>2. ASSUME NEW p \in Through(upper), Lower[p].ino = i PROVE i \in ViewUsed
    <3>1. p \in Shows(upper) /\ NodeOf(upper, p) = Lower[p]
      BY DEF Through, NodeOf
    <3> QED BY <1>3, <2>2, <3>1
  <2>3. ASSUME NEW p \in Shows(upper), NodeOf(upper, p).ino = i
        PROVE  i \in UpUse(upper, fds) \/ i \in LowUse(upper, fds)
    BY <2>3 DEF NodeOf, UpUse, LowUse, Through
  <2>4. ASSUME NEW f \in Fds, fds[f].ino = i
        PROVE  i \in UpUse(upper, fds) \/ i \in LowUse(upper, fds)
    BY <1>0, <2>0, <2>4, UseTypes DEF Closed
  <2>5. i \in UpUse(upper, fds) \/ i \in LowUse(upper, fds) =>
          (\E p \in DOMAIN upper : upper[p].ino = i) \/ (\E p \in Through(upper) : Lower[p].ino = i)
          \/ (\E f \in Fds : fds[f].ino = i)
    BY DEF UpUse, LowUse
  <2> QED BY <1>3, <2>1, <2>2, <2>3, <2>4, <2>5
<1>5. ViewData = [i \in Ids |-> LayerData(upper, content, fds, i)]
  <2>1. ASSUME NEW i \in Ids
        PROVE  (IF i \in ViewUsed THEN Bytes(i) ELSE Empty) = LayerData(upper, content, fds, i)
    <3>1. i # 0 /\ (i \in LowUse(upper, fds) => i \in DOMAIN LowerData /\ i \notin UpUse(upper, fds))
      BY <1>0, UseTypes DEF Apart
    <3>2. Bytes(i) = IF i \in DOMAIN LowerData /\ i \notin UpUse(upper, fds) THEN LowerData[i] ELSE content[i]
      BY <1>1 DEF Bytes
    <3> QED BY <1>4, <3>1, <3>2 DEF LayerData
  <2> QED BY <2>1 DEF ViewData
<1>6. ViewUsed = Plain!Used(ViewTree, ViewFd)
  <2>1. DOMAIN ViewTree = Visible /\ \A p \in Visible : ViewTree[p] = Node(p)
    BY DEF ViewTree
  <2>2. DOMAIN ViewFd = Fds /\ \A f \in Fds : ViewFd[f] = fds[f].ino
    BY DEF ViewFd
  <2>3. Plain!Used(ViewTree, ViewFd) = {ViewTree[p].ino : p \in DOMAIN ViewTree} \union {ViewFd[f] : f \in DOMAIN ViewFd}
    BY DEF Plain!Used, Plain!Range
  <2> QED BY <2>1, <2>2, <2>3 DEF ViewUsed
<1> QED BY <1>1, <1>4, <1>5, <1>6

LEMMA ViewIsLayersNext == ViewOfLayers'
BY ViewIsLayers, PTL

\* A step of the overlay is a step of the plain file system: whatever is in use through
\* either layer has the bytes that the plain operation gives it.
LEMMA StepShows ==
  ASSUME PlainInv', NEW v, NEW c, NEW o \in [Fds -> Handles], Becomes(v, c, o), NEW d,
         \A i \in Ids : /\ i \in UpUse(v, o) => d[i] = c[i]
                        /\ i \in LowUse(v, o) => d[i] = LowerData[i]
  PROVE  Plain!Becomes(Shown(v), d, [f \in Fds |-> o[f].ino])
<1> DEFINE fd == [f \in Fds |-> o[f].ino]
<1>1. upper' = v /\ fds' = o /\ content' = [i \in Ids |-> IF i \in Used(v, o) THEN c[i] ELSE Empty]
  BY DEF Becomes
<1>2. ViewTree' = Shown(v) /\ ViewFd' = fd
  BY <1>1, ViewIsShownNext DEF ViewShown, ViewFd
<1>3. /\ IsTree(v) /\ LowerHandles(o) /\ Apart(v, o)
  BY <1>1, TypeOKIs DEF PlainInv, LayerInv, Sound
<1>4. /\ \A i \in Ids : i \in ViewUsed' <=> i \in UpUse(v, o) \/ i \in LowUse(v, o)
      /\ ViewData' = [i \in Ids |-> LayerData(v, content', o, i)]
      /\ ViewUsed' = Plain!Used(ViewTree', ViewFd')
  BY <1>1, ViewIsLayersNext DEF ViewOfLayers
<1>5. \A i \in UpUse(v, o) : i \in Used(v, o)
  BY DEF UpUse, Used
<1>6. ASSUME NEW i \in Ids
      PROVE  LayerData(v, content', o, i) = IF i \in ViewUsed' THEN d[i] ELSE Empty
  <2>1. i \in LowUse(v, o) => i \notin UpUse(v, o)
    BY <1>3, UseTypes DEF Apart
  <2>2. i \in UpUse(v, o) => content'[i] = d[i]
    BY <1>1, <1>5
  <2> QED BY <1>4, <2>1, <2>2 DEF LayerData
<1>7. ViewData' = [i \in Ids |-> IF i \in Plain!Used(ViewTree', ViewFd') THEN d[i] ELSE Empty]
  BY <1>4, <1>6
<1>8. ASSUME NEW f \in Fds
      PROVE  (CASE o[f].kind = "upper" -> content'[o[f].ino]
                [] o[f].kind = "lower" -> LowerData[o[f].ino]
                [] OTHER -> Empty) = IF fd[f] = 0 THEN Empty ELSE d[fd[f]]
  <2>0. fd[f] = o[f].ino
    OBVIOUS
  <2> HIDE DEF fd
  <2>1. CASE o[f] = Closed
    BY <2>0, <2>1 DEF Closed
  <2>2. CASE o[f].kind = "upper" /\ o[f].ino \in Ids /\ o[f].ino \in UpUse(v, o)
    <3>1. o[f].ino # 0 /\ content'[o[f].ino] = d[o[f].ino]
      BY <1>1, <1>3, <1>5, <2>2, UseTypes
    <3> QED BY <2>0, <2>2, <3>1
  <2>3. CASE o[f].kind = "lower" /\ o[f].ino \in DOMAIN LowerData /\ o[f].ino \in LowUse(v, o)
    <3>1. o[f].ino # 0 /\ LowerData[o[f].ino] = d[o[f].ino]
      BY <1>3, <2>3, UseTypes
    <3> QED BY <2>0, <2>3, <3>1
  <2> QED BY <1>3, <2>1, <2>2, <2>3, UseTypes
<1>9. ViewReads' = [f \in Fds |-> IF fd[f] = 0 THEN Empty ELSE d[fd[f]]]
  <2>1. ViewReads' = [f \in Fds |-> CASE o[f].kind = "upper" -> content'[o[f].ino]
                                      [] o[f].kind = "lower" -> LowerData[o[f].ino]
                                      [] OTHER -> Empty]
    BY <1>1 DEF ViewReads
  <2> QED BY <1>8, <2>1
<1> HIDE DEF fd
<1>10. Plain!Becomes(Shown(v), d, fd)
  BY <1>2, <1>7, <1>9 DEF Plain!Becomes
<1> QED BY <1>10 DEF fd

\* What keeps the layers apart: nothing more is seen through the lower one, and what is
\* newly in use above is new or is not seen through the lower one any longer.
LEMMA LayersKept ==
  ASSUME PlainInv, TypeOK', NEW v, NEW c, NEW o \in [Fds -> Handles], Becomes(v, c, o), Sound(v), LowerHandles(o),
         LowUse(v, o) \subseteq LowUse(upper, fds) \union {0},
         \A i \in UpUse(v, o) : i \in UpUse(upper, fds) \/ i \in Inodes \union {0} \/ i \notin LowUse(v, o)
  PROVE  PlainInv'
<1>1. upper' = v /\ fds' = o /\ content' = [i \in Ids |-> IF i \in Used(v, o) THEN c[i] ELSE Empty]
  BY DEF Becomes
<1>2. Apart(upper, fds) /\ IsTree(v)
  BY DEF PlainInv, LayerInv, Sound
<1>3. Apart(v, o)
  <2> SUFFICES ASSUME NEW i \in LowUse(v, o), i # 0, i \in UpUse(v, o) PROVE FALSE
    BY DEF Apart
  <2>1. i \in DOMAIN LowerData /\ i \notin Inodes
    BY <1>2, UseTypes
  <2>2. i \in LowUse(upper, fds)
    OBVIOUS
  <2> QED BY <1>2, <2>1, <2>2 DEF Apart
<1>4. ASSUME NEW i \in Inodes, i \notin UpUse(v, o) PROVE content'[i] = Empty
  <2>0. i \in Ids /\ i # 0 /\ i \notin DOMAIN LowerData
    BY <1>2, UseTypes
  <2>1. \A f \in Fds : o[f].ino # i
    BY <1>2, <1>4, <2>0, UseTypes DEF Closed
  <2>2. i \notin Used(v, o)
    BY <1>4, <2>1 DEF Used, UpUse
  <2> QED BY <1>1, <2>0, <2>2
<1>5. Clean'
  BY <1>1, <1>4 DEF Clean
<1> QED BY <1>1, <1>3, <1>5 DEF PlainInv, LayerInv

\* What the plain file system has now of the files in use.
LEMMA DataIs ==
  ASSUME PlainInv, NEW i \in Ids
  PROVE  /\ i \in UpUse(upper, fds) => ViewData[i] = content[i]
         /\ i \in LowUse(upper, fds) => ViewData[i] = LowerData[i]
         /\ i \in Inodes /\ i \notin UpUse(upper, fds) =>
               ViewData[i] = Empty /\ content[i] = Empty /\ i \notin Plain!Used(ViewTree, ViewFd)
<1>0. /\ IsTree(upper) /\ fds \in [Fds -> Handles] /\ LowerHandles(fds) /\ Apart(upper, fds) /\ Clean
  BY TypeOKIs DEF PlainInv, LayerInv
<1>1. /\ i # 0 /\ (i \in LowUse(upper, fds) => i \in DOMAIN LowerData /\ i \notin UpUse(upper, fds))
      /\ i \in Inodes => i \notin LowUse(upper, fds)
  BY <1>0, UseTypes DEF Apart
<1>2. /\ i \in ViewUsed <=> i \in UpUse(upper, fds) \/ i \in LowUse(upper, fds)
      /\ ViewData = [j \in Ids |-> LayerData(upper, content, fds, j)]
      /\ ViewUsed = Plain!Used(ViewTree, ViewFd)
  BY ViewIsLayers DEF ViewOfLayers
<1>3. ViewData[i] = LayerData(upper, content, fds, i)
  BY <1>2
<1> QED BY <1>0, <1>1, <1>2, <1>3 DEF LayerData, Clean

\* An outcome that keeps the layers apart and has, of what is in use, the contents d.
Keeps(v, c, o, d) ==
    /\ o \in [Fds -> Handles] /\ Sound(v) /\ LowerHandles(o)
    /\ LowUse(v, o) \subseteq LowUse(upper, fds) \union {0}
    /\ \A i \in UpUse(v, o) : i \in UpUse(upper, fds) \/ i \in Inodes \union {0} \/ i \notin LowUse(v, o)
    /\ \A i \in Ids : /\ i \in UpUse(v, o) => d[i] = c[i]
                      /\ i \in LowUse(v, o) => d[i] = LowerData[i]

\* An operation with such an outcome is the plain operation.
LEMMA OperationShows ==
  ASSUME PlainInv, TypeOK', NEW v, NEW c, NEW o, Becomes(v, c, o), NEW d, Keeps(v, c, o, d)
  PROVE  PlainInv' /\ Plain!Becomes(Shown(v), d, [f \in Fds |-> o[f].ino])
<1>0. /\ o \in [Fds -> Handles] /\ Sound(v) /\ LowerHandles(o)
      /\ LowUse(v, o) \subseteq LowUse(upper, fds) \union {0}
      /\ \A i \in UpUse(v, o) : i \in UpUse(upper, fds) \/ i \in Inodes \union {0} \/ i \notin LowUse(v, o)
      /\ \A i \in Ids : /\ i \in UpUse(v, o) => d[i] = c[i]
                        /\ i \in LowUse(v, o) => d[i] = LowerData[i]
  BY DEF Keeps
<1>1. PlainInv'
  BY <1>0, LayersKept
<1> QED BY <1>0, <1>1, StepShows

\* The lower layer has a file under one name.
LEMMA LowerNames ==
  \A p, q \in DOMAIN Lower : Lower[p] # Dir /\ Lower[p].ino = Lower[q].ino => p = q
<1> SUFFICES ASSUME NEW p \in DOMAIN Lower, NEW q \in DOMAIN Lower, Lower[p] # Dir, Lower[p].ino = Lower[q].ino
             PROVE  p = q
  OBVIOUS
<1>1. PICK i \in DOMAIN LowerData : Lower[p] = File(i)
  BY LowerTree
<1>2. i # 0
  BY OverlayAssumption DEF Ids
<1>3. PICK j \in DOMAIN LowerData : Lower[q] = File(j)
  BY <1>1, <1>2, LowerTree DEF Dir, File
<1>4. Lower[p] = Lower[q]
  BY <1>1, <1>3 DEF File
<1> QED BY <1>4, OverlayAssumption

\* Copying up changes nothing that is shown. A lower file that no descriptor is open on
\* belongs to the upper layer then.
LEMMA CopiedUp ==
  ASSUME PlainInv, NEW p \in Shows(upper), CanCopyUp(p)
  PROVE  LET t == copyUp(p).tree
             d == copyUp(p).data
             n == NodeOf(upper, p) IN
         /\ Sound(t) /\ d \in [Ids -> Data]
         /\ Shows(t) = Shows(upper) /\ Shown(t) = Shown(upper) /\ p \in DOMAIN t /\ t[p] = n
         /\ Through(t) \subseteq Through(upper) \ {p}
         /\ \A q \in Paths : /\ Stat(t, q) <=> Stat(upper, q)
                             /\ NodeOf(t, q) = NodeOf(upper, q)
                             /\ q \in DOMAIN t /\ t[q] = White => q \in DOMAIN upper /\ upper[q] = White
         /\ \A q \in DOMAIN t : t[q] \in {Dir, n} \/ (q \in DOMAIN upper /\ t[q] = upper[q])
         /\ \A i \in Ids : i \in UpUse(upper, fds) \/ i = n.ino => d[i] = ViewData[i]
         /\ p \notin DOMAIN upper /\ n # Dir => \A q \in Through(t) : Lower[q].ino # n.ino
<1> DEFINE n == NodeOf(upper, p)
<1>0. /\ Sound(upper) /\ Apart(upper, fds) /\ TypeOK /\ content \in [Ids -> Data] /\ fds \in [Fds -> Handles]
      /\ LowerHandles(fds) /\ IsTree(upper)
  BY TypeOKIs DEF PlainInv, LayerInv
<1>1. p \in Paths /\ Stat(upper, p) /\ DOMAIN upper \subseteq Paths
  BY <1>0 DEF Shows, IsTree
<1>2. inUpper(p) <=> p \in DOMAIN upper
  BY <1>1 DEF inUpper, Stat
<1>3. CASE p \in DOMAIN upper
  <2> DEFINE t == upper
             d == content
  <2>1. copyUp(p) = [tree |-> t, data |-> d]
    BY <1>2, <1>3 DEF copyUp
  <2>2. upper[p] = n /\ Through(upper) \subseteq Through(upper) \ {p}
    BY <1>3 DEF NodeOf, Through
  <2>3. n.ino \in UpUse(upper, fds)
    BY <1>3, <2>2 DEF UpUse
  <2>4. \A i \in Ids : i \in UpUse(upper, fds) \/ i = n.ino => content[i] = ViewData[i]
    BY <2>3, DataIs
  <2> HIDE DEF n
  <2> QED BY <1>0, <1>3, <2>1, <2>2, <2>4 DEF n
<1>4. CASE p \notin DOMAIN upper
  <2>1. p \in Through(upper) /\ n = Lower[p] /\ p \in DOMAIN Lower
    BY <1>1, <1>4 DEF Through, NodeOf, Stat
  <2>2. n.ino \in LowUse(upper, fds)
    BY <2>1 DEF LowUse
  <2> DEFINE t == place(upper, p, At(p, Lower[p]))
  <2>3. /\ Sound(t) /\ p \in DOMAIN t /\ t[p] = Lower[p]
        /\ Through(t) \subseteq Through(upper) \ {p}
        /\ Shows(t) = Shows(upper) /\ Shown(t) = Shown(upper)
        /\ \A q \in Paths : /\ Stat(t, q) <=> Stat(upper, q)
                            /\ NodeOf(t, q) = NodeOf(upper, q)
                            /\ q \in DOMAIN upper => q \in DOMAIN t /\ t[q] = upper[q]
                            /\ q \in DOMAIN t => t[q] \in {Dir, Lower[p]} \/ (q \in DOMAIN upper /\ t[q] = upper[q])
                            /\ q \in DOMAIN t /\ t[q] = White => q \in DOMAIN upper /\ upper[q] = White
    BY <1>0, <1>4, CopyUpShows
  <2>4. \A q \in Through(t) : Lower[p] # Dir => Lower[q].ino # Lower[p].ino
    <3>1. \A q \in Through(t) : q \in DOMAIN Lower /\ q # p
      BY <2>3 DEF Through, Shows, Stat
    <3> QED BY <2>1, <3>1, LowerNames
  <2>t. DOMAIN t \subseteq Paths
    BY <2>3 DEF Sound, IsTree
  <2>5. copyUp(p).tree = t /\ \A i \in Ids : i \in UpUse(upper, fds) \/ i = n.ino => copyUp(p).data[i] = ViewData[i]
    <3>1. CASE Lower[p] = Dir
      <4>1. copyUp(p) = [tree |-> t, data |-> content]
        BY <1>2, <1>4, <3>1 DEF copyUp
      <4>2. n.ino \notin Ids
        BY <2>1, <3>1, OverlayAssumption DEF Dir
      <4> HIDE DEF t, n
      <4> QED BY <4>1, <4>2, DataIs
    <3>2. CASE Lower[p] # Dir
      <4>1. PICK l \in DOMAIN LowerData : Lower[p] = File(l)
        BY <2>1, <3>2, LowerTree
      <4>2. l # 0 /\ l \in Ids /\ n.ino = l
        BY <2>1, <4>1, OverlayAssumption DEF Ids, File
      <4>3. l \notin UpUse(upper, fds)
        BY <1>0, <2>2, <4>2 DEF Apart
      <4>4. ~InUpperUse(l)
        BY <4>3 DEF InUpperUse, UpUse
      <4>5. UpNode(p) = l /\ File(UpNode(p)) = Lower[p]
        BY <4>1, <4>4 DEF UpNode, File
      <4>6. copyUp(p) = [tree |-> t, data |-> [content EXCEPT ![l] = LowerData[l]]]
        BY <1>2, <1>4, <3>2, <4>1, <4>5 DEF copyUp, File
      <4>7. ViewData[l] = LowerData[l] /\ \A i \in Ids : i \in UpUse(upper, fds) => ViewData[i] = content[i]
        BY <2>2, <4>2, DataIs
      <4> HIDE DEF t, n
      <4> QED BY <1>0, <4>2, <4>3, <4>6, <4>7
    <3> QED BY <3>1, <3>2
  <2>6. copyUp(p).data \in [Ids -> Data]
    BY <1>0, <1>1, <1>2, <1>4, <2>1, CopyUpTyped DEF lowerHas
  <2> HIDE DEF t, n
  <2>7. /\ \A q \in Paths : /\ Stat(t, q) <=> Stat(upper, q)
                            /\ NodeOf(t, q) = NodeOf(upper, q)
                            /\ q \in DOMAIN t /\ t[q] = White => q \in DOMAIN upper /\ upper[q] = White
        /\ \A q \in DOMAIN t : t[q] \in {Dir, n} \/ (q \in DOMAIN upper /\ t[q] = upper[q])
    BY <2>1, <2>3, <2>t
  <2> QED BY <2>1, <2>3, <2>4, <2>5, <2>6, <2>7 DEF n
<1> QED BY <1>3, <1>4

----------------------------------------------------------------------------
(* Every operation is the plain one.                                       *)

\* What the plain guards look at.
LEMMA PlainIs ==
  /\ \A p : p \in DOMAIN ViewTree <=> p \in Shows(upper)
  /\ \A p \in Shows(upper) : ViewTree[p] = NodeOf(upper, p)
  /\ \A p, typ : Plain!Is(p, typ) <=> p \in Shows(upper) /\ NodeOf(upper, p).typ = typ
  /\ \A f \in Fds : ViewFd[f] = fds[f].ino
<1>1. ViewTree = [p \in Shows(upper) |-> NodeOf(upper, p)]
  BY ViewIsShown DEF ViewShown, Shown
<1>2. \A p, typ : Plain!Is(p, typ) <=> p \in DOMAIN ViewTree /\ ViewTree[p].typ = typ
  BY DEF Plain!Is
<1> QED BY <1>1, <1>2 DEF ViewFd

\* The descriptors after f is opened on a file.
LEMMA FdsAfter ==
  ASSUME NEW f \in Fds, fds \in [Fds -> Handles], NEW h \in Handles
  PROVE  LET o == [fds EXCEPT ![f] = h] IN
         /\ o \in [Fds -> Handles] /\ o[f] = h /\ \A g \in Fds \ {f} : o[g] = fds[g]
         /\ [g \in Fds |-> o[g].ino] = [ViewFd EXCEPT ![f] = h.ino]
<1> DEFINE o == [fds EXCEPT ![f] = h]
<1>1. o \in [Fds -> Handles] /\ o[f] = h /\ \A g \in Fds \ {f} : o[g] = fds[g]
  OBVIOUS
<1> HIDE DEF o
<1>2. [ViewFd EXCEPT ![f] = h.ino] = [g \in Fds |-> IF g = f THEN h.ino ELSE fds[g].ino]
  BY DEF ViewFd
<1>3. [g \in Fds |-> o[g].ino] = [g \in Fds |-> IF g = f THEN h.ino ELSE fds[g].ino]
  BY <1>1
<1> QED BY <1>1, <1>2, <1>3 DEF o

LEMMA FileNode ==
  ASSUME PlainInv, NEW p \in Paths, IsFile(p)
  PROVE  /\ p \in Shows(upper) /\ Node(p) = NodeOf(upper, p) /\ Node(p).typ = "file" /\ Node(p) # Dir
         /\ Node(p).ino \in Ids /\ Node(p) = File(Node(p).ino)
         /\ inUpper(p) <=> p \in DOMAIN upper
         /\ p \notin DOMAIN upper => p \in DOMAIN Lower /\ p \in Through(upper) /\ Node(p) = Lower[p]
<1>1. eval(p) /\ Node(p).typ = "file"
  BY DEF IsFile
<1>2. p \in Shows(upper) /\ Node(p) = NodeOf(upper, p) /\ statNode(p) /\ Stat(upper, p)
  BY <1>1, ViewIsShown DEF ViewShown, eval, Shows
<1>3. Node(p).ino \in Ids
  BY <1>1, <1>2, NodeTypes DEF PlainInv
<1>4. inUpper(p) <=> p \in DOMAIN upper
  BY <1>2 DEF inUpper, Stat
<1>5. p \notin DOMAIN upper => p \in DOMAIN Lower /\ p \in Through(upper) /\ Node(p) = Lower[p]
  BY <1>2 DEF Stat, Through, NodeOf
<1>6. Node(p) = File(Node(p).ino)
  <2>1. p \in DOMAIN upper => Node(p) \in Nodes
    BY <1>2 DEF PlainInv, TypeOK, IsTree, NodeOf
  <2>2. p \notin DOMAIN upper => \E i \in DOMAIN LowerData : Node(p) = File(i)
    BY <1>1, <1>5, LowerTree DEF Dir
  <2> QED BY <1>1, <2>1, <2>2 DEF Nodes, Dir, White, File
<1> QED BY <1>1, <1>2, <1>3, <1>4, <1>5, <1>6 DEF Dir

LEMMA OpenReadShows ==
  ASSUME PlainInv, TypeOK', NEW f \in Fds, NEW p \in Paths, OpenRead(f, p)
  PROVE  PlainInv' /\ Plain!OpenFile(f, p)
<1> DEFINE kind == IF inUpper(p) THEN "upper" ELSE "lower"
           i == Node(p).ino
           h == Opened(kind, i, p)
           o == [fds EXCEPT ![f] = h]
<1>0. fds[f] = Closed /\ IsFile(p) /\ Becomes(upper, content, o)
  BY DEF OpenRead
<1>1. /\ p \in Shows(upper) /\ Node(p) = NodeOf(upper, p) /\ Node(p).typ = "file" /\ Node(p) # Dir
      /\ i \in Ids /\ Node(p) = File(i)
      /\ inUpper(p) <=> p \in DOMAIN upper
      /\ p \notin DOMAIN upper => p \in DOMAIN Lower /\ p \in Through(upper) /\ Node(p) = Lower[p]
  BY <1>0, FileNode
<1>2. /\ Sound(upper) /\ fds \in [Fds -> Handles] /\ LowerHandles(fds) /\ Apart(upper, fds)
  BY TypeOKIs DEF PlainInv, LayerInv
<1>3. h \in Handles /\ h.ino = i /\ h.kind = kind /\ h.path = p
  BY <1>1 DEF Handles, Opened
<1> HIDE DEF h
<1>4. /\ o \in [Fds -> Handles] /\ o[f] = h /\ \A g \in Fds \ {f} : o[g] = fds[g]
      /\ [g \in Fds |-> o[g].ino] = [ViewFd EXCEPT ![f] = i]
  BY <1>2, <1>3, FdsAfter
<1> HIDE DEF o, i
<1>5. LowerHandles(o)
  BY <1>1, <1>2, <1>3, <1>4 DEF LowerHandles
<1>6. LowUse(upper, o) \subseteq LowUse(upper, fds) \union {0}
  <2>1. kind = "lower" => i \in LowUse(upper, fds)
    BY <1>1 DEF LowUse, i
  <2> QED BY <1>3, <1>4, <2>1 DEF LowUse
<1>7. UpUse(upper, o) \subseteq UpUse(upper, fds)
  <2>1. kind = "upper" => i \in UpUse(upper, fds)
    BY <1>1 DEF UpUse, i, NodeOf
  <2> QED BY <1>3, <1>4, <2>1 DEF UpUse
<1>8. ASSUME NEW j \in Ids PROVE /\ j \in UpUse(upper, o) => ViewData[j] = content[j]
                                 /\ j \in LowUse(upper, o) => ViewData[j] = LowerData[j]
  <2>1. j # 0
    BY OverlayAssumption
  <2> QED BY <1>6, <1>7, <2>1, DataIs
<1>k. Keeps(upper, content, o, ViewData)
  BY <1>2, <1>4, <1>5, <1>6, <1>7, <1>8 DEF Keeps
<1>b. Becomes(upper, content, o)
  BY <1>0 DEF o
<1>9. PlainInv' /\ Plain!Becomes(Shown(upper), ViewData, [g \in Fds |-> o[g].ino])
  BY <1>b, <1>k, OperationShows
<1>10. Plain!Becomes(ViewTree, ViewData, [ViewFd EXCEPT ![f] = ViewTree[p].ino])
  <2>1. ViewTree[p].ino = i /\ ViewTree = Shown(upper)
    BY <1>1, PlainIs, ViewIsShown DEF ViewShown, i
  <2> QED BY <1>4, <1>9, <2>1
<1>11. ViewFd[f] = 0 /\ Plain!Is(p, "file")
  <2>1. ViewFd[f] = fds[f].ino /\ fds[f].ino = 0
    BY <1>0, PlainIs DEF Closed
  <2>2. NodeOf(upper, p).typ = "file"
    BY <1>1
  <2> QED BY <1>1, <2>1, <2>2, PlainIs
<1> QED BY <1>9, <1>10, <1>11 DEF Plain!OpenFile

\* A lower file that is copied up is not in use through the lower layer any longer.
LEMMA LeftBelow ==
  ASSUME PlainInv, NEW p \in Paths, p \in Through(upper), Lower[p] # Dir, NEW t,
         \A q \in Through(t) : Lower[q].ino # Lower[p].ino,
         NEW o \in [Fds -> Handles], LowerHandles(o), \A g \in Fds : o[g].kind = "lower" => o[g].path # p
  PROVE  Lower[p].ino \notin LowUse(t, o)
<1>1. p \in DOMAIN Lower
  BY DEF Through, Shows, Stat
<1>2. \A g \in Fds : o[g].kind = "lower" => Lower[p].ino # o[g].ino
  <2> SUFFICES ASSUME NEW g \in Fds, o[g].kind = "lower", Lower[p].ino = o[g].ino PROVE FALSE
    OBVIOUS
  <2>1. o[g].path \in DOMAIN Lower /\ Lower[o[g].path] = File(o[g].ino) /\ o[g].path # p
    BY DEF LowerHandles
  <2> QED BY <1>1, <2>1, LowerNames DEF File
<1> QED BY <1>2 DEF LowUse


\* Opening p through the upper layer, after it is copied up.
LEMMA CopyUpAndOpen ==
  ASSUME PlainInv, TypeOK', NEW f \in Fds, NEW p \in Shows(upper), NEW i \in Ids, NodeOf(upper, p) = File(i),
         CanCopyUp(p),
         p \in DOMAIN upper \/ \A g \in Fds \ {f} : fds[g].kind = "lower" => fds[g].path # p,
         NEW c, NEW d,
         \A j \in Ids : j = i \/ j \in UpUse(upper, fds) => d[j] = c[j],
         \A j \in Ids : j # i => d[j] = ViewData[j],
         Becomes(copyUp(p).tree, c, [fds EXCEPT ![f] = Opened("upper", i, p)])
  PROVE  PlainInv' /\ Plain!Becomes(ViewTree, d, [ViewFd EXCEPT ![f] = i])
<1> DEFINE t == copyUp(p).tree
           h == Opened("upper", i, p)
           o == [fds EXCEPT ![f] = h]
<1>0. /\ fds \in [Fds -> Handles] /\ LowerHandles(fds) /\ Apart(upper, fds) /\ IsTree(upper)
      /\ p \in Paths /\ Stat(upper, p) /\ File(i) # Dir /\ File(i).ino = i /\ i # 0
      /\ Dir.ino = 0
  BY TypeOKIs, OverlayAssumption DEF PlainInv, LayerInv, Shows, Dir, File
<1>1. /\ Sound(t) /\ Shown(t) = Shown(upper)
      /\ Through(t) \subseteq Through(upper)
      /\ \A q \in DOMAIN t : t[q] \in {Dir, File(i)} \/ (q \in DOMAIN upper /\ t[q] = upper[q])
      /\ p \notin DOMAIN upper => \A q \in Through(t) : Lower[q].ino # i
  BY <1>0, CopiedUp
<1>2. h \in Handles /\ h.ino = i /\ h.kind = "upper" /\ h.path = p
  BY <1>0 DEF Handles, Opened
<1> HIDE DEF h
<1>3. /\ o \in [Fds -> Handles] /\ o[f] = h /\ \A g \in Fds \ {f} : o[g] = fds[g]
      /\ [g \in Fds |-> o[g].ino] = [ViewFd EXCEPT ![f] = i]
  BY <1>0, <1>2, FdsAfter
<1>b. Becomes(t, c, o)
  BY DEF h
<1> HIDE DEF o, t
<1>4. LowerHandles(o)
  BY <1>0, <1>2, <1>3 DEF LowerHandles
<1>5. LowUse(t, o) \subseteq LowUse(upper, fds)
  BY <1>1, <1>2, <1>3 DEF LowUse
<1>6. \A j \in UpUse(t, o) : j \in UpUse(upper, fds) \/ j = i \/ j = 0
  <2>1. \A q \in DOMAIN t : t[q].ino = 0 \/ t[q].ino = i \/ t[q].ino \in UpUse(upper, fds)
    BY <1>0, <1>1 DEF UpUse
  <2>2. \A g \in Fds : o[g].kind = "upper" => o[g].ino = i \/ o[g].ino \in UpUse(upper, fds)
    BY <1>2, <1>3 DEF UpUse
  <2> QED BY <2>1, <2>2 DEF UpUse
<1>7. i \in UpUse(upper, fds) \/ i \notin LowUse(t, o)
  <2>1. CASE p \in DOMAIN upper
    <3>1. upper[p] = File(i)
      BY <2>1 DEF NodeOf
    <3> QED BY <1>0, <2>1, <3>1 DEF UpUse
  <2>2. CASE p \notin DOMAIN upper
    <3>1. p \in Through(upper) /\ Lower[p] = File(i)
      BY <2>2 DEF Through, NodeOf
    <3>2. \A g \in Fds : o[g].kind = "lower" => o[g].path # p
      BY <1>2, <1>3, <2>2
    <3>3. \A q \in Through(t) : Lower[q].ino # Lower[p].ino
      BY <1>0, <1>1, <2>2, <3>1
    <3>4. Lower[p] # Dir /\ Lower[p].ino = i
      BY <1>0, <3>1
    <3> QED BY <1>0, <1>3, <1>4, <3>1, <3>2, <3>3, <3>4, LeftBelow
  <2> QED BY <2>1, <2>2
<1>8. ASSUME NEW j \in Ids PROVE /\ j \in UpUse(t, o) => d[j] = c[j]
                                 /\ j \in LowUse(t, o) => d[j] = LowerData[j]
  <2>1. j # 0
    BY OverlayAssumption
  <2>2. j \in UpUse(t, o) => d[j] = c[j]
    BY <1>6, <2>1
  <2>3. j \in LowUse(t, o) => j \in LowUse(upper, fds) /\ j # i
    BY <1>0, <1>5, <1>7 DEF Apart
  <2>4. j \in LowUse(upper, fds) => ViewData[j] = LowerData[j]
    BY DataIs
  <2> QED BY <2>2, <2>3, <2>4
<1>9. Keeps(t, c, o, d)
  BY <1>1, <1>3, <1>4, <1>5, <1>6, <1>7, <1>8 DEF Keeps
<1>10. PlainInv' /\ Plain!Becomes(Shown(t), d, [g \in Fds |-> o[g].ino])
  BY <1>b, <1>9, OperationShows
<1> QED BY <1>1, <1>3, <1>10, ViewIsShown DEF ViewShown

LEMMA OpenWriteShows ==
  ASSUME Gaps = {}, PlainInv, TypeOK', NEW f \in Fds, NEW p \in Paths, NEW trunc \in BOOLEAN,
         OpenWrite(f, p, trunc)
  PROVE  PlainInv' /\ (Plain!OpenFile(f, p) \/ Plain!OpenTrunc(f, p))
<1> DEFINE up == copyUp(p)
           i == Node(p).ino
           c == IF trunc THEN [up.data EXCEPT ![i] = Empty] ELSE up.data
           d == IF trunc THEN [ViewData EXCEPT ![i] = Empty] ELSE ViewData
<1>1. /\ fds[f] = Closed /\ IsFile(p) /\ CanCopyUp(p) /\ KeepsHandles(p, Fds)
      /\ Becomes(up.tree, IF trunc THEN [up.data EXCEPT ![up.tree[p].ino] = Empty] ELSE up.data,
                 [fds EXCEPT ![f] = Opened("upper", up.tree[p].ino, p)])
  BY DEF OpenWrite
<1>2. /\ p \in Shows(upper) /\ Node(p) = NodeOf(upper, p) /\ Node(p).typ = "file"
      /\ i \in Ids /\ NodeOf(upper, p) = File(i) /\ (inUpper(p) <=> p \in DOMAIN upper)
  BY <1>1, FileNode
<1>3. p \in DOMAIN upper \/ \A g \in Fds \ {f} : fds[g].kind = "lower" => fds[g].path # p
  BY <1>1, <1>2 DEF KeepsHandles, Gap
<1>4. /\ up.tree[p].ino = i /\ up.data \in [Ids -> Data]
      /\ \A j \in Ids : j \in UpUse(upper, fds) \/ j = i => up.data[j] = ViewData[j]
  <2>1. /\ up.tree[p] = NodeOf(upper, p) /\ up.data \in [Ids -> Data]
        /\ \A j \in Ids : j \in UpUse(upper, fds) \/ j = NodeOf(upper, p).ino => up.data[j] = ViewData[j]
    <3>1. p \in Shows(upper) /\ CanCopyUp(p)
      BY <1>1, <1>2
    <3> HIDE DEF i
    <3> QED BY <3>1, CopiedUp
  <2>2. NodeOf(upper, p).ino = i
    BY <1>2
  <2> QED BY <2>1, <2>2
<1>5. DOMAIN ViewData = Ids
  BY DEF ViewData
<1> HIDE DEF up, i
<1>6. /\ \A j \in Ids : j = i \/ j \in UpUse(upper, fds) => d[j] = c[j]
      /\ \A j \in Ids : j # i => d[j] = ViewData[j]
  BY <1>2, <1>4, <1>5
<1>7. Becomes(copyUp(p).tree, c, [fds EXCEPT ![f] = Opened("upper", i, p)])
  BY <1>1, <1>4 DEF up
<1> HIDE DEF c, d
<1>8. PlainInv' /\ Plain!Becomes(ViewTree, d, [ViewFd EXCEPT ![f] = i])
  BY <1>1, <1>2, <1>3, <1>6, <1>7, CopyUpAndOpen
<1>9. ViewFd[f] = 0 /\ Plain!Is(p, "file") /\ ViewTree[p].ino = i
  <2>1. ViewFd[f] = fds[f].ino /\ fds[f].ino = 0
    BY <1>1, PlainIs DEF Closed
  <2>2. NodeOf(upper, p).typ = "file"
    BY <1>2
  <2> QED BY <1>2, <2>1, <2>2, PlainIs DEF i
<1> QED BY <1>8, <1>9 DEF d, Plain!OpenFile, Plain!OpenTrunc

LEMMA TruncateShows ==
  ASSUME Gaps = {}, PlainInv, TypeOK', NEW f \in Fds, Truncate(f)
  PROVE  PlainInv' /\ Plain!Write(f, Empty)
<1> DEFINE p == fds[f].path
           up == copyUp(p)
           i == Node(p).ino
           c == [up.data EXCEPT ![i] = Empty]
           d == [ViewData EXCEPT ![i] = Empty]
<1>1. /\ fds[f] # Closed /\ IsFile(p) /\ i = fds[f].ino /\ CanCopyUp(p) /\ KeepsHandles(p, Fds \ {f})
      /\ Becomes(up.tree, [up.data EXCEPT ![up.tree[p].ino] = Empty],
                 [fds EXCEPT ![f] = Opened("upper", up.tree[p].ino, p)])
  BY DEF Truncate, Gap
<1>0. p \in Paths
  BY <1>1, TypeOKIs DEF PlainInv, Handles
<1> HIDE DEF p
<1>2. /\ p \in Shows(upper) /\ Node(p) = NodeOf(upper, p)
      /\ i \in Ids /\ NodeOf(upper, p) = File(i) /\ (inUpper(p) <=> p \in DOMAIN upper)
  BY <1>0, <1>1, FileNode
<1>3. p \in DOMAIN upper \/ \A g \in Fds \ {f} : fds[g].kind = "lower" => fds[g].path # p
  BY <1>1, <1>2 DEF KeepsHandles, Gap
<1>4. /\ up.tree[p].ino = i /\ up.data \in [Ids -> Data]
      /\ \A j \in Ids : j \in UpUse(upper, fds) \/ j = i => up.data[j] = ViewData[j]
  <2>1. /\ up.tree[p] = NodeOf(upper, p) /\ up.data \in [Ids -> Data]
        /\ \A j \in Ids : j \in UpUse(upper, fds) \/ j = NodeOf(upper, p).ino => up.data[j] = ViewData[j]
    <3>1. p \in Shows(upper) /\ CanCopyUp(p)
      BY <1>1, <1>2
    <3> HIDE DEF i
    <3> QED BY <3>1, CopiedUp
  <2>2. NodeOf(upper, p).ino = i
    BY <1>2
  <2> QED BY <2>1, <2>2
<1>5. DOMAIN ViewData = Ids
  BY DEF ViewData
<1> HIDE DEF up, i
<1>6. /\ \A j \in Ids : j = i \/ j \in UpUse(upper, fds) => d[j] = c[j]
      /\ \A j \in Ids : j # i => d[j] = ViewData[j]
  BY <1>2, <1>4, <1>5
<1>7. Becomes(copyUp(p).tree, c, [fds EXCEPT ![f] = Opened("upper", i, p)])
  BY <1>1, <1>4 DEF up
<1> HIDE DEF c, d
<1>8. PlainInv' /\ Plain!Becomes(ViewTree, d, [ViewFd EXCEPT ![f] = i])
  BY <1>1, <1>2, <1>3, <1>6, <1>7, CopyUpAndOpen
<1>9. ViewFd[f] = i /\ i # 0 /\ [ViewFd EXCEPT ![f] = i] = ViewFd
  <2>1. ViewFd[f] = i
    BY <1>1, PlainIs
  <2>2. i # 0
    BY <1>2, OverlayAssumption
  <2>3. ViewFd = [g \in Fds |-> ViewFd[g]]
    BY DEF ViewFd
  <2> QED BY <2>1, <2>2, <2>3
<1> QED BY <1>8, <1>9 DEF d, Plain!Write

\* An outcome in which nothing more is in use than before, but the new files in N.
Uses(v, c, o, d, N) ==
    /\ Sound(v) /\ Through(v) \subseteq Through(upper) /\ N \subseteq Inodes
    /\ o \in [Fds -> Handles] /\ LowerHandles(o)
    /\ \A q \in DOMAIN v : v[q].ino \in UpUse(upper, fds) \union N \union {0}
    /\ \A g \in Fds : /\ o[g].kind = "upper" => o[g].ino \in UpUse(upper, fds) \union N
                      /\ o[g].kind = "lower" => o[g].ino \in LowUse(upper, fds)
    /\ \A j \in Ids : /\ j \in UpUse(upper, fds) \union N => d[j] = c[j]
                      /\ j \in LowUse(upper, fds) => d[j] = LowerData[j]

LEMMA UsesShow ==
  ASSUME PlainInv, TypeOK', NEW v, NEW c, NEW o, Becomes(v, c, o), NEW d, NEW N, Uses(v, c, o, d, N)
  PROVE  PlainInv' /\ Plain!Becomes(Shown(v), d, [f \in Fds |-> o[f].ino])
<1>0. /\ Sound(v) /\ Through(v) \subseteq Through(upper) /\ N \subseteq Inodes
      /\ o \in [Fds -> Handles] /\ LowerHandles(o)
      /\ \A q \in DOMAIN v : v[q].ino \in UpUse(upper, fds) \union N \union {0}
      /\ \A g \in Fds : /\ o[g].kind = "upper" => o[g].ino \in UpUse(upper, fds) \union N
                        /\ o[g].kind = "lower" => o[g].ino \in LowUse(upper, fds)
      /\ \A j \in Ids : /\ j \in UpUse(upper, fds) \union N => d[j] = c[j]
                        /\ j \in LowUse(upper, fds) => d[j] = LowerData[j]
  BY DEF Uses
<1>1. LowUse(v, o) \subseteq LowUse(upper, fds)
  BY <1>0 DEF LowUse
<1>2. UpUse(v, o) \subseteq UpUse(upper, fds) \union N \union {0}
  BY <1>0 DEF UpUse
<1>3. 0 \notin Ids
  BY OverlayAssumption
<1>4. Keeps(v, c, o, d)
  BY <1>0, <1>1, <1>2, <1>3 DEF Keeps
<1> QED BY <1>4, OperationShows

\* What is in use now, as an outcome.
LEMMA NowUses ==
  ASSUME PlainInv
  PROVE  Uses(upper, content, fds, ViewData, {}) /\ [f \in Fds |-> fds[f].ino] = ViewFd
<1>1. /\ Sound(upper) /\ fds \in [Fds -> Handles] /\ LowerHandles(fds)
  BY TypeOKIs DEF PlainInv, LayerInv
<1>2. \A q \in DOMAIN upper : upper[q].ino \in UpUse(upper, fds)
  BY DEF UpUse
<1>3. \A g \in Fds : /\ fds[g].kind = "upper" => fds[g].ino \in UpUse(upper, fds)
                     /\ fds[g].kind = "lower" => fds[g].ino \in LowUse(upper, fds)
  BY DEF UpUse, LowUse
<1>4. \A j \in Ids : /\ j \in UpUse(upper, fds) => ViewData[j] = content[j]
                     /\ j \in LowUse(upper, fds) => ViewData[j] = LowerData[j]
  BY DataIs
<1> QED BY <1>1, <1>2, <1>3, <1>4 DEF Uses, ViewFd

\* Descriptors: another one on the same file, or one less.
LEMMA SetFd ==
  ASSUME PlainInv, NEW f \in Fds, NEW h, h = Closed \/ \E g \in Fds : h = fds[g]
  PROVE  /\ Uses(upper, content, [fds EXCEPT ![f] = h], ViewData, {})
         /\ [g \in Fds |-> [fds EXCEPT ![f] = h][g].ino] = [ViewFd EXCEPT ![f] = h.ino]
<1> DEFINE o == [fds EXCEPT ![f] = h]
<1>1. fds \in [Fds -> Handles] /\ LowerHandles(fds)
  BY TypeOKIs DEF PlainInv, LayerInv
<1>2. h \in Handles /\ Closed.kind = "none"
  BY <1>1 DEF Handles, Closed
<1>3. /\ o \in [Fds -> Handles] /\ \A g \in Fds : o[g] = Closed \/ \E e \in Fds : o[g] = fds[e]
      /\ [g \in Fds |-> o[g].ino] = [ViewFd EXCEPT ![f] = h.ino]
  <2>1. o \in [Fds -> Handles] /\ o[f] = h /\ \A g \in Fds \ {f} : o[g] = fds[g]
    BY <1>1, <1>2
  <2>2. [g \in Fds |-> o[g].ino] = [ViewFd EXCEPT ![f] = h.ino]
    BY <1>1, <1>2, FdsAfter
  <2> HIDE DEF o
  <2> QED BY <2>1, <2>2
<1> HIDE DEF o
<1>4. LowerHandles(o)
  BY <1>1, <1>2, <1>3 DEF LowerHandles
<1>5. Uses(upper, content, fds, ViewData, {})
  BY NowUses
<1>6. Uses(upper, content, o, ViewData, {})
  BY <1>2, <1>3, <1>4, <1>5 DEF Uses
<1> QED BY <1>3, <1>6 DEF o

LEMMA CloseShows ==
  ASSUME PlainInv, TypeOK', NEW f \in Fds, Close(f)
  PROVE  PlainInv' /\ Plain!Close(f)
<1>1. fds[f] # Closed /\ Becomes(upper, content, [fds EXCEPT ![f] = Closed])
  BY DEF Close
<1>2. /\ Uses(upper, content, [fds EXCEPT ![f] = Closed], ViewData, {})
      /\ [g \in Fds |-> [fds EXCEPT ![f] = Closed][g].ino] = [ViewFd EXCEPT ![f] = Closed.ino]
  BY SetFd
<1>3. PlainInv' /\ Plain!Becomes(Shown(upper), ViewData, [g \in Fds |-> [fds EXCEPT ![f] = Closed][g].ino])
  BY <1>1, <1>2, UsesShow
<1>4. Closed.ino = 0 /\ ViewTree = Shown(upper)
  BY ViewIsShown DEF ViewShown, Closed
<1>5. ViewFd[f] # 0
  <2>1. fds[f].ino \in Ids
    BY <1>1, TypeOKIs DEF PlainInv, Handles
  <2> QED BY <2>1, PlainIs, OverlayAssumption
<1> QED BY <1>2, <1>3, <1>4, <1>5 DEF Plain!Close

LEMMA DupShows ==
  ASSUME PlainInv, TypeOK', NEW f \in Fds, NEW e \in Fds, Dup(f, e)
  PROVE  PlainInv' /\ Plain!Dup(f, e)
<1>1. fds[f] # Closed /\ fds[e] = Closed /\ Becomes(upper, content, [fds EXCEPT ![e] = fds[f]])
  BY DEF Dup
<1>2. /\ Uses(upper, content, [fds EXCEPT ![e] = fds[f]], ViewData, {})
      /\ [g \in Fds |-> [fds EXCEPT ![e] = fds[f]][g].ino] = [ViewFd EXCEPT ![e] = fds[f].ino]
  BY SetFd
<1>3. PlainInv' /\ Plain!Becomes(Shown(upper), ViewData, [g \in Fds |-> [fds EXCEPT ![e] = fds[f]][g].ino])
  BY <1>1, <1>2, UsesShow
<1>4. ViewFd[f] = fds[f].ino /\ ViewFd[e] = 0 /\ ViewTree = Shown(upper)
  BY <1>1, PlainIs, ViewIsShown DEF ViewShown, Closed
<1>5. ViewFd[f] # 0
  <2>1. fds[f].ino \in Ids
    BY <1>1, TypeOKIs DEF PlainInv, Handles
  <2> QED BY <2>1, PlainIs, OverlayAssumption
<1> QED BY <1>2, <1>3, <1>4, <1>5 DEF Plain!Dup

LEMMA WriteShows ==
  ASSUME PlainInv, TypeOK', NEW f \in Fds, NEW v \in Written, Write(f, v)
  PROVE  PlainInv' /\ Plain!Write(f, v)
<1> DEFINE i == fds[f].ino
           c == [content EXCEPT ![i] = v]
           d == [ViewData EXCEPT ![i] = v]
<1>1. fds[f].kind = "upper" /\ Becomes(upper, c, fds)
  BY DEF Write
<1>2. /\ IsTree(upper) /\ fds \in [Fds -> Handles] /\ LowerHandles(fds) /\ Apart(upper, fds)
      /\ content \in [Ids -> Data] /\ DOMAIN ViewData = Ids
  BY TypeOKIs DEF PlainInv, LayerInv, ViewData
<1>3. i \in Ids /\ i \in UpUse(upper, fds) /\ i # 0 /\ i \notin LowUse(upper, fds)
  <2>1. i \in Ids /\ i \in UpUse(upper, fds)
    BY <1>1, <1>2 DEF UpUse, Handles, Closed
  <2> QED BY <1>2, <2>1, OverlayAssumption DEF Apart
<1>4. Uses(upper, content, fds, ViewData, {}) /\ [g \in Fds |-> fds[g].ino] = ViewFd
  BY NowUses
<1>5. \A j \in Ids : /\ c[j] = IF j = i THEN v ELSE content[j]
                     /\ d[j] = IF j = i THEN v ELSE ViewData[j]
  BY <1>2
<1> HIDE DEF c, d
<1>6. Uses(upper, c, fds, d, {})
  BY <1>3, <1>4, <1>5 DEF Uses
<1>7. PlainInv' /\ Plain!Becomes(Shown(upper), d, [g \in Fds |-> fds[g].ino])
  BY <1>1, <1>6, UsesShow
<1>8. ViewFd[f] = i /\ ViewTree = Shown(upper)
  BY PlainIs, ViewIsShown DEF ViewShown
<1> QED BY <1>3, <1>4, <1>7, <1>8 DEF Plain!Write, d

\* A node that is shown is a directory or a file.
LEMMA ShownNode ==
  ASSUME PlainInv, NEW p \in Shows(upper)
  PROVE  \/ NodeOf(upper, p) = Dir /\ NodeOf(upper, p).typ = "dir"
         \/ /\ NodeOf(upper, p) # Dir /\ NodeOf(upper, p).typ = "file" /\ NodeOf(upper, p).ino \in Ids
            /\ NodeOf(upper, p) = File(NodeOf(upper, p).ino)
<1>1. Stat(upper, p)
  BY DEF Shows
<1>2. NodeOf(upper, p) = Dir \/ \E i \in Ids : NodeOf(upper, p) = File(i)
  <2>1. CASE p \in DOMAIN upper
    BY <1>1, <2>1 DEF NodeOf, Stat, PlainInv, TypeOK, IsTree, Nodes
  <2>2. CASE p \notin DOMAIN upper
    BY <1>1, <2>2, LowerTree DEF NodeOf, Stat, Ids
  <2> QED BY <2>1, <2>2
<1> QED BY <1>2 DEF Dir, File

\* Where something may be made.
LEMMA MayMake ==
  ASSUME Gaps = {}, PlainInv, NEW p \in Paths, KeepsRemoved(Above(p) \union {p}), KeepsFiles(Above(p))
  PROVE  /\ Clear(upper, Above(p)) /\ Plain!CanMake(p)
         /\ ~IsDirectory(p) => LowerChildren(p) = {} /\ ~Plain!Is(p, "dir")
<1>0. Sound(upper)
  BY DEF PlainInv, LayerInv
<1>1. \A q \in Above(p) \union {p} : q \in DOMAIN upper /\ upper[q] = White => LowerChildren(q) = {}
  BY DEF KeepsRemoved, Gap, upperWhiteout
<1>2. \A q \in Above(p) : Stat(upper, q) => NodeOf(upper, q) = Dir
  BY ViewIsShown DEF KeepsFiles, Gap, ViewShown
<1>3. Clear(upper, Above(p))
  BY <1>1, <1>2 DEF Clear
<1>4. Plain!CanMake(p)
  <2>1. \A q \in Above(p) : q \in Shows(upper) => NodeOf(upper, q).typ = "dir"
    BY <1>2 DEF Shows, Dir
  <2>2. \A q \in Plain!Above(p) : q \in DOMAIN ViewTree => Plain!Is(q, "dir")
    BY <2>1, PlainIs, PlainNames
  <2> QED BY <2>2 DEF Plain!CanMake
<1>5. ASSUME ~IsDirectory(p) PROVE LowerChildren(p) = {} /\ ~Plain!Is(p, "dir")
  <2>1. p \in Shows(upper) => NodeOf(upper, p) # Dir
    BY <1>5, ViewIsShown DEF IsDirectory, ViewShown, eval
  <2>2. LowerChildren(p) = {}
    BY <1>0, <1>1, <2>1, NothingBelow
  <2>3. p \in Shows(upper) => NodeOf(upper, p).typ # "dir"
    BY <2>1, ShownNode
  <2> QED BY <2>2, <2>3, PlainIs
<1> QED BY <1>3, <1>4, <1>5

\* A file placed at p is new in the plain tree.
LEMMA FileMade ==
  ASSUME PlainInv, NEW p \in Paths, NEW i \in Fresh, LowerChildren(p) = {}, Clear(upper, Above(p))
  PROVE  /\ i \in Inodes /\ i \in Ids /\ i \in Plain!New /\ i \notin UpUse(upper, fds) /\ i \notin LowUse(upper, fds)
         /\ ViewData[i] = Empty /\ content[i] = Empty
         /\ Sound(place(upper, p, At(p, File(i)))) /\ Through(place(upper, p, At(p, File(i)))) \subseteq Through(upper)
         /\ \A q \in DOMAIN place(upper, p, At(p, File(i))) :
               place(upper, p, At(p, File(i)))[q].ino \in UpUse(upper, fds) \union {i} \union {0}
         /\ Shown(place(upper, p, At(p, File(i)))) = Plain!Graft(ViewTree, p, Plain!Leaf(p, Plain!File(i)))
<1> DEFINE sub == At(p, File(i))
           v == place(upper, p, sub)
<1>0. /\ Sound(upper) /\ IsTree(upper) /\ fds \in [Fds -> Handles] /\ LowerHandles(fds)
  BY TypeOKIs DEF PlainInv, LayerInv
<1>1. i \in Inodes /\ i \in Ids /\ ~InUpperUse(i)
  BY DEF Fresh, Ids
<1>2. i \notin UpUse(upper, fds) /\ i \notin LowUse(upper, fds)
  <2>1. i # 0 /\ i \notin DOMAIN LowerData
    BY <1>1, OverlayAssumption
  <2> QED BY <1>0, <1>1, <2>1, UseTypes, ViewIsLayers DEF ViewOfLayers
<1>3. ViewData[i] = Empty /\ content[i] = Empty /\ i \notin Plain!Used(ViewTree, ViewFd)
  BY <1>1, <1>2, DataIs
<1>4. i \in Plain!New
  BY <1>1, <1>3 DEF Plain!New
<1>5. IsSubtree(p, sub) /\ DOMAIN sub = {p} /\ sub[p] = File(i) /\ File(i) # White /\ File(i).ino = i
      /\ Dir.ino = 0
  <2>1. File(i) \in Nodes
    BY <1>1 DEF Nodes
  <2> QED BY <2>1, AtIsSubtree DEF At, File, White, Dir
<1>6. Plainly(sub) = Plain!Leaf(p, Plain!File(i))
  <2>1. Plainly(sub) = [q \in {p} |-> File(i)]
    BY <1>5 DEF Plainly, Restrict, At
  <2> QED BY <2>1, PlainNames DEF Plain!Leaf
<1> HIDE DEF sub
<1>7. /\ Sound(v) /\ Through(v) \subseteq Through(upper)
      /\ Shown(v) = Plain!Graft(Shown(upper), p, Plainly(sub))
      /\ \A q \in DOMAIN v : \/ v[q] = Dir
                             \/ q \in DOMAIN sub /\ v[q] = sub[q]
                             \/ q \in DOMAIN upper /\ v[q] = upper[q]
  BY <1>0, <1>5, PlaceShows
<1>8. ViewTree = Shown(upper)
  BY ViewIsShown DEF ViewShown
<1> HIDE DEF v
<1>9. \A q \in DOMAIN v : v[q].ino \in UpUse(upper, fds) \union {i} \union {0}
  BY <1>5, <1>7 DEF UpUse
<1> QED BY <1>1, <1>2, <1>3, <1>4, <1>6, <1>7, <1>8, <1>9 DEF v, sub

LEMMA OpenCreateShows ==
  ASSUME Gaps = {}, PlainInv, TypeOK', NEW f \in Fds, NEW p \in Paths, OpenCreate(f, p)
  PROVE  PlainInv' /\ Plain!OpenCreate(f, p)
<1>1. /\ fds[f] = Closed /\ ~eval(p)
      /\ KeepsRemoved(Above(p) \union {p}) /\ KeepsFiles(Above(p))
  BY DEF OpenCreate
<1>2. PICK i \in Fresh : Becomes(place(upper, p, At(p, File(i))), content,
                                 [fds EXCEPT ![f] = Opened("upper", i, p)])
  BY DEF OpenCreate
<1> DEFINE v == place(upper, p, At(p, File(i)))
           h == Opened("upper", i, p)
           o == [fds EXCEPT ![f] = h]
<1>3. Clear(upper, Above(p)) /\ Plain!CanMake(p) /\ LowerChildren(p) = {}
  BY <1>1, MayMake DEF IsDirectory
<1>4. /\ i \in Inodes /\ i \in Ids /\ i \in Plain!New /\ i \notin LowUse(upper, fds)
      /\ ViewData[i] = Empty /\ content[i] = Empty
      /\ Sound(v) /\ Through(v) \subseteq Through(upper)
      /\ \A q \in DOMAIN v : v[q].ino \in UpUse(upper, fds) \union {i} \union {0}
      /\ Shown(v) = Plain!Graft(ViewTree, p, Plain!Leaf(p, Plain!File(i)))
  BY <1>3, FileMade
<1>5. fds \in [Fds -> Handles] /\ LowerHandles(fds)
  BY TypeOKIs DEF PlainInv, LayerInv
<1>6. h \in Handles /\ h.ino = i /\ h.kind = "upper"
  BY <1>4 DEF Handles, Opened
<1> HIDE DEF h, v
<1>7. /\ o \in [Fds -> Handles] /\ o[f] = h /\ \A g \in Fds \ {f} : o[g] = fds[g]
      /\ [g \in Fds |-> o[g].ino] = [ViewFd EXCEPT ![f] = i]
  BY <1>5, <1>6, FdsAfter
<1>b. Becomes(v, content, o)
  BY <1>2 DEF h, v
<1> HIDE DEF o
<1>8. Uses(upper, content, fds, ViewData, {})
  BY NowUses
<1>9. LowerHandles(o)
  BY <1>5, <1>6, <1>7 DEF LowerHandles
<1>10. \A g \in Fds : /\ o[g].kind = "upper" => o[g].ino \in UpUse(upper, fds) \union {i}
                      /\ o[g].kind = "lower" => o[g].ino \in LowUse(upper, fds)
  BY <1>6, <1>7, <1>8 DEF Uses
<1>11. Uses(v, content, o, ViewData, {i})
  BY <1>4, <1>7, <1>8, <1>9, <1>10 DEF Uses
<1>12. PlainInv' /\ Plain!Becomes(Shown(v), ViewData, [g \in Fds |-> o[g].ino])
  BY <1>b, <1>11, UsesShow
<1>13. ViewFd[f] = 0 /\ p \notin DOMAIN ViewTree
  <2>1. p \notin Shows(upper)
    BY <1>1, ViewIsShown DEF ViewShown
  <2>2. fds[f].ino = 0
    BY <1>1 DEF Closed
  <2> QED BY <2>1, <2>2, PlainIs
<1> QED BY <1>3, <1>4, <1>7, <1>12, <1>13 DEF Plain!OpenCreate

LEMMA WriteFileShows ==
  ASSUME Gaps = {}, PlainInv, TypeOK', NEW p \in Paths, NEW w \in Written, WriteFile(p, w)
  PROVE  PlainInv' /\ Plain!WriteFile(p, w)
<1>1. ~IsDirectory(p) /\ KeepsRemoved(Above(p) \union {p}) /\ KeepsFiles(Above(p))
  BY DEF WriteFile, Gap
<1>2. PICK i \in Fresh : Becomes(place(upper, p, At(p, File(i))), [content EXCEPT ![i] = w], fds)
  BY DEF WriteFile
<1> DEFINE v == place(upper, p, At(p, File(i)))
           c == [content EXCEPT ![i] = w]
           d == [ViewData EXCEPT ![i] = w]
<1>3. Clear(upper, Above(p)) /\ Plain!CanMake(p) /\ LowerChildren(p) = {} /\ ~Plain!Is(p, "dir")
  BY <1>1, MayMake
<1>4. /\ i \in Inodes /\ i \in Ids /\ i \in Plain!New /\ i \notin LowUse(upper, fds)
      /\ Sound(v) /\ Through(v) \subseteq Through(upper)
      /\ \A q \in DOMAIN v : v[q].ino \in UpUse(upper, fds) \union {i} \union {0}
      /\ Shown(v) = Plain!Graft(ViewTree, p, Plain!Leaf(p, Plain!File(i)))
  BY <1>3, FileMade
<1>5. \A j \in Ids : /\ c[j] = IF j = i THEN w ELSE content[j]
                     /\ d[j] = IF j = i THEN w ELSE ViewData[j]
  <2>1. content \in [Ids -> Data] /\ DOMAIN ViewData = Ids
    BY TypeOKIs DEF PlainInv, ViewData
  <2> QED BY <2>1
<1>6. Uses(upper, content, fds, ViewData, {}) /\ [g \in Fds |-> fds[g].ino] = ViewFd
  BY NowUses
<1>b. Becomes(v, c, fds)
  BY <1>2
<1> HIDE DEF v, c, d
<1>7. Uses(v, c, fds, d, {i})
  BY <1>4, <1>5, <1>6 DEF Uses
<1>8. PlainInv' /\ Plain!Becomes(Shown(v), d, [g \in Fds |-> fds[g].ino])
  BY <1>b, <1>7, UsesShow
<1> QED BY <1>3, <1>4, <1>6, <1>8 DEF Plain!WriteFile, d

LEMMA MkdirAllShows ==
  ASSUME Gaps = {}, PlainInv, TypeOK', NEW p \in Paths, MkdirAll(p)
  PROVE  PlainInv' /\ Plain!MkdirAll(p)
<1> DEFINE P == Above(p) \union {p}
           v == mkdirAll(upper, P)
<1>1. /\ KeepsRemoved(P) /\ KeepsFiles(P)
      /\ Becomes(v, content, fds)
  BY DEF MkdirAll
<1>2. KeepsFiles(Above(p))
  BY <1>1 DEF KeepsFiles
<1>3. Clear(upper, Above(p)) /\ Plain!CanMake(p)
  BY <1>1, <1>2, MayMake
<1>4. /\ upperWhiteout(p) => LowerChildren(p) = {}
      /\ Stat(upper, p) => NodeOf(upper, p) = Dir
  BY <1>1, ViewIsShown DEF KeepsRemoved, KeepsFiles, Gap, ViewShown
<1>5. Clear(upper, P)
  BY <1>3, <1>4 DEF Clear, upperWhiteout
<1>6. P \in SUBSET Paths /\ \A q \in P : Above(q) \subseteq P
  BY AboveAbove DEF Above
<1>7. Uses(upper, content, fds, ViewData, {}) /\ [g \in Fds |-> fds[g].ino] = ViewFd
  BY NowUses
<1>8. Sound(upper)
  BY DEF PlainInv, LayerInv
<1>9. \A q \in DOMAIN v : v[q] = Dir \/ (q \in DOMAIN upper /\ v[q] = upper[q])
  BY DEF mkdirAll
<1> HIDE DEF P
<1>10. /\ Sound(v) /\ Through(v) \subseteq Through(upper)
       /\ Shown(v) = Plain!WithDirs(Shown(upper), P)
  BY <1>5, <1>6, <1>8, MkdirShows
<1> HIDE DEF v
<1>11. Uses(v, content, fds, ViewData, {})
  BY <1>7, <1>9, <1>10 DEF Uses, Dir
<1>12. PlainInv' /\ Plain!Becomes(Shown(v), ViewData, [g \in Fds |-> fds[g].ino])
  BY <1>1, <1>11, UsesShow
<1>13. Shown(v) = Plain!WithDirs(ViewTree, Plain!Above(p) \union {p})
  BY <1>10, PlainNames, ViewIsShown DEF ViewShown, P
<1>14. p \in DOMAIN ViewTree => Plain!Is(p, "dir")
  <2>1. p \in Shows(upper) => NodeOf(upper, p).typ = "dir"
    BY <1>4 DEF Shows, Dir
  <2> QED BY <2>1, PlainIs
<1> QED BY <1>3, <1>7, <1>12, <1>13, <1>14 DEF Plain!MkdirAll

\* Removing a name takes it and what is below from the plain tree.
LEMMA CutIs ==
  ASSUME NEW p \in Paths
  PROVE  /\ Plain!Cut(p) = Without(upper, p)
         /\ \A q : q \in Plain!Below(p) <=> q \in Shows(upper) /\ IsPrefix(p, q)
<1>1. DOMAIN ViewTree = Shows(upper) /\ \A q \in Shows(upper) : ViewTree[q] = NodeOf(upper, q)
  BY ViewIsShown DEF ViewShown, Shown
<1>2. \A q : q \in Plain!Below(p) <=> q \in Shows(upper) /\ IsPrefix(p, q)
  BY <1>1, PlainNames DEF Plain!Below
<1>3. Plain!Cut(p) = [q \in DOMAIN ViewTree \ Plain!Below(p) |-> ViewTree[q]]
  BY DEF Plain!Cut, Plain!Restrict
<1>4. DOMAIN ViewTree \ Plain!Below(p) = {r \in Shows(upper) : ~IsPrefix(p, r)}
  BY <1>1, <1>2
<1>5. Plain!Cut(p) = Without(upper, p)
  BY <1>1, <1>3, <1>4 DEF Without
<1> QED BY <1>2, <1>5

LEMMA RemoveUses ==
  ASSUME PlainInv, TypeOK', NEW p \in Shows(upper), Becomes(removeChild(upper, p), content, fds)
  PROVE  PlainInv' /\ Plain!Becomes(Plain!Cut(p), ViewData, ViewFd)
<1> DEFINE v == removeChild(upper, p)
<1>1. p \in Paths /\ Sound(upper)
  BY DEF Shows, PlainInv, LayerInv
<1>2. Uses(upper, content, fds, ViewData, {}) /\ [g \in Fds |-> fds[g].ino] = ViewFd
  BY NowUses
<1>3. /\ Sound(v) /\ Through(v) \subseteq Through(upper) /\ Shown(v) = Without(upper, p)
      /\ \A q \in DOMAIN v : v[q] \in {Dir, White} \/ (q \in DOMAIN upper /\ v[q] = upper[q])
  BY <1>1, RemoveShows DEF Without
<1> HIDE DEF v
<1>4. Uses(v, content, fds, ViewData, {})
  BY <1>2, <1>3 DEF Uses, Dir, White
<1>5. PlainInv' /\ Plain!Becomes(Shown(v), ViewData, [g \in Fds |-> fds[g].ino])
  BY <1>4, UsesShow DEF v
<1> QED BY <1>1, <1>2, <1>3, <1>5, CutIs

LEMMA UnlinkShows ==
  ASSUME PlainInv, TypeOK', NEW p \in Paths, Unlink(p)
  PROVE  PlainInv' /\ Plain!Unlink(p)
<1>1. IsFile(p) /\ Becomes(removeChild(upper, p), content, fds)
  BY DEF Unlink
<1>2. p \in Shows(upper) /\ NodeOf(upper, p).typ = "file"
  BY <1>1, FileNode
<1>3. Plain!Is(p, "file")
  BY <1>2, PlainIs
<1> QED BY <1>1, <1>2, <1>3, RemoveUses DEF Plain!Unlink

\* Below a directory, the way to any path leads through an entry of it.
LEMMA EntryToward ==
  ASSUME NEW p \in Paths, NEW q \in Paths, p \in Above(q)
  PROVE  \E r \in Above(q) \union {q} : Front(r) = p
<1> DEFINE n == Len(p) + 1
           r == SubSeq(q, 1, n)
<1>0. p \in Seq(Name) /\ q \in Seq(Name) /\ Len(p) \in Nat \ {0} /\ Len(q) \in Nat \ {0}
  BY PathsAreSeqs
<1>1. Len(p) < Len(q) /\ \A i \in 1..Len(p) : p[i] = q[i]
  <2>1. IsPrefix(p, q) /\ p # q
    BY AboveIs
  <2>2. Len(p) <= Len(q) /\ Len(p) # Len(q) /\ \A i \in 1..Len(p) : p[i] = q[i]
    BY <2>1, PrefixIs
  <2> QED BY <1>0, <2>2
<1>2. n \in 1..Len(q)
  BY <1>0, <1>1
<1>3. r \in Paths /\ r \in Seq(Name) /\ Len(r) = n /\ \A i \in 1..n : r[i] = q[i]
  BY <1>0, <1>2, OverlayAssumption
<1> HIDE DEF r
<1>4. Front(r) = p
  <2>1. Front(r) = SubSeq(r, 1, Len(p))
    BY <1>0, <1>3 DEF Front
  <2>2. /\ SubSeq(r, 1, Len(p)) \in Seq(Name) /\ Len(SubSeq(r, 1, Len(p))) = Len(p)
        /\ \A i \in 1..Len(p) : SubSeq(r, 1, Len(p))[i] = r[i]
    BY <1>0, <1>3
  <2>3. \A i \in 1..Len(p) : r[i] = p[i]
    BY <1>0, <1>1, <1>3
  <2> QED BY <1>0, <2>1, <2>2, <2>3
<1>5. IsPrefix(r, q)
  BY <1>2, <1>3, PrefixIs
<1> QED BY <1>3, <1>4, <1>5, AboveIs

LEMMA RmdirShows ==
  ASSUME PlainInv, TypeOK', NEW p \in Paths, Rmdir(p)
  PROVE  PlainInv' /\ Plain!Rmdir(p)
<1>1. IsDirectory(p) /\ readdirNames(p) = {} /\ Becomes(removeChild(upper, p), content, fds)
  BY DEF Rmdir
<1>2. p \in Shows(upper) /\ NodeOf(upper, p) = Dir /\ Node(p) = Dir /\ p \in Visible
  BY <1>1, ViewIsShown DEF IsDirectory, ViewShown, eval
<1>3. Plain!Is(p, "dir")
  BY <1>2, PlainIs DEF Dir
<1>4. Plain!Below(p) = {p}
  <2>1. IsPrefix(p, p)
    BY PrefixOrder
  <2>2. ASSUME NEW q \in Shows(upper), IsPrefix(p, q), q # p PROVE FALSE
    <3>1. q \in Paths /\ p \in Above(q)
      BY <2>2, AboveIs DEF Shows
    <3>2. PICK r \in Above(q) \union {q} : Front(r) = p
      BY <3>1, EntryToward
    <3>3. r \in Shows(upper)
      BY <3>2, ShownAbove DEF PlainInv, LayerInv
    <3>4. r \in Visible
      BY <3>3, ViewIsShown DEF ViewShown
    <3> QED BY <1>1, <1>2, <3>2, <3>4, TreeLists DEF PlainInv, ListingIsLookup
  <2> QED BY <1>2, <2>1, <2>2, CutIs
<1> QED BY <1>1, <1>2, <1>3, <1>4, RemoveUses DEF Plain!Rmdir

\* Moving what is copied up, with what is below it, to another name.
LEMMA CopyUpAndMove ==
  ASSUME Gaps = {}, PlainInv, TypeOK', NEW p \in Shows(upper), CanCopyUp(p), KeepsHandles(p, Fds),
         NEW v, Sound(v), Through(v) \subseteq Through(copyUp(p).tree),
         \A s \in DOMAIN v : \/ v[s] \in {Dir, White}
                             \/ \E r \in DOMAIN copyUp(p).tree : v[s] = copyUp(p).tree[r],
         Becomes(v, copyUp(p).data, fds)
  PROVE  PlainInv' /\ Plain!Becomes(Shown(v), ViewData, ViewFd)
<1> DEFINE t == copyUp(p).tree
           d == copyUp(p).data
           n == NodeOf(upper, p)
<1>0. /\ fds \in [Fds -> Handles] /\ LowerHandles(fds) /\ p \in Paths /\ Stat(upper, p)
      /\ Dir.ino = 0 /\ White.ino = 0 /\ 0 \notin Ids
  BY TypeOKIs, OverlayAssumption DEF PlainInv, LayerInv, Shows, Dir, White
<1>1. /\ Through(t) \subseteq Through(upper)
      /\ \A q \in DOMAIN t : t[q] \in {Dir, n} \/ (q \in DOMAIN upper /\ t[q] = upper[q])
      /\ \A i \in Ids : i \in UpUse(upper, fds) \/ i = n.ino => d[i] = ViewData[i]
      /\ p \notin DOMAIN upper /\ n # Dir => \A q \in Through(t) : Lower[q].ino # n.ino
  BY CopiedUp
<1> HIDE DEF t, d, n
<1>2. LowUse(v, fds) \subseteq LowUse(upper, fds)
  BY <1>1 DEF LowUse, t
<1>3. \A j \in UpUse(v, fds) : j \in UpUse(upper, fds) \/ j = n.ino \/ j = 0
  <2>1. \A r \in DOMAIN t : t[r].ino \in UpUse(upper, fds) \/ t[r].ino = n.ino \/ t[r].ino = 0
    BY <1>0, <1>1 DEF UpUse
  <2>2. \A s \in DOMAIN v : v[s].ino \in UpUse(upper, fds) \/ v[s].ino = n.ino \/ v[s].ino = 0
    BY <1>0, <2>1 DEF t
  <2> QED BY <2>2 DEF UpUse
<1>4. n.ino \in UpUse(upper, fds) \/ n.ino = 0 \/ n.ino \notin LowUse(v, fds)
  <2>1. CASE p \in DOMAIN upper
    BY <2>1 DEF NodeOf, n, UpUse
  <2>2. CASE n = Dir
    BY <1>0, <2>2
  <2>3. CASE p \notin DOMAIN upper /\ n # Dir
    <3>1. p \in Through(upper) /\ n = Lower[p]
      BY <2>3 DEF Through, NodeOf, n
    <3>2. \A g \in Fds : fds[g].kind = "lower" => fds[g].path # p
      BY <2>3 DEF KeepsHandles, Gap, inUpper
    <3>3. \A q \in Through(v) : Lower[q].ino # Lower[p].ino
      BY <1>1, <2>3, <3>1 DEF t
    <3>4. Lower[p] # Dir
      BY <2>3, <3>1
    <3>5. Lower[p].ino \notin LowUse(v, fds)
      BY <1>0, <3>1, <3>2, <3>3, <3>4, LeftBelow
    <3> QED BY <3>1, <3>5
  <2> QED BY <2>1, <2>2, <2>3
<1>5. ASSUME NEW j \in Ids PROVE /\ j \in UpUse(v, fds) => ViewData[j] = d[j]
                                 /\ j \in LowUse(v, fds) => ViewData[j] = LowerData[j]
  BY <1>0, <1>1, <1>2, <1>3, DataIs
<1>6. Keeps(v, d, fds, ViewData)
  BY <1>0, <1>2, <1>3, <1>4, <1>5 DEF Keeps
<1>b. Becomes(v, d, fds)
  BY DEF d
<1>7. PlainInv' /\ Plain!Becomes(Shown(v), ViewData, [g \in Fds |-> fds[g].ino])
  BY <1>b, <1>6, OperationShows
<1>8. [g \in Fds |-> fds[g].ino] = ViewFd
  BY NowUses
<1> QED BY <1>7, <1>8

LEMMA MovedIs ==
  ASSUME NEW p \in Paths, NEW q \in Paths
  PROVE  Plain!Moved(p, q) = Seen(upper, p, q)
<1>1. ViewTree = [r \in Shows(upper) |-> NodeOf(upper, r)]
  BY ViewIsShown DEF ViewShown, Shown
<1>2. Plain!Moved(p, q) = [r \in {s \in Paths : IsPrefix(q, s) /\ From(p, q, s) \in DOMAIN ViewTree} |-> ViewTree[From(p, q, r)]]
  BY PlainNames DEF Plain!Moved, From
<1>3. \A s \in Shows(upper) : s \in DOMAIN ViewTree /\ ViewTree[s] = NodeOf(upper, s)
  BY <1>1
<1>4. DOMAIN ViewTree = Shows(upper)
  BY <1>1
<1> QED BY <1>2, <1>3, <1>4 DEF Seen

\* Taking a name away and putting it back changes nothing.
LEMMA PutBack ==
  ASSUME PlainInv, NEW p \in Shows(upper)
  PROVE  Plain!Graft(Without(upper, p), p, Seen(upper, p, p)) = ViewTree
<1> DEFINE w == Without(upper, p)
           s == Seen(upper, p, p)
           g == Plain!Graft(w, p, s)
<1>0. p \in Paths /\ Shows(upper) \subseteq Paths
  BY DEF Shows
<1>1. DOMAIN w = {r \in Shows(upper) : ~IsPrefix(p, r)} /\ \A r \in DOMAIN w : w[r] = NodeOf(upper, r)
  BY DEF Without
<1>2. DOMAIN s = {r \in Shows(upper) : IsPrefix(p, r)} /\ \A r \in DOMAIN s : s[r] = NodeOf(upper, r)
  <2>1. \A r \in Paths : IsPrefix(p, r) => From(p, p, r) = r
    BY <1>0, FromIs
  <2>2. /\ DOMAIN s = {r \in Paths : IsPrefix(p, r) /\ From(p, p, r) \in Shows(upper)}
        /\ \A r \in DOMAIN s : s[r] = NodeOf(upper, From(p, p, r))
    BY DEF Seen
  <2> HIDE DEF s
  <2> QED BY <1>0, <2>1, <2>2
<1> HIDE DEF w, s
<1>3. g = [q \in DOMAIN s \union Above(p) \union {r \in DOMAIN w : ~IsPrefix(p, r)} |->
             IF q \in DOMAIN s THEN s[q] ELSE IF q \in Above(p) THEN Dir ELSE w[q]]
  BY GraftIs
<1>4. \A q \in Above(p) : q \in Shows(upper) /\ NodeOf(upper, q) = Dir
  BY ShownAbove DEF PlainInv, LayerInv
<1>5. DOMAIN s \union Above(p) \union {r \in DOMAIN w : ~IsPrefix(p, r)} = Shows(upper)
  BY <1>1, <1>2, <1>4
<1>6. \A q \in Shows(upper) :
         (IF q \in DOMAIN s THEN s[q] ELSE IF q \in Above(p) THEN Dir ELSE w[q]) = NodeOf(upper, q)
  BY <1>1, <1>2, <1>4
<1>7. g = [q \in Shows(upper) |-> NodeOf(upper, q)]
  BY <1>3, <1>5, <1>6
<1> QED BY <1>7, ViewIsShown DEF ViewShown, Shown, w, s

LEMMA RenamePlaces ==
  ASSUME Gaps = {}, PlainInv, TypeOK', NEW p \in Paths, NEW q \in Paths, Rename(p, q)
  PROVE  /\ p \in Shows(upper) /\ CanCopyUp(p) /\ KeepsHandles(p, Fds)
         /\ \A r \in LowerChildren(p) : r \notin Shows(upper)
         /\ p # q => /\ ~IsPrefix(p, q) /\ ~IsPrefix(q, p)
                     /\ q \in Shows(upper) => NodeOf(upper, q) # Dir /\ NodeOf(upper, p) # Dir
                     /\ \A r \in Above(q) \union {q} : r \in DOMAIN upper /\ upper[r] = White => LowerChildren(r) = {}
         /\ \A r \in Above(q) : Stat(upper, r) => NodeOf(upper, r) = Dir
         /\ Becomes(place(removeChild(copyUp(p).tree, p), q, Moved(copyUp(p).tree, p, q)), copyUp(p).data, fds)
<1> DEFINE t == copyUp(p).tree
           u == removeChild(t, p)
<1>1. /\ eval(p) /\ CanCopyUp(p) /\ KeepsHandles(p, Fds)
      /\ Node(p) # Dir \/ \A r \in LowerChildren(p) : ~eval(r)
      /\ p = q \/ (~IsPrefix(p, q) /\ ~IsPrefix(q, p) /\ (statNode(q) => Node(q) # Dir /\ Node(p) # Dir))
      /\ \A r \in (Above(q) \union {q}) \ {p} : upperWhiteout(r) => LowerChildren(r) = {}
      /\ \A r \in Above(q) : statNode(r) => Node(r) = Dir
      /\ Becomes(IF CanPlace(u, q) THEN place(u, q, Moved(t, p, q)) ELSE u, copyUp(p).data, fds)
  BY DEF Rename, MayRename, KeepsRemoved, KeepsFiles, Gap
<1>2. p \in Shows(upper) /\ Node(p) = NodeOf(upper, p)
  BY <1>1, ViewIsShown DEF ViewShown, eval
<1>3. \A r \in LowerChildren(p) : r \notin Shows(upper)
  <2>1. LowerChildren(p) \subseteq Paths
    BY LowerTree DEF LowerChildren
  <2>2. CASE Node(p) # Dir
    <3>1. NodeOf(upper, p).typ = "file"
      BY <1>2, <2>2, ShownNode
    <3>2. p \in DOMAIN upper => LowerChildren(p) = {}
      BY <3>1 DEF NodeOf, PlainInv, LayerInv, Sound
    <3>3. p \notin DOMAIN upper => p \in DOMAIN Lower /\ Lower[p] # Dir
      BY <1>2, <2>2 DEF NodeOf, Shows, Stat
    <3> QED BY <3>2, <3>3, LowerTree
  <2>3. CASE \A r \in LowerChildren(p) : ~eval(r)
    BY <2>1, <2>3, ViewIsShown DEF ViewShown
  <2> QED BY <1>1, <2>2, <2>3
<1>4. \A r \in Above(q) : Stat(upper, r) => NodeOf(upper, r) = Dir
  BY <1>1, ViewIsShown DEF ViewShown
<1>5. ASSUME p # q
      PROVE  /\ ~IsPrefix(p, q) /\ ~IsPrefix(q, p)
             /\ q \in Shows(upper) => NodeOf(upper, q) # Dir /\ NodeOf(upper, p) # Dir
             /\ \A r \in Above(q) \union {q} : r \in DOMAIN upper /\ upper[r] = White => LowerChildren(r) = {}
  <2>1. ~IsPrefix(p, q) /\ ~IsPrefix(q, p)
    BY <1>1, <1>5
  <2>2. q \in Shows(upper) => NodeOf(upper, q) # Dir /\ NodeOf(upper, p) # Dir
    BY <1>1, <1>2, <1>5, ViewIsShown DEF ViewShown, Shows
  <2>3. p \notin Above(q)
    BY <2>1, AboveIs
  <2> QED BY <1>1, <1>5, <2>1, <2>2, <2>3 DEF upperWhiteout
<1>6. CanPlace(u, q)
  <2>1. /\ Sound(t) /\ Shows(t) = Shows(upper)
        /\ \A r \in Paths : (Stat(t, r) <=> Stat(upper, r)) /\ NodeOf(t, r) = NodeOf(upper, r)
    BY <1>1, <1>2, CopiedUp
  <2>2. \A r \in DOMAIN u : u[r] \in {Dir, White} \/ (r \in DOMAIN t /\ u[r] = t[r])
    BY <1>2, <2>1, RemoveShows
  <2> HIDE DEF t, u
  <2>3. ASSUME NEW r \in Above(q), r \in DOMAIN u PROVE u[r].typ # "file"
    <3>1. r \in Paths /\ Dir.typ # "file" /\ White.typ # "file"
      BY DEF Above, Dir, White
    <3>2. CASE r \in DOMAIN t /\ u[r] = t[r] /\ t[r] # White
      <4>1. Stat(t, r) /\ NodeOf(t, r) = t[r]
        BY <3>2 DEF Stat, NodeOf
      <4> QED BY <1>4, <2>1, <3>1, <3>2, <4>1
    <3> QED BY <2>2, <2>3, <3>1, <3>2
  <2> QED BY <2>3 DEF CanPlace, CanMkdirAll
<1>7. Becomes(place(u, q, Moved(t, p, q)), copyUp(p).data, fds)
  BY <1>1, <1>6
<1> QED BY <1>1, <1>2, <1>3, <1>4, <1>5, <1>7

LEMMA RenamesShow ==
  ASSUME Gaps = {}, PlainInv, TypeOK', NEW p \in Paths, NEW q \in Paths, Rename(p, q)
  PROVE  PlainInv' /\ Plain!Rename(p, q)
<1> DEFINE t == copyUp(p).tree
           v == place(removeChild(t, p), q, Moved(t, p, q))
<1>1. /\ p \in Shows(upper) /\ CanCopyUp(p) /\ KeepsHandles(p, Fds)
      /\ \A r \in LowerChildren(p) : r \notin Shows(upper)
      /\ p # q => /\ ~IsPrefix(p, q) /\ ~IsPrefix(q, p)
                  /\ q \in Shows(upper) => NodeOf(upper, q) # Dir /\ NodeOf(upper, p) # Dir
                  /\ \A r \in Above(q) \union {q} : r \in DOMAIN upper /\ upper[r] = White => LowerChildren(r) = {}
      /\ \A r \in Above(q) : Stat(upper, r) => NodeOf(upper, r) = Dir
      /\ Becomes(v, copyUp(p).data, fds)
  BY RenamePlaces
<1>2. /\ Sound(t) /\ Shows(t) = Shows(upper) /\ Shown(t) = Shown(upper) /\ p \in DOMAIN t
      /\ \A r \in Paths : /\ Stat(t, r) <=> Stat(upper, r)
                          /\ NodeOf(t, r) = NodeOf(upper, r)
                          /\ r \in DOMAIN t /\ t[r] = White => r \in DOMAIN upper /\ upper[r] = White
  BY <1>1, CopiedUp
<1>3. Above(q) \subseteq Paths /\ Shows(upper) \subseteq Paths
  BY DEF Above, Shows
<1> HIDE DEF t
<1>4. /\ Sound(v) /\ Through(v) \subseteq Through(t)
      /\ \A s \in DOMAIN v : v[s] \in {Dir, White} \/ \E r \in DOMAIN t : v[s] = t[r]
      /\ Shown(v) = Plain!Graft(Without(upper, p), q, Seen(upper, p, q))
  <2>1. CASE p = q
    <3>1. /\ Sound(v) /\ Shown(v) = Shown(t) /\ Through(v) = Through(t)
          /\ DOMAIN v = DOMAIN t /\ \A s \in DOMAIN v : v[s] = t[s]
      BY <1>1, <1>2, <2>1, RenameSelfShows
    <3>2. Shown(t) = Plain!Graft(Without(upper, p), p, Seen(upper, p, p))
      BY <1>1, <1>2, PutBack, ViewIsShown DEF ViewShown
    <3> QED BY <2>1, <3>1, <3>2
  <2>2. CASE p # q
    <3>1. /\ \A r \in LowerChildren(p) : r \notin Shows(t)
          /\ \A r \in Above(q) \union {q} : r \in DOMAIN t /\ t[r] = White => LowerChildren(r) = {}
          /\ \A r \in Above(q) : Stat(t, r) => NodeOf(t, r) = Dir
          /\ q \in Shows(t) => NodeOf(t, q) # Dir
          /\ ~IsPrefix(p, q) /\ ~IsPrefix(q, p) /\ p \in Shows(t) /\ p \in DOMAIN t /\ Sound(t)
      BY <1>1, <1>2, <1>3, <2>2
    <3>2. /\ Sound(v) /\ Through(v) \subseteq Through(t)
          /\ Shown(v) = Plain!Graft(Without(t, p), q, Seen(t, p, q))
          /\ \A s \in DOMAIN v : v[s] \in {Dir, White} \/ \E r \in DOMAIN t : v[s] = t[r]
      BY <3>1, RenameShows
    <3>3. Without(t, p) = Without(upper, p)
      BY <1>2, <1>3 DEF Without
    <3>4. Seen(t, p, q) = Seen(upper, p, q)
      BY <1>2, <1>3 DEF Seen
    <3> QED BY <3>2, <3>3, <3>4
  <2> QED BY <2>1, <2>2
<1> HIDE DEF v
<1>5. PlainInv' /\ Plain!Becomes(Shown(v), ViewData, ViewFd)
  BY <1>1, <1>4, CopyUpAndMove DEF t
<1>6. Plain!Becomes(Plain!Graft(Plain!Cut(p), q, Plain!Moved(p, q)), ViewData, ViewFd)
  BY <1>4, <1>5, CutIs, MovedIs
<1>7. p \in DOMAIN ViewTree /\ Plain!CanMake(q)
  <2>1. \A r \in Above(q) : r \in Shows(upper) => NodeOf(upper, r).typ = "dir"
    BY <1>1 DEF Shows, Dir
  <2>2. \A r \in Plain!Above(q) : r \in DOMAIN ViewTree => Plain!Is(r, "dir")
    BY <2>1, PlainIs, PlainNames
  <2> QED BY <1>1, <2>2, PlainIs DEF Plain!CanMake
<1>8. p # q => ~Plain!IsPrefix(p, q) /\ ~Plain!IsPrefix(q, p)
  BY <1>1, PlainNames
<1>9. q \in DOMAIN ViewTree => p = q \/ (Plain!Is(q, "file") /\ Plain!Is(p, "file"))
  <2> SUFFICES ASSUME q \in Shows(upper), p # q PROVE Plain!Is(q, "file") /\ Plain!Is(p, "file")
    BY PlainIs
  <2>1. NodeOf(upper, q).typ = "file" /\ NodeOf(upper, p).typ = "file"
    BY <1>1, ShownNode
  <2> QED BY <1>1, <2>1, PlainIs
<1> QED BY <1>5, <1>6, <1>7, <1>8, <1>9 DEF Plain!Rename

LEMMA StartsPlain == Init => PlainInv /\ Plain!Init
<1> SUFFICES ASSUME Init PROVE PlainInv /\ Plain!Init
  OBVIOUS
<1>1. DOMAIN upper = {} /\ content = [i \in Ids |-> Empty] /\ fds = [f \in Fds |-> Closed]
  BY DEF Init
<1>2. UpUse(upper, fds) = {} /\ Closed.kind = "none" /\ Closed.ino = 0
  BY <1>1 DEF UpUse, Closed
<1>3. TypeOK
  BY <1>1 DEF TypeOK, IsTree, Data
<1>4. PlainInv
  <2>1. Sound(upper)
    BY <1>1, <1>3 DEF Sound, TypeOK
  <2>2. LowerHandles(fds)
    BY <1>1, <1>2 DEF LowerHandles
  <2>3. Apart(upper, fds)
    BY <1>2 DEF Apart
  <2>4. Clean
    BY <1>1, OverlayAssumption DEF Clean, Ids
  <2> QED BY <1>3, <2>1, <2>2, <2>3, <2>4 DEF PlainInv, LayerInv
<1>5. Shows(upper) = DOMAIN Lower /\ \A p \in DOMAIN Lower : NodeOf(upper, p) = Lower[p]
  <2>1. \A p \in Paths : p \in Shows(upper) <=> \A q \in Above(p) \union {p} : q \in DOMAIN Lower
    BY <1>1 DEF Shows, Stat
  <2>2. \A p \in DOMAIN Lower : p \in Paths /\ \A q \in Above(p) : q \in DOMAIN Lower
    BY LowerTree
  <2>3. Shows(upper) \subseteq Paths
    BY DEF Shows
  <2>4. \A p \in DOMAIN Lower : NodeOf(upper, p) = Lower[p]
    BY <1>1 DEF NodeOf
  <2>5. \A p : p \in Shows(upper) <=> p \in DOMAIN Lower
    BY <2>1, <2>2, <2>3
  <2> QED BY <2>4, <2>5
<1>6. ViewTree = Lower
  <2>1. ViewTree = [p \in DOMAIN Lower |-> Lower[p]]
    BY <1>5, ViewIsShown DEF ViewShown, Shown
  <2> QED BY <2>1, OverlayAssumption
<1>7. ViewData = StartData
  <2>1. Through(upper) = DOMAIN Lower
    BY <1>1, <1>5 DEF Through
  <2>2. LowUse(upper, fds) = {Lower[p].ino : p \in DOMAIN Lower}
    BY <1>1, <1>2, <2>1 DEF LowUse
  <2>3. ASSUME NEW i \in Ids PROVE i \in LowUse(upper, fds) <=> \E p \in DOMAIN Lower : Lower[p] = File(i)
    <3>1. i # 0
      BY OverlayAssumption
    <3>2. \A p \in DOMAIN Lower : Lower[p].ino = i <=> Lower[p] = File(i)
      BY <3>1, LowerTree DEF Dir, File
    <3> QED BY <2>2, <3>2
  <2>4. ViewData = [i \in Ids |-> LayerData(upper, content, fds, i)]
    BY <1>4, ViewIsLayers DEF ViewOfLayers
  <2>5. \A i \in Ids : LayerData(upper, content, fds, i) =
           IF \E p \in DOMAIN Lower : Lower[p] = File(i) THEN LowerData[i] ELSE Empty
    BY <1>2, <2>3 DEF LayerData
  <2> QED BY <2>4, <2>5 DEF StartData
<1>8. ViewFd = [f \in Fds |-> 0] /\ ViewReads = [f \in Fds |-> Empty]
  BY <1>1, <1>2 DEF ViewFd, ViewReads
<1> QED BY <1>4, <1>6, <1>7, <1>8 DEF Plain!Init

LEMMA StaysPlain ==
  ASSUME PlainInv, UNCHANGED vars
  PROVE  PlainInv' /\ UNCHANGED Plain!plainVars
<1>1. upper' = upper /\ content' = content /\ fds' = fds
  BY DEF vars
<1>2. PlainInv'
  BY <1>1 DEF PlainInv, LayerInv, TypeOK, Clean
<1>3. ViewTree' = ViewTree
  BY <1>1, ViewIsShown, ViewIsShownNext DEF ViewShown
<1>4. ViewData' = ViewData
  BY <1>1, <1>2, ViewIsLayers, ViewIsLayersNext DEF ViewOfLayers
<1>5. ViewFd' = ViewFd /\ ViewReads' = ViewReads
  BY <1>1 DEF ViewFd, ViewReads
<1> QED BY <1>2, <1>3, <1>4, <1>5 DEF Plain!plainVars

LEMMA StepsPlain ==
  ASSUME Gaps = {}, PlainInv, Next
  PROVE  PlainInv' /\ Plain!Next
<1>1. TypeOK
  BY DEF PlainInv
<1>2. ASSUME NEW f \in Fds, NEW p \in Paths,
             OpenRead(f, p) \/ OpenCreate(f, p) \/ \E t \in BOOLEAN : OpenWrite(f, p, t)
      PROVE  PlainInv' /\ (Plain!OpenFile(f, p) \/ Plain!OpenTrunc(f, p) \/ Plain!OpenCreate(f, p))
  <2>1. TypeOK'
    BY <1>1, <1>2, OpenKeepsType
  <2> QED BY <1>2, <2>1, OpenReadShows, OpenCreateShows, OpenWriteShows
<1>3. ASSUME NEW f \in Fds, Close(f) \/ Truncate(f) \/ \E g \in Fds : Dup(f, g)
      PROVE  PlainInv' /\ (Plain!Close(f) \/ Plain!Write(f, Empty) \/ \E g \in Fds : Plain!Dup(f, g))
  <2>1. TypeOK'
    BY <1>1, <1>3, DescriptorsKeepType
  <2> QED BY <1>3, <2>1, CloseShows, TruncateShows, DupShows
<1>4. ASSUME NEW f \in Fds, NEW v \in Written, Write(f, v) PROVE PlainInv' /\ Plain!Write(f, v)
  <2>1. TypeOK'
    BY <1>1, <1>4, DescriptorsKeepType
  <2> QED BY <1>4, <2>1, WriteShows
<1>5. ASSUME NEW p \in Paths, MkdirAll(p) \/ Unlink(p) \/ Rmdir(p) \/ \E v \in Written : WriteFile(p, v)
      PROVE  /\ PlainInv'
             /\ Plain!MkdirAll(p) \/ Plain!Unlink(p) \/ Plain!Rmdir(p) \/ \E v \in Written : Plain!WriteFile(p, v)
  <2>1. TypeOK'
    BY <1>1, <1>5, NamesKeepType
  <2> QED BY <1>5, <2>1, MkdirAllShows, UnlinkShows, RmdirShows, WriteFileShows
<1>6. ASSUME NEW p \in Paths, NEW q \in Paths, Rename(p, q) PROVE PlainInv' /\ Plain!Rename(p, q)
  <2>1. TypeOK'
    BY <1>1, <1>6, NamesKeepType
  <2> QED BY <1>6, <2>1, RenamesShow
<1>7. Written \subseteq Data /\ Empty \in Data
  BY DEF Data
<1> QED BY <1>2, <1>3, <1>4, <1>5, <1>6, <1>7 DEF Next, Plain!Next

\* Used as the packages above it do (Gaps = {}), the overlay is one plain file system:
\* every operation has the outcome it has there, whatever is in which layer.
THEOREM OverlayImplementsPlain ==
  ASSUME Gaps = {}
  PROVE  Spec => ImplementsPlainFs
<1>1. Init => PlainInv /\ Plain!Init
  BY StartsPlain
<1>2. PlainInv /\ [Next]_vars => PlainInv' /\ [Plain!Next]_Plain!plainVars
  BY StaysPlain, StepsPlain
<1> QED BY <1>1, <1>2, PTL DEF Spec, ImplementsPlainFs, Plain!Spec
=============================================================================
