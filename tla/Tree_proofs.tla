----------------------------- MODULE Tree_proofs -----------------------------
(***************************************************************************)
(* Proofs about module Tree, for any set of paths, open files, cache       *)
(* entries and surprises: a lookup keeps the tree sound (ReachOnward), and *)
(* so does every operation (the lemmas whose names end in Step), up to the *)
(* invariant TreeInv and the properties that follow from it; then, step by *)
(* step, what an operation does to the cache's entries (NextFollows).      *)
(***************************************************************************)
EXTENDS Tree, SequenceTheorems, WellFoundedInduction, TLAPS

(* Induction with a set in the place of the predicate. *)
LEMMA SetInduction ==
  ASSUME NEW T, 0 \in T, \A n \in Nat : n \in T => n + 1 \in T
  PROVE  Nat \subseteq T
<1> DEFINE U == Nat \ T
<1> SUFFICES ASSUME U # {} PROVE FALSE
  OBVIOUS
<1>1. PICK x \in U : \A y \in U : ~(<<y, x>> \in OpToRel(<, Nat))
  BY NatLessThanWellFounded, WFMin
<1>2. x # 0 /\ x - 1 \in Nat /\ x - 1 < x
  OBVIOUS
<1>3. <<x - 1, x>> \in OpToRel(<, Nat)
  BY <1>2 DEF OpToRel
<1>4. x - 1 \in T
  BY <1>1, <1>2, <1>3
<1> QED
  BY <1>2, <1>4

-----------------------------------------------------------------------------
(* Paths.  These lemmas look at the names in a path; nothing after them does. *)

LEMMA PathLength ==
  ASSUME NEW p \in Paths
  PROVE  /\ p \in Seq(Names) /\ Len(p) \in Nat
         /\ \A i \in 1..Len(p) : p[i] \in Names
         /\ p # Root <=> Len(p) > 0
<1>1. p \in Seq(Names)
  BY NamesAssumption
<1>2. Len(p) \in Nat /\ \A i \in 1..Len(p) : p[i] \in Names
  BY <1>1, LenProperties, ElementOfSeq
<1>3. p # Root <=> Len(p) > 0
  BY <1>1, <1>2, EmptySeq DEF Root
<1> QED
  BY <1>1, <1>2, <1>3

LEMMA RootIsPath == Root \in Paths /\ Len(Root) = 0
BY PathsAssumption, EmptySeq DEF Root

LEMMA PathEqual ==
  ASSUME NEW p \in Paths, NEW q \in Paths, Len(p) = Len(q), \A i \in 1..Len(p) : p[i] = q[i]
  PROVE  p = q
BY PathLength, SeqEqual

LEMMA ParentIs ==
  ASSUME NEW p \in Paths, p # Root
  PROVE  /\ Parent(p) \in Paths
         /\ Len(Parent(p)) = Len(p) - 1
         /\ \A i \in 1..Len(p) - 1 : Parent(p)[i] = p[i]
<1>1. Parent(p) \in Paths
  BY PathsAssumption DEF Parent, Root
<1>2. Len(p) \in Nat /\ Len(p) > 0 /\ \A i \in 1..Len(p) : p[i] \in Names
  BY PathLength
<1>3. \A i \in 1..Len(p) - 1 : p[i] \in Names
  BY <1>2
<1> DEFINE s == SubSeq(p, 1, Len(p) - 1)
           n == Len(p) - 1
<1>4. /\ Len(s) = IF 1 <= n THEN n - 1 + 1 ELSE 0
      /\ \A i \in 1..n - 1 + 1 : s[i] = p[1 + i - 1]
  BY <1>2, <1>3, SubSeqProperties
<1>5. Parent(p) = s
  BY DEF Parent
<1>n. n \in Nat /\ n = Len(p) - 1
  BY <1>2
<1> HIDE DEF s, n
<1>6. Len(Parent(p)) = Len(p) - 1
  BY <1>n, <1>4, <1>5
<1>7. ASSUME NEW i \in 1..Len(p) - 1
      PROVE  Parent(p)[i] = p[i]
  <2>1. i \in 1..n - 1 + 1 /\ 1 + i - 1 = i
    BY <1>n
  <2> QED
    BY <1>4, <1>5, <2>1
<1> QED
  BY <1>1, <1>6, <1>7

LEMMA UnderIs ==
  ASSUME NEW p \in Paths, NEW q \in Paths
  PROVE  IsUnder(q, p) <=> Len(p) <= Len(q) /\ \A i \in 1..Len(p) : q[i] = p[i]
<1>1. IsUnder(q, p) <=> Len(p) <= Len(q) /\ SubSeq(q, 1, Len(p)) = p
  BY DEF IsUnder, Under
<1>2. /\ p \in Seq(Names) /\ Len(p) \in Nat
      /\ Len(q) \in Nat /\ \A i \in 1..Len(q) : q[i] \in Names
  BY PathLength
<1>3. ASSUME Len(p) <= Len(q)
      PROVE  /\ SubSeq(q, 1, Len(p)) \in Seq(Names)
             /\ Len(SubSeq(q, 1, Len(p))) = Len(p)
             /\ \A i \in 1..Len(p) : SubSeq(q, 1, Len(p))[i] = q[i]
  <2>1. \A i \in 1..Len(p) : q[i] \in Names
    BY <1>2, <1>3
  <2>2. /\ SubSeq(q, 1, Len(p)) \in Seq(Names)
        /\ Len(SubSeq(q, 1, Len(p))) = IF 1 <= Len(p) THEN Len(p) - 1 + 1 ELSE 0
        /\ \A i \in 1..Len(p) - 1 + 1 : SubSeq(q, 1, Len(p))[i] = q[1 + i - 1]
    BY <1>2, <2>1, SubSeqProperties
  <2> QED
    BY <1>2, <2>2
<1>4. ASSUME Len(p) <= Len(q), \A i \in 1..Len(p) : q[i] = p[i]
      PROVE  SubSeq(q, 1, Len(p)) = p
  BY <1>2, <1>3, <1>4, SeqEqual
<1> QED
  BY <1>1, <1>3, <1>4

LEMMA UnderInPaths ==
  ASSUME NEW p \in Paths, NEW q, IsUnder(q, p)
  PROVE  q \in Paths
BY DEF IsUnder, Under

LEMMA UnderSelf ==
  ASSUME NEW p \in Paths
  PROVE  IsUnder(p, p)
BY UnderIs, PathLength

LEMMA UnderTransitive ==
  ASSUME NEW p \in Paths, NEW q \in Paths, NEW r \in Paths, IsUnder(r, q), IsUnder(q, p)
  PROVE  IsUnder(r, p)
BY UnderIs, PathLength

LEMMA UnderBoth ==
  ASSUME NEW p \in Paths, NEW q \in Paths, IsUnder(p, q), IsUnder(q, p)
  PROVE  p = q
BY UnderIs, PathLength, PathEqual

\* Two directories above one path: one is above the other.
LEMMA UnderComparable ==
  ASSUME NEW p \in Paths, NEW q \in Paths, NEW r \in Paths, IsUnder(r, p), IsUnder(r, q)
  PROVE  IsUnder(p, q) \/ IsUnder(q, p)
<1>1. /\ Len(p) \in Nat /\ Len(q) \in Nat
      /\ \A i \in 1..Len(p) : r[i] = p[i]
      /\ \A i \in 1..Len(q) : r[i] = q[i]
  BY UnderIs, PathLength
<1>2. CASE Len(p) <= Len(q)
  BY <1>1, <1>2, UnderIs
<1>3. CASE Len(q) <= Len(p)
  BY <1>1, <1>3, UnderIs
<1> QED
  BY <1>1, <1>2, <1>3

LEMMA RootUnder ==
  ASSUME NEW p \in Paths, IsUnder(Root, p)
  PROVE  p = Root
BY RootIsPath, UnderIs, PathLength

LEMMA ParentUnder ==
  ASSUME NEW p \in Paths, p # Root
  PROVE  IsUnder(p, Parent(p)) /\ ~IsUnder(Parent(p), p)
<1>1. Len(p) \in Nat /\ Len(p) > 0
  BY PathLength
<1> QED
  BY <1>1, ParentIs, UnderIs

LEMMA UnderOfParent ==
  ASSUME NEW p \in Paths, NEW q \in Paths, q # Root, IsUnder(Parent(q), p)
  PROVE  IsUnder(q, p) /\ q # p
<1>1. Parent(q) \in Paths
  BY ParentIs
<1>2. IsUnder(q, p)
  BY <1>1, ParentUnder, UnderTransitive
<1>3. q # p
  BY ParentUnder
<1> QED
  BY <1>2, <1>3

LEMMA UnderStrictly ==
  ASSUME NEW p \in Paths, NEW q \in Paths, IsUnder(q, p), q # p
  PROVE  q # Root /\ IsUnder(Parent(q), p)
<1>1. /\ Len(p) \in Nat /\ Len(q) \in Nat /\ Len(p) <= Len(q)
      /\ \A i \in 1..Len(p) : q[i] = p[i]
  BY UnderIs, PathLength
<1>2. Len(p) # Len(q)
  BY <1>1, PathEqual
<1>3. q # Root
  BY <1>1, <1>2, PathLength
<1>4. /\ Parent(q) \in Paths /\ Len(Parent(q)) = Len(q) - 1
      /\ \A i \in 1..Len(q) - 1 : Parent(q)[i] = q[i]
  BY <1>3, ParentIs
<1>5. \A i \in 1..Len(p) : Parent(q)[i] = p[i]
  BY <1>1, <1>2, <1>4
<1> QED
  BY <1>1, <1>2, <1>3, <1>4, <1>5, UnderIs

LEMMA ChildrenAre ==
  ASSUME NEW p \in Paths, NEW q
  PROVE  q \in Children[p] <=> q \in Paths /\ q # Root /\ Parent(q) = p
<1>1. q \in Children[p] <=> q \in Paths /\ IsUnder(q, p) /\ Len(q) = Len(p) + 1
  BY DEF Children, IsUnder, Under
<1>2. Len(p) \in Nat
  BY PathLength
<1>3. ASSUME q \in Paths, IsUnder(q, p), Len(q) = Len(p) + 1
      PROVE  q # Root /\ Parent(q) = p
  <2>1. q # p
    BY <1>2, <1>3
  <2>2. q # Root /\ IsUnder(Parent(q), p)
    BY <1>3, <2>1, UnderStrictly
  <2>3. Parent(q) \in Paths /\ Len(Parent(q)) = Len(p)
    BY <1>2, <1>3, <2>2, ParentIs
  <2>4. \A i \in 1..Len(p) : Parent(q)[i] = p[i]
    BY <2>2, <2>3, UnderIs
  <2> QED
    BY <2>2, <2>3, <2>4, PathEqual
<1>4. ASSUME q \in Paths, q # Root, Parent(q) = p
      PROVE  IsUnder(q, p) /\ Len(q) = Len(p) + 1
  <2>1. Len(q) \in Nat
    BY <1>4, PathLength
  <2> QED
    BY <1>4, <2>1, ParentUnder, ParentIs
<1> QED
  BY <1>1, <1>3, <1>4

\* What is known of r moves with the directory p to the directory q.
LEMMA RebaseIs ==
  ASSUME NEW p \in Paths, NEW q \in Paths, NEW r \in Paths, IsUnder(r, p)
  PROVE  /\ Rebase(r, p, q) \in Seq(Names)
         /\ Len(Rebase(r, p, q)) = Len(q) + (Len(r) - Len(p))
         /\ \A i \in 1..Len(q) : Rebase(r, p, q)[i] = q[i]
         /\ \A i \in 1..Len(r) - Len(p) : Rebase(r, p, q)[Len(q) + i] = r[Len(p) + i]
<1> DEFINE s == SubSeq(r, Len(p) + 1, Len(r))
<1>1. /\ Len(p) \in Nat /\ Len(q) \in Nat /\ Len(r) \in Nat /\ q \in Seq(Names)
      /\ \A i \in 1..Len(r) : r[i] \in Names
  BY PathLength
<1>2. Len(p) <= Len(r)
  BY UnderIs
<1>3. \A i \in Len(p) + 1..Len(r) : r[i] \in Names
  BY <1>1
<1>4. /\ s \in Seq(Names)
      /\ Len(s) = IF Len(p) + 1 <= Len(r) THEN Len(r) - (Len(p) + 1) + 1 ELSE 0
      /\ \A i \in 1..Len(r) - (Len(p) + 1) + 1 : s[i] = r[Len(p) + 1 + i - 1]
  <2>1. Len(p) + 1 \in Int /\ Len(r) \in Int
    BY <1>1
  <2> QED
    BY <1>3, <2>1, SubSeqProperties
<1>5. Rebase(r, p, q) = q \o s
  BY DEF Rebase
<1> HIDE DEF s
<1>6. Len(s) = Len(r) - Len(p)
  BY <1>1, <1>2, <1>4
<1>7. ASSUME NEW i \in 1..Len(r) - Len(p)
      PROVE  s[i] = r[Len(p) + i]
  <2>1. i \in 1..Len(r) - (Len(p) + 1) + 1 /\ Len(p) + 1 + i - 1 = Len(p) + i
    BY <1>1
  <2> QED
    BY <1>4, <2>1
<1>8. /\ q \o s \in Seq(Names) /\ Len(q \o s) = Len(q) + Len(s)
      /\ \A i \in 1..Len(q) + Len(s) : (q \o s)[i] = IF i <= Len(q) THEN q[i] ELSE s[i - Len(q)]
  BY <1>1, <1>4, ConcatProperties
<1>9. ASSUME NEW i \in 1..Len(r) - Len(p)
      PROVE  (q \o s)[Len(q) + i] = r[Len(p) + i]
  <2>1. Len(q) + i \in 1..Len(q) + Len(s) /\ ~(Len(q) + i <= Len(q)) /\ Len(q) + i - Len(q) = i
    BY <1>1, <1>6
  <2> QED
    BY <1>7, <1>8, <2>1
<1>10. ASSUME NEW i \in 1..Len(q)
       PROVE  (q \o s)[i] = q[i]
  <2>1. i \in 1..Len(q) + Len(s) /\ i <= Len(q)
    BY <1>1, <1>2, <1>6
  <2> QED
    BY <1>8, <2>1
<1> QED
  BY <1>5, <1>6, <1>8, <1>9, <1>10

LEMMA RebaseSelf ==
  ASSUME NEW p \in Paths, NEW q \in Paths
  PROVE  Rebase(p, p, q) = q
<1>1. IsUnder(p, p)
  BY UnderSelf
<1>2. /\ Rebase(p, p, q) \in Seq(Names)
      /\ Len(Rebase(p, p, q)) = Len(q) + (Len(p) - Len(p))
      /\ \A i \in 1..Len(q) : Rebase(p, p, q)[i] = q[i]
  BY <1>1, RebaseIs
<1>3. Len(p) \in Nat /\ Len(q) \in Nat /\ q \in Seq(Names)
  BY PathLength
<1> QED
  BY <1>2, <1>3, SeqEqual

LEMMA RebaseUnder ==
  ASSUME NEW p \in Paths, NEW q \in Paths, NEW r \in Paths, IsUnder(r, p), Rebase(r, p, q) \in Paths
  PROVE  IsUnder(Rebase(r, p, q), q)
<1>1. Len(p) \in Nat /\ Len(q) \in Nat /\ Len(r) \in Nat /\ Len(p) <= Len(r)
  BY PathLength, UnderIs
<1>2. /\ Len(Rebase(r, p, q)) = Len(q) + (Len(r) - Len(p))
      /\ \A i \in 1..Len(q) : Rebase(r, p, q)[i] = q[i]
  BY RebaseIs
<1>3. Len(q) <= Len(Rebase(r, p, q))
  BY <1>1, <1>2
<1> QED
  BY <1>2, <1>3, UnderIs

LEMMA RebaseBack ==
  ASSUME NEW p \in Paths, NEW q \in Paths, NEW r \in Paths, IsUnder(r, p), Rebase(r, p, q) \in Paths
  PROVE  Rebase(Rebase(r, p, q), q, p) = r
<1> DEFINE m == Rebase(r, p, q)
           b == Rebase(m, q, p)
<1>1. /\ Len(p) \in Nat /\ Len(q) \in Nat /\ Len(r) \in Nat /\ Len(p) <= Len(r)
      /\ r \in Seq(Names) /\ \A i \in 1..Len(p) : r[i] = p[i]
  BY PathLength, UnderIs
<1>2. m \in Paths /\ IsUnder(m, q)
  BY RebaseUnder
<1>3. /\ Len(m) = Len(q) + (Len(r) - Len(p))
      /\ \A i \in 1..Len(r) - Len(p) : m[Len(q) + i] = r[Len(p) + i]
  BY RebaseIs
<1> HIDE DEF m
<1>4. /\ b \in Seq(Names)
      /\ Len(b) = Len(p) + (Len(m) - Len(q))
      /\ \A i \in 1..Len(p) : b[i] = p[i]
      /\ \A i \in 1..Len(m) - Len(q) : b[Len(p) + i] = m[Len(q) + i]
  BY <1>2, RebaseIs
<1> HIDE DEF b
<1>5. Len(b) = Len(r)
  BY <1>1, <1>3, <1>4
<1>6. ASSUME NEW i \in 1..Len(r)
      PROVE  b[i] = r[i]
  <2>1. CASE i <= Len(p)
    BY <1>1, <1>4, <2>1
  <2>2. CASE i > Len(p)
    <3>1. i - Len(p) \in 1..Len(r) - Len(p) /\ i - Len(p) \in 1..Len(m) - Len(q) /\ Len(p) + (i - Len(p)) = i
      BY <1>1, <1>3, <2>2
    <3>2. b[Len(p) + (i - Len(p))] = r[Len(p) + (i - Len(p))]
      BY <1>3, <1>4, <3>1
    <3> QED
      BY <3>1, <3>2
  <2> QED
    BY <1>1, <2>1, <2>2
<1>7. b = r
  BY <1>1, <1>4, <1>5, <1>6, SeqEqual
<1> QED
  BY <1>7 DEF b, m

LEMMA RebaseParent ==
  ASSUME NEW p \in Paths, NEW q \in Paths, NEW r \in Paths, IsUnder(r, p), r # p, Rebase(r, p, q) \in Paths
  PROVE  /\ Rebase(r, p, q) # q /\ Rebase(r, p, q) # Root
         /\ Parent(Rebase(r, p, q)) = Rebase(Parent(r), p, q)
<1> DEFINE m == Rebase(r, p, q)
           b == Rebase(Parent(r), p, q)
<1>1. Len(p) \in Nat /\ Len(q) \in Nat /\ Len(r) \in Nat /\ Len(p) <= Len(r)
  BY PathLength, UnderIs
<1>2. r # Root /\ Parent(r) \in Paths /\ IsUnder(Parent(r), p) /\ Len(Parent(r)) = Len(r) - 1
  BY UnderStrictly, ParentIs
<1>3. Len(p) <= Len(r) - 1
  BY <1>2, UnderIs
<1>4. /\ m \in Paths /\ Len(m) = Len(q) + (Len(r) - Len(p))
      /\ \A i \in 1..Len(q) : m[i] = q[i]
      /\ \A i \in 1..Len(r) - Len(p) : m[Len(q) + i] = r[Len(p) + i]
  BY RebaseIs
<1> HIDE DEF m
<1>a. /\ b \in Seq(Names) /\ Len(b) = Len(q) + (Len(Parent(r)) - Len(p))
      /\ \A i \in 1..Len(q) : b[i] = q[i]
      /\ \A i \in 1..Len(Parent(r)) - Len(p) : b[Len(q) + i] = Parent(r)[Len(p) + i]
  <2> DEFINE x == Parent(r)
  <2>1. x \in Paths /\ IsUnder(x, p)
    BY <1>2
  <2> HIDE DEF x
  <2>2. /\ Rebase(x, p, q) \in Seq(Names) /\ Len(Rebase(x, p, q)) = Len(q) + (Len(x) - Len(p))
        /\ \A i \in 1..Len(q) : Rebase(x, p, q)[i] = q[i]
        /\ \A i \in 1..Len(x) - Len(p) : Rebase(x, p, q)[Len(q) + i] = x[Len(p) + i]
    BY <2>1, RebaseIs, Zenon
  <2> QED
    BY <2>2 DEF x
<1> HIDE DEF b
<1>5. /\ b \in Seq(Names) /\ Len(b) = Len(q) + (Len(r) - 1 - Len(p))
      /\ \A i \in 1..Len(q) : b[i] = q[i]
      /\ \A i \in 1..Len(r) - 1 - Len(p) : b[Len(q) + i] = Parent(r)[Len(p) + i]
  BY <1>a, <1>2
<1>6. m # q /\ m # Root
  BY <1>1, <1>3, <1>4, PathLength
<1>7. /\ Parent(m) \in Seq(Names) /\ Len(Parent(m)) = Len(m) - 1
      /\ \A i \in 1..Len(m) - 1 : Parent(m)[i] = m[i]
  BY <1>4, <1>6, ParentIs, PathLength
<1>8. \A i \in 1..Len(r) - 1 : Parent(r)[i] = r[i]
  BY <1>2, ParentIs
<1>9. ASSUME NEW i \in 1..Len(b)
      PROVE  Parent(m)[i] = b[i]
  <2>1. i \in 1..Len(m) - 1
    BY <1>1, <1>3, <1>4, <1>5
  <2>2. CASE i <= Len(q)
    BY <1>1, <1>4, <1>5, <1>7, <2>1, <2>2
  <2>3. CASE i > Len(q)
    <3> DEFINE j == i - Len(q)
    <3>1. /\ j \in 1..Len(r) - Len(p) /\ j \in 1..Len(r) - 1 - Len(p) /\ Len(q) + j = i
          /\ Len(p) + j \in 1..Len(r) - 1
      BY <1>1, <1>3, <1>5, <2>3
    <3> HIDE DEF j
    <3>2. m[Len(q) + j] = r[Len(p) + j] /\ b[Len(q) + j] = Parent(r)[Len(p) + j]
      BY <1>4, <1>5, <3>1
    <3>3. Parent(r)[Len(p) + j] = r[Len(p) + j]
      BY <1>8, <3>1
    <3>4. m[i] = b[i]
      BY <3>1, <3>2, <3>3
    <3> QED
      BY <1>7, <2>1, <3>4
  <2> QED
    BY <1>1, <2>1, <2>2, <2>3, <1>4
<1>10. Len(Parent(m)) = Len(b)
  BY <1>1, <1>4, <1>5, <1>7
<1>11. Parent(m) = b
  BY <1>5, <1>7, <1>9, <1>10, SeqEqual
<1> QED
  BY <1>6, <1>11 DEF m, b

-----------------------------------------------------------------------------
(* A set of paths X with the parents of its members in D: what is above a  *)
(* member is in D and has a child in X on the way down to it.              *)

LEMMA AncestorsIn ==
  ASSUME NEW X, NEW D, X \subseteq Paths, D \subseteq X,
         \A r \in X : r # Root => Parent(r) \in D,
         NEW p \in Paths, NEW h \in X, IsUnder(h, p), h # p
  PROVE  p \in D /\ \E c \in Children[p] : c \in X /\ IsUnder(h, c)
<1> DEFINE Holds(x) == p \in D /\ \E c \in Children[p] : c \in X /\ IsUnder(x, c)
           T == {n \in Nat : \A x \in X : IsUnder(x, p) /\ x # p /\ Len(x) = n => Holds(x)}
<1>1. 0 \in T
  <2> SUFFICES ASSUME NEW x \in X, IsUnder(x, p), x # p, Len(x) = 0 PROVE FALSE
    OBVIOUS
  <2>1. x \in Paths /\ x # Root
    BY UnderStrictly
  <2> QED
    BY <2>1, PathLength
<1>2. ASSUME NEW n \in Nat, n \in T
      PROVE  n + 1 \in T
  <2> SUFFICES ASSUME NEW x \in X, IsUnder(x, p), x # p, Len(x) = n + 1
               PROVE  Holds(x)
    OBVIOUS
  <2>1. x \in Paths /\ x # Root /\ Parent(x) \in D /\ Parent(x) \in X /\ IsUnder(Parent(x), p)
    BY UnderStrictly
  <2>2. CASE Parent(x) = p
    BY <2>1, <2>2, ChildrenAre, UnderSelf
  <2>3. CASE Parent(x) # p
    <3>1. Len(Parent(x)) = n
      BY <2>1, ParentIs
    <3>2. Holds(Parent(x))
      BY <1>2, <2>1, <2>3, <3>1
    <3>3. PICK c \in Children[p] : c \in X /\ IsUnder(Parent(x), c)
      BY <3>2
    <3>4. IsUnder(x, c)
      BY <2>1, <3>3, UnderOfParent
    <3> QED
      BY <3>2, <3>3, <3>4
  <2> QED
    BY <2>2, <2>3
<1>3. Len(h) \in T
  <2>1. Len(h) \in Nat
    BY PathLength
  <2> HIDE DEF T
  <2> QED
    BY <1>1, <1>2, <2>1, SetInduction
<1> QED
  BY <1>3

-----------------------------------------------------------------------------
(* What is invariant of a tree t and handles h of it; of a tree that tells *)
(* the truth about the files f of the device; and of a state of a lookup.  *)

Shape(t) ==
  /\ Root \in DOMAIN t /\ DOMAIN t \subseteq Paths
  /\ \A p \in DOMAIN t :
       /\ t[p] \in Node
       /\ p = Root \/ (Parent(p) \in DOMAIN t /\ t[Parent(p)].kind = "dir")
       /\ t[p].kind # "reg" => ~t[p].dirty /\ t[p].entry = None

HandlesOf(t, h) ==
  /\ h \in [Fds -> (DOMAIN t) \cup {Null, Freed}]
  /\ \A fd \in Fds : h[fd] \in DOMAIN t => t[h[fd]].kind = "reg"

\* sure: the paths whose nodes have the times and the cache entries of the files.
NodeTrue(n, p, f, known, sure) ==
  /\ IF n.kind = "err" THEN f[p] = "none" ELSE n.kind = f[p]
  /\ n.synced => \A q \in Children[p] : f[q] # "none" => q \in known
  /\ p \in sure => (n.kind = "reg" /\ ~n.dirty => ~n.behind) /\ n.entry \in {None, p}

Truthful(t, f, sure) == \A p \in DOMAIN t : NodeTrue(t[p], p, f, DOMAIN t, sure)

\* All of them, unless the device's clock is ahead or an entry is astray.
Sure == {p \in Paths : ~Ahead /\ ~stranded}

LEMMA SureIs == (Sure = {} \/ Sure = Paths) /\ (Ahead => Sure = {})
BY DEF Sure

LEMMA SureStays ==
  ASSUME UNCHANGED stranded
  PROVE  Sure' = Sure
BY DEF Sure

LEMMA TruthfulLess ==
  ASSUME NEW t, NEW f, NEW sure, NEW less, less \subseteq sure, Truthful(t, f, sure)
  PROVE  Truthful(t, f, less)
BY DEF Truthful, NodeTrue

NoneFreed(h) == \A fd \in Fds : h[fd] # Freed

FilesShape(f) ==
  /\ f \in [Paths -> Kinds] /\ f[Root] = "dir"
  /\ \A p \in Paths \ {Root} : f[p] # "none" => f[Parent(p)] = "dir"

\* All nodes down to p are known and fresh: a lookup leaves them alone.
Settled(t, p) ==
  \A r \in Paths : IsUnder(p, r) => r \in DOMAIN t /\ (r # Root => ~Expired(t[r]))

-----------------------------------------------------------------------------
(* Nodes *)

LEMMA NewNodeIs ==
  ASSUME NEW kind \in {"reg", "dir", "err"}, NEW isdir \in BOOLEAN, NEW behind \in BOOLEAN
  PROVE  /\ NewNode(kind, isdir, behind) \in Node
         /\ NewNode(kind, isdir, behind).kind = kind
         /\ NewNode(kind, isdir, behind).behind = behind
         /\ ~NewNode(kind, isdir, behind).expired
         /\ ~NewNode(kind, isdir, behind).synced
         /\ ~NewNode(kind, isdir, behind).dirty
         /\ NewNode(kind, isdir, behind).entry = None
BY DEF NewNode, Node

LEMMA NodeFields ==
  ASSUME NEW n \in Node
  PROVE  /\ n.kind \in {"reg", "dir", "err"} /\ n.isdir \in BOOLEAN /\ n.behind \in BOOLEAN
         /\ n.expired \in BOOLEAN /\ n.synced \in BOOLEAN /\ n.dirty \in BOOLEAN
         /\ n.entry \in Paths \cup {None}
BY DEF Node

\* The same node but for its flags and its entry.
Kin(n, m) == m \in Node /\ m.kind = n.kind /\ (m.kind # "reg" => ~m.dirty /\ m.entry = None)

\* ... which stays true where n is.
Tended(n, m, p, sure) ==
  /\ m.synced => n.synced
  /\ p \in sure => (m.kind = "reg" /\ ~m.dirty => ~m.behind) /\ m.entry \in {None, p}

LEMMA AlikeShape ==
  ASSUME NEW t, NEW u, Shape(t), DOMAIN u = DOMAIN t, \A q \in DOMAIN t : Kin(t[q], u[q])
  PROVE  Shape(u)
BY DEF Shape, Kin

LEMMA AlikeHandles ==
  ASSUME NEW t, NEW u, NEW h, HandlesOf(t, h), DOMAIN u = DOMAIN t, \A q \in DOMAIN t : Kin(t[q], u[q])
  PROVE  HandlesOf(u, h)
BY DEF HandlesOf, Kin

LEMMA AlikeTruthful ==
  ASSUME NEW t, NEW u, NEW f, NEW sure, Truthful(t, f, sure), DOMAIN u = DOMAIN t,
         \A q \in DOMAIN t : Kin(t[q], u[q]) /\ Tended(t[q], u[q], q, sure)
  PROVE  Truthful(u, f, sure)
BY DEF Truthful, NodeTrue, Kin, Tended

LEMMA TendedSelf ==
  ASSUME NEW t, NEW f, NEW sure, Shape(t)
  PROVE  \A q \in DOMAIN t : Kin(t[q], t[q]) /\ (Truthful(t, f, sure) => Tended(t[q], t[q], q, sure))
BY DEF Truthful, NodeTrue, Kin, Tended, Shape

\* One node of the tree is changed.
LEMMA OneAlike ==
  ASSUME NEW t, Shape(t), NEW p \in DOMAIN t, NEW m, Kin(t[p], m), NEW f, NEW sure, NEW h, HandlesOf(t, h),
         Truthful(t, f, sure) => Tended(t[p], m, p, sure),
         NEW u, DOMAIN u = DOMAIN t, u[p] = m, \A q \in DOMAIN t : q # p => u[q] = t[q]
  PROVE  Shape(u) /\ HandlesOf(u, h) /\ (Truthful(t, f, sure) => Truthful(u, f, sure))
<1>1. \A q \in DOMAIN t : Kin(t[q], u[q])
  BY TendedSelf
<1>2. Truthful(t, f, sure) => \A q \in DOMAIN t : Tended(t[q], u[q], q, sure)
  BY TendedSelf
<1> QED
  BY <1>1, <1>2, AlikeShape, AlikeHandles, AlikeTruthful

\* refresh_stat, and a change of the device that a node does not learn of.
Behind(n, b) == [n EXCEPT !.behind = b]

IsRefreshed(u, t, p) ==
  /\ DOMAIN u = DOMAIN t /\ \A q \in DOMAIN t : q # p => u[q] = t[q]
  /\ p \in DOMAIN t => u[p] = Behind(t[p], Ahead)

IsLeft(u, t, ps) ==
  /\ DOMAIN u = DOMAIN t /\ \A q \in DOMAIN t : q \notin ps => u[q] = t[q]
  /\ \A q \in DOMAIN t : u[q] \in {t[q], Behind(t[q], TRUE)}
  /\ Root \in DOMAIN t => u[Root] = t[Root]

LEMMA RefreshStatIs ==
  ASSUME NEW t, NEW p
  PROVE  IsRefreshed(RefreshStat(t, p), t, p)
BY DEF IsRefreshed, RefreshStat, Behind

LEMMA LeaveBehindIs ==
  ASSUME NEW t, NEW ps
  PROVE  IsLeft(LeaveBehind(t, ps), t, ps)
BY DEF IsLeft, LeaveBehind, Behind

LEMMA BehindIs ==
  ASSUME NEW n \in Node, NEW m, m = Behind(n, TRUE) \/ m = Behind(n, FALSE) \/ m = Behind(n, Ahead)
  PROVE  /\ m \in Node /\ m.kind = n.kind /\ m.entry = n.entry /\ m.dirty = n.dirty
         /\ m.synced = n.synced /\ m.expired = n.expired /\ (m = Behind(n, Ahead) => m.behind = Ahead)
BY AheadAssumption DEF Node, Behind

LEMMA RefreshedNodes ==
  ASSUME NEW t, Shape(t), NEW p, NEW u, IsRefreshed(u, t, p), NEW q \in DOMAIN t
  PROVE  /\ Kin(t[q], u[q]) /\ u[q].entry = t[q].entry /\ u[q].synced = t[q].synced
         /\ u[q].dirty = t[q].dirty /\ (u[q].behind => t[q].behind \/ Ahead)
<1>1. t[q] \in Node /\ (t[q].kind # "reg" => ~t[q].dirty /\ t[q].entry = None)
  BY DEF Shape
<1>2. CASE q # p
  BY <1>1, <1>2 DEF IsRefreshed, Kin
<1>3. CASE q = p
  <2>1. u[q] = Behind(t[q], Ahead)
    BY <1>3 DEF IsRefreshed
  <2> QED
    BY <1>1, <2>1, BehindIs DEF Kin
<1> QED
  BY <1>2, <1>3

LEMMA RefreshedKeeps ==
  ASSUME NEW t, Shape(t), NEW h, HandlesOf(t, h), NEW p, NEW u, u = RefreshStat(t, p)
  PROVE  Shape(u) /\ HandlesOf(u, h)
<1>1. IsRefreshed(u, t, p)
  BY RefreshStatIs
<1>2. \A q \in DOMAIN t : Kin(t[q], u[q])
  BY <1>1, RefreshedNodes
<1>3. DOMAIN u = DOMAIN t
  BY <1>1 DEF IsRefreshed
<1> QED
  BY <1>2, <1>3, AlikeShape, AlikeHandles

LEMMA RefreshedTrue ==
  ASSUME NEW t, Shape(t), NEW f, NEW sure, Truthful(t, f, sure), Ahead => sure = {},
         NEW p, NEW u, u = RefreshStat(t, p)
  PROVE  Truthful(u, f, sure)
<1>1. IsRefreshed(u, t, p)
  BY RefreshStatIs
<1>2. ASSUME NEW q \in DOMAIN t
      PROVE  Kin(t[q], u[q]) /\ Tended(t[q], u[q], q, sure)
  <2>1. /\ Kin(t[q], u[q]) /\ u[q].entry = t[q].entry /\ u[q].synced = t[q].synced
        /\ u[q].dirty = t[q].dirty /\ (u[q].behind => t[q].behind \/ Ahead)
    BY <1>1, RefreshedNodes
  <2> QED
    BY <2>1 DEF Kin, Tended, Truthful, NodeTrue
<1>3. DOMAIN u = DOMAIN t
  BY <1>1 DEF IsRefreshed
<1> QED
  BY <1>2, <1>3, AlikeTruthful

LEMMA LeftNodes ==
  ASSUME NEW t, Shape(t), NEW ps, NEW u, IsLeft(u, t, ps), NEW q \in DOMAIN t
  PROVE  /\ Kin(t[q], u[q]) /\ u[q].entry = t[q].entry /\ u[q].synced = t[q].synced
         /\ u[q].dirty = t[q].dirty /\ u[q].kind = t[q].kind
<1>1. t[q] \in Node /\ (t[q].kind # "reg" => ~t[q].dirty /\ t[q].entry = None)
  BY DEF Shape
<1>2. u[q] = t[q] \/ u[q] = Behind(t[q], TRUE)
  BY DEF IsLeft
<1>3. CASE u[q] = t[q]
  BY <1>1, <1>3 DEF Kin
<1>4. CASE u[q] = Behind(t[q], TRUE)
  BY <1>1, <1>4, BehindIs DEF Kin
<1> QED
  BY <1>2, <1>3, <1>4

LEMMA LeftKeeps ==
  ASSUME NEW t, Shape(t), NEW h, HandlesOf(t, h), NEW ps, NEW u, u = LeaveBehind(t, ps)
  PROVE  Shape(u) /\ HandlesOf(u, h)
<1>1. IsLeft(u, t, ps)
  BY LeaveBehindIs
<1>2. DOMAIN u = DOMAIN t /\ \A q \in DOMAIN t : Kin(t[q], u[q])
  BY <1>1, LeftNodes DEF IsLeft
<1> QED
  BY <1>2, AlikeShape, AlikeHandles

LEMMA LeftTrue ==
  ASSUME NEW t, Shape(t), NEW f, NEW sure, Truthful(t, f, sure), NEW ps,
         \A q \in ps \cap DOMAIN t : q # Root => t[q].kind # "reg",
         NEW u, u = LeaveBehind(t, ps)
  PROVE  Truthful(u, f, sure)
<1>1. IsLeft(u, t, ps)
  BY LeaveBehindIs
<1>2. ASSUME NEW q \in DOMAIN t
      PROVE  Kin(t[q], u[q]) /\ Tended(t[q], u[q], q, sure)
  <2>1. /\ Kin(t[q], u[q]) /\ u[q].entry = t[q].entry /\ u[q].synced = t[q].synced
        /\ u[q].dirty = t[q].dirty /\ u[q].kind = t[q].kind
    BY <1>1, LeftNodes
  <2>2. t[q].kind = "reg" => u[q] = t[q]
    BY <1>1 DEF IsLeft
  <2> QED
    BY <2>1, <2>2 DEF Kin, Tended, Truthful, NodeTrue
<1>3. DOMAIN u = DOMAIN t
  BY <1>1 DEF IsLeft
<1> QED
  BY <1>2, <1>3, AlikeTruthful

-----------------------------------------------------------------------------
(* A node that is put into the tree, or taken out of it, with all below it. *)

Put(t, p, n) == With(Without(t, Subtree(t, p) \ {p}), p, n)

LEMMA SubtreeIs ==
  ASSUME NEW t, NEW p, NEW q
  PROVE  q \in Subtree(t, p) <=> q \in DOMAIN t /\ IsUnder(q, p)
BY DEF Subtree

\* Only a directory has nodes below it.
LEMMA NothingBelow ==
  ASSUME NEW t, Shape(t), NEW p \in Paths, p \in DOMAIN t => t[p].kind # "dir"
  PROVE  Subtree(t, p) \ {p} = {}
<1> SUFFICES ASSUME NEW h \in Subtree(t, p), h # p PROVE FALSE
  OBVIOUS
<1> DEFINE D == {q \in DOMAIN t : t[q].kind = "dir"}
<1>1. h \in DOMAIN t /\ IsUnder(h, p)
  BY SubtreeIs
<1>2. DOMAIN t \subseteq Paths /\ D \subseteq DOMAIN t /\ \A r \in DOMAIN t : r # Root => Parent(r) \in D
  BY DEF Shape
<1>3. p \notin D
  OBVIOUS
<1> HIDE DEF D
<1>4. p \in D
  BY <1>1, <1>2, AncestorsIn
<1> QED
  BY <1>3, <1>4

IsPut(u, t, p, n) ==
  /\ DOMAIN u = (DOMAIN t \ (Subtree(t, p) \ {p})) \cup {p} /\ u[p] = n
  /\ \A q \in DOMAIN u : q # p => q \in DOMAIN t /\ u[q] = t[q]
  /\ \A q \in DOMAIN t : ~IsUnder(q, p) => q \in DOMAIN u

LEMMA PutIs ==
  ASSUME NEW t, NEW p, NEW n
  PROVE  IsPut(Put(t, p, n), t, p, n)
BY SubtreeIs DEF Put, With, Without, IsPut

LEMMA PutShape ==
  ASSUME NEW t, Shape(t), NEW p \in Paths, p # Root,
         Parent(p) \in DOMAIN t, t[Parent(p)].kind = "dir",
         NEW n \in Node, n.kind # "reg" => ~n.dirty /\ n.entry = None
  PROVE  Shape(Put(t, p, n))
<1> DEFINE u == Put(t, p, n)
<1>a. IsPut(u, t, p, n)
  BY PutIs
<1> HIDE DEF u
<1>1. /\ DOMAIN u = (DOMAIN t \ (Subtree(t, p) \ {p})) \cup {p} /\ u[p] = n
      /\ \A q \in DOMAIN u : q # p => q \in DOMAIN t /\ u[q] = t[q]
      /\ \A q \in DOMAIN t : ~IsUnder(q, p) => q \in DOMAIN u
  BY <1>a DEF IsPut
<1>2. Root \in DOMAIN t /\ DOMAIN t \subseteq Paths
  BY DEF Shape
<1>3. Root \in DOMAIN u
  BY <1>1, <1>2, RootUnder
<1>4. ASSUME NEW q \in DOMAIN u, q # Root
      PROVE  Parent(q) \in DOMAIN u /\ u[Parent(q)].kind = "dir"
  <2>1. CASE q = p
    <3>1. ~IsUnder(Parent(p), p) /\ Parent(p) # p
      BY ParentUnder, UnderSelf
    <3> QED
      BY <1>1, <2>1, <3>1
  <2>2. CASE q # p
    <3>1. q \in DOMAIN t /\ q \in Paths /\ Parent(q) \in DOMAIN t /\ t[Parent(q)].kind = "dir"
      BY <1>1, <1>2, <1>4, <2>2 DEF Shape
    <3>2. ~IsUnder(q, p)
      BY <1>1, <2>2, <3>1, SubtreeIs
    <3>3. ~IsUnder(Parent(q), p) /\ Parent(q) # p
      BY <1>2, <1>4, <3>1, <3>2, UnderOfParent, UnderSelf
    <3> QED
      BY <1>1, <3>1, <3>3
  <2> QED
    BY <2>1, <2>2
<1>5. \A q \in DOMAIN u : u[q] \in Node /\ (u[q].kind # "reg" => ~u[q].dirty /\ u[q].entry = None)
  BY <1>1 DEF Shape
<1>6. DOMAIN u \subseteq Paths
  BY <1>1, <1>2
<1>7. Shape(u)
  BY <1>3, <1>4, <1>5, <1>6 DEF Shape
<1> QED
  BY <1>7 DEF u

LEMMA PutHandles ==
  ASSUME NEW t, Shape(t), NEW p \in Paths, NEW n, NEW h, HandlesOf(t, h)
  PROVE  HandlesOf(Put(t, p, n), Erase(h, (Subtree(t, p) \ {p}) \cup {p}))
<1> DEFINE u == Put(t, p, n)
           below == Subtree(t, p) \ {p}
           g == Erase(h, below \cup {p})
<1>a. IsPut(u, t, p, n)
  BY PutIs
<1> HIDE DEF u
<1>1. /\ DOMAIN u = (DOMAIN t \ below) \cup {p} /\ u[p] = n
      /\ \A q \in DOMAIN u : q # p => q \in DOMAIN t /\ u[q] = t[q]
  BY <1>a DEF IsPut
<1>2. g = [fd \in Fds |-> IF h[fd] \in below \cup {p} THEN Null ELSE h[fd]]
  BY DEF Erase
<1> HIDE DEF u, below, g
<1>3. Null \notin DOMAIN u /\ Freed \notin DOMAIN u
  BY <1>1, NullAssumption DEF Shape
<1>4. ASSUME NEW fd \in Fds
      PROVE  /\ g[fd] \in DOMAIN u \cup {Null, Freed}
             /\ g[fd] \in DOMAIN u => u[g[fd]].kind = "reg"
  <2>1. h[fd] \in DOMAIN t \cup {Null, Freed} /\ (h[fd] \in DOMAIN t => t[h[fd]].kind = "reg")
    BY DEF HandlesOf
  <2>2. CASE h[fd] \in below \cup {p}
    BY <1>2, <1>3, <2>2
  <2>3. CASE h[fd] \notin below \cup {p}
    BY <1>1, <1>2, <1>3, <2>1, <2>3
  <2> QED
    BY <2>2, <2>3
<1>5. HandlesOf(u, g)
  BY <1>2, <1>4 DEF HandlesOf
<1> QED
  BY <1>5 DEF u, g, below

LEMMA PutTruthful ==
  ASSUME NEW t, Shape(t), NEW p \in Paths, p # Root, NEW n, NEW f, NEW sure, NEW g, Truthful(t, f, sure),
         \A q \in Paths : q # p => g[q] = f[q],
         IF n.kind = "err" THEN g[p] = "none" ELSE n.kind = g[p],
         ~n.synced, ~n.behind, n.entry = None
  PROVE  Truthful(Put(t, p, n), g, sure)
<1> DEFINE u == Put(t, p, n)
<1>a. IsPut(u, t, p, n)
  BY PutIs
<1> HIDE DEF u
<1>1. /\ DOMAIN u = (DOMAIN t \ (Subtree(t, p) \ {p})) \cup {p} /\ u[p] = n
      /\ \A q \in DOMAIN u : q # p => q \in DOMAIN t /\ u[q] = t[q]
      /\ \A q \in DOMAIN t : ~IsUnder(q, p) => q \in DOMAIN u
  BY <1>a DEF IsPut
<1>2. DOMAIN t \subseteq Paths
  BY DEF Shape
<1>3. ASSUME NEW q \in DOMAIN u
      PROVE  NodeTrue(u[q], q, g, DOMAIN u, sure)
  <2>1. CASE q = p
    BY <1>1, <2>1 DEF NodeTrue
  <2>2. CASE q # p
    <3>1. q \in DOMAIN t /\ q \in Paths /\ u[q] = t[q] /\ NodeTrue(t[q], q, f, DOMAIN t, sure)
      BY <1>1, <1>2, <2>2 DEF Truthful
    <3>2. ~IsUnder(q, p)
      BY <1>1, <2>2, <3>1, SubtreeIs
    <3>3. ASSUME NEW c \in Children[q], g[c] # "none", t[q].synced
          PROVE  c \in DOMAIN u
      <4>1. c \in Paths /\ c # Root /\ Parent(c) = q
        BY <3>1, ChildrenAre
      <4>2. CASE c = p
        BY <1>1, <4>2
      <4>3. CASE c # p
        <5>1. c \in DOMAIN t
          BY <3>1, <3>3, <4>1, <4>3 DEF NodeTrue
        <5>2. ~IsUnder(c, p)
          BY <3>2, <4>1, <4>3, UnderStrictly
        <5> QED
          BY <1>1, <5>1, <5>2
      <4> QED
        BY <4>2, <4>3
    <3> QED
      BY <2>2, <3>1, <3>3 DEF NodeTrue
  <2> QED
    BY <2>1, <2>2
<1>4. Truthful(u, g, sure)
  BY <1>3 DEF Truthful
<1> QED
  BY <1>4 DEF u

\* A lookup that makes the node at p anew does not disturb a settled path.
LEMMA PutSettled ==
  ASSUME NEW t, Shape(t), NEW p \in Paths, p # Root, NEW n, p \in DOMAIN t => Expired(t[p]),
         NEW x \in Paths, Settled(t, x)
  PROVE  /\ Settled(Put(t, p, n), x)
         /\ \A r \in Paths : IsUnder(x, r) => Put(t, p, n)[r] = t[r]
<1> DEFINE u == Put(t, p, n)
<1>a. IsPut(u, t, p, n)
  BY PutIs
<1> HIDE DEF u
<1>1. /\ DOMAIN u = (DOMAIN t \ (Subtree(t, p) \ {p})) \cup {p} /\ u[p] = n
      /\ \A q \in DOMAIN u : q # p => q \in DOMAIN t /\ u[q] = t[q]
      /\ \A q \in DOMAIN t : ~IsUnder(q, p) => q \in DOMAIN u
  BY <1>a DEF IsPut
<1>2. ~IsUnder(x, p)
  BY DEF Settled
<1>3. ASSUME NEW r \in Paths, IsUnder(x, r)
      PROVE  r \in DOMAIN u /\ u[r] = t[r] /\ (r # Root => ~Expired(t[r]))
  <2>1. ~IsUnder(r, p) /\ r # p
    BY <1>2, <1>3, UnderTransitive
  <2> QED
    BY <1>1, <1>3, <2>1 DEF Settled
<1>4. Settled(u, x)
  BY <1>3 DEF Settled
<1> QED
  BY <1>3, <1>4 DEF u

-----------------------------------------------------------------------------
(* Lookup *)

IsState(s) == s = [tree |-> s.tree, handles |-> s.handles, ok |-> s.ok] /\ s.ok \in BOOLEAN
Good(s) == IsState(s) /\ Shape(s.tree) /\ HandlesOf(s.tree, s.handles)
Honest(s) == Truthful(s.tree, device, Sure) /\ NoneFreed(s.handles)

EraseFrom(h, t, p) == Erase(h, (Subtree(t, p) \ {p}) \cup {p})

LEMMA RecordIs ==
  ASSUME NEW t, NEW h, NEW ok, NEW s, s \in [tree : {t}, handles : {h}, ok : {ok}]
  PROVE  s = [tree |-> t, handles |-> h, ok |-> ok]
OBVIOUS

LEMMA FailIs ==
  ASSUME NEW s, IsState(s)
  PROVE  Fail(s) = [tree |-> s.tree, handles |-> s.handles, ok |-> FALSE]
<1>1. Fail(s) \in [tree : {s.tree}, handles : {s.handles}, ok : {FALSE}]
  BY DEF IsState, Fail
<1> QED
  BY <1>1, RecordIs

LEMMA RecordState ==
  ASSUME NEW t, NEW h, NEW ok \in BOOLEAN, NEW s, s = [tree |-> t, handles |-> h, ok |-> ok]
  PROVE  IsState(s) /\ s.tree = t /\ s.handles = h /\ (s.ok <=> ok)
BY DEF IsState

LEMMA RecordFailed ==
  ASSUME NEW t, NEW h, NEW s, s = [tree |-> t, handles |-> h, ok |-> FALSE]
  PROVE  IsState(s) /\ s.tree = t /\ s.handles = h /\ ~s.ok
BY DEF IsState

\* The state a handler returns, with or without the error.
LEMMA MayFail ==
  ASSUME NEW t, NEW h, NEW ok \in BOOLEAN, NEW m, m = [tree |-> t, handles |-> h, ok |-> ok],
         NEW v, v \in {m, Fail(m)}
  PROVE  IsState(v) /\ v.tree = t /\ v.handles = h /\ (v.ok => ok) /\ (v = Fail(m) => ~v.ok)
<1>1. IsState(m) /\ m.tree = t /\ m.handles = h /\ (m.ok <=> ok)
  BY RecordState
<1>2. Fail(m) = [tree |-> t, handles |-> h, ok |-> FALSE]
  BY <1>1, FailIs
<1>3. IsState(Fail(m)) /\ Fail(m).tree = t /\ Fail(m).handles = h /\ ~Fail(m).ok
  BY <1>2, RecordFailed
<1> QED
  BY <1>1, <1>3

LEMMA TreeExcept ==
  ASSUME NEW s, IsState(s), NEW u
  PROVE  [s EXCEPT !.tree = u] = [tree |-> u, handles |-> s.handles, ok |-> s.ok]
<1>1. [s EXCEPT !.tree = u] \in [tree : {u}, handles : {s.handles}, ok : {s.ok}]
  BY DEF IsState
<1> QED
  BY <1>1, RecordIs

LEMMA BothExcept ==
  ASSUME NEW s, IsState(s), NEW u, NEW g
  PROVE  [s EXCEPT !.tree = u, !.handles = g] = [tree |-> u, handles |-> g, ok |-> s.ok]
<1>1. [s EXCEPT !.tree = u, !.handles = g] \in [tree : {u}, handles : {g}, ok : {s.ok}]
  BY DEF IsState
<1> QED
  BY <1>1, RecordIs

\* No handle has a node that is no regular file, or that is not there.
LEMMA NothingErased ==
  ASSUME NEW t, Shape(t), NEW h, HandlesOf(t, h), NEW p \in Paths,
         p \in DOMAIN t => t[p].kind = "err"
  PROVE  EraseFrom(h, t, p) = h
<1>1. Subtree(t, p) \ {p} = {}
  BY NothingBelow
<1>2. EraseFrom(h, t, p) = [fd \in Fds |-> IF h[fd] = p THEN Null ELSE h[fd]]
  BY <1>1 DEF EraseFrom, Erase
<1>3. \A fd \in Fds : h[fd] # p
  BY NullAssumption DEF HandlesOf
<1>4. EraseFrom(h, t, p) = [fd \in Fds |-> h[fd]]
  BY <1>2, <1>3
<1> QED
  BY <1>4 DEF HandlesOf

LEMMA WithIsPut ==
  ASSUME NEW t, Shape(t), NEW p \in Paths, p \in DOMAIN t => t[p].kind # "dir", NEW n
  PROVE  With(t, p, n) = Put(t, p, n)
<1>1. Subtree(t, p) \ {p} = {}
  BY NothingBelow
<1> DEFINE w == Without(t, {})
<1>2. DOMAIN w = DOMAIN t /\ \A q \in DOMAIN t : w[q] = t[q]
  BY DEF Without
<1> HIDE DEF w
<1>3. With(w, p, n) = With(t, p, n)
  BY <1>2 DEF With
<1> QED
  BY <1>1, <1>3 DEF Put, w

LEMMA MutateIs ==
  ASSUME NEW s, Good(s), NEW p \in DOMAIN s.tree, NEW n
  PROVE  MutateAndInvalidate(s, p, n)
           = [tree |-> Put(s.tree, p, n), handles |-> EraseFrom(s.handles, s.tree, p), ok |-> s.ok]
<1>1. IsState(s)
  BY DEF Good
<1>2. p \in Paths /\ Shape(s.tree) /\ HandlesOf(s.tree, s.handles)
  BY DEF Good, Shape
<1> DEFINE g == IF s.tree[p].kind = "err" THEN s.handles ELSE EraseFrom(s.handles, s.tree, p)
<1>3. MutateAndInvalidate(s, p, n) = [s EXCEPT !.tree = Put(s.tree, p, n), !.handles = g]
  BY DEF MutateAndInvalidate, Put, EraseFrom
<1>4. g = EraseFrom(s.handles, s.tree, p)
  BY <1>2, NothingErased
<1> HIDE DEF g
<1>5. [s EXCEPT !.tree = Put(s.tree, p, n), !.handles = g]
        = [tree |-> Put(s.tree, p, n), handles |-> g, ok |-> s.ok]
  BY <1>1, BothExcept
<1> QED
  BY <1>3, <1>4, <1>5

\* What a visit of p does to a state: nothing, a new node, or new flags.
Kept(s, v, p) ==
  /\ v.tree = s.tree /\ v.handles = s.handles
  /\ v.ok => p \in DOMAIN s.tree /\ ~Expired(s.tree[p])

Made(s, v, p, fate) ==
  \E kind \in {"reg", "dir", "err"}, isdir \in BOOLEAN :
    /\ v.tree = Put(s.tree, p, NewNode(kind, isdir, FALSE))
    /\ v.handles = EraseFrom(s.handles, s.tree, p)
    /\ Parent(p) \in DOMAIN s.tree /\ s.tree[Parent(p)].kind = "dir"
    /\ p \in DOMAIN s.tree => Expired(s.tree[p])
    /\ fate # "disconnected"
    /\ fate = "answered" => IF kind = "err" THEN device[p] = "none" ELSE kind = device[p]

Fresher(n, m) ==
  /\ m \in Node /\ m.kind = n.kind /\ m.dirty = n.dirty /\ m.entry = n.entry
  /\ ~m.expired /\ (m.behind => n.behind) /\ (m.synced => n.synced)

Renewed(s, v, p) ==
  /\ p \in DOMAIN s.tree /\ Expired(s.tree[p]) /\ v.handles = s.handles
  /\ \E m : v.tree = [s.tree EXCEPT ![p] = m] /\ Fresher(s.tree[p], m)

Visited(s, v, p, fate) ==
  /\ IsState(v) /\ (v.ok => s.ok)
  /\ Kept(s, v, p) \/ Made(s, v, p, fate) \/ Renewed(s, v, p)

LEMMA MutateVisited ==
  ASSUME NEW s, Good(s), NEW p \in DOMAIN s.tree, p # Root, Expired(s.tree[p]),
         NEW kind \in {"reg", "dir", "err"}, NEW isdir \in BOOLEAN,
         NEW fate, fate # "disconnected",
         fate = "answered" => IF kind = "err" THEN device[p] = "none" ELSE kind = device[p],
         NEW v, v \in {MutateAndInvalidate(s, p, NewNode(kind, isdir, FALSE)),
                       Fail(MutateAndInvalidate(s, p, NewNode(kind, isdir, FALSE)))}
  PROVE  Visited(s, v, p, fate)
<1> DEFINE m == MutateAndInvalidate(s, p, NewNode(kind, isdir, FALSE))
           w == Put(s.tree, p, NewNode(kind, isdir, FALSE))
           g == EraseFrom(s.handles, s.tree, p)
<1>1. m = [tree |-> w, handles |-> g, ok |-> s.ok]
  BY MutateIs
<1>2. s.ok \in BOOLEAN
  BY DEF Good, IsState
<1>3. v \in {m, Fail(m)}
  OBVIOUS
<1> HIDE DEF m, w, g
<1>6. IsState(v) /\ (v.ok => s.ok) /\ v.tree = w /\ v.handles = g
  BY <1>1, <1>2, <1>3, MayFail
<1>7. Parent(p) \in DOMAIN s.tree /\ s.tree[Parent(p)].kind = "dir"
  BY DEF Good, Shape
<1> QED
  BY <1>6, <1>7 DEF Visited, Made, w, g

Inserted(s, p, n) == [s EXCEPT !.tree = With(s.tree, p, n)]

LEMMA InsertVisited ==
  ASSUME NEW s, Good(s), NEW p \in Paths, p # Root, p \notin DOMAIN s.tree,
         Parent(p) \in DOMAIN s.tree, s.tree[Parent(p)].kind = "dir",
         NEW kind \in {"reg", "dir", "err"}, NEW isdir \in BOOLEAN,
         NEW fate, fate # "disconnected",
         fate = "answered" => IF kind = "err" THEN device[p] = "none" ELSE kind = device[p],
         NEW v, v \in {Inserted(s, p, NewNode(kind, isdir, FALSE)),
                       Fail(Inserted(s, p, NewNode(kind, isdir, FALSE)))}
  PROVE  Visited(s, v, p, fate)
<1> DEFINE w == With(s.tree, p, NewNode(kind, isdir, FALSE))
           m == [s EXCEPT !.tree = w]
<1>1. w = Put(s.tree, p, NewNode(kind, isdir, FALSE))
  BY WithIsPut DEF Good
<1>2. IsState(s) /\ s.ok \in BOOLEAN
  BY DEF Good, IsState
<1>3. v \in {m, Fail(m)}
  BY DEF Inserted
<1> HIDE DEF w
<1>4. m = [tree |-> w, handles |-> s.handles, ok |-> s.ok]
  BY <1>2, TreeExcept
<1> HIDE DEF m
<1>7. IsState(v) /\ (v.ok => s.ok) /\ v.tree = w /\ v.handles = s.handles
  BY <1>2, <1>3, <1>4, MayFail
<1>8. s.handles = EraseFrom(s.handles, s.tree, p)
  BY NothingErased DEF Good
<1> QED
  BY <1>1, <1>7, <1>8 DEF Visited, Made

LEMMA SameVisited ==
  ASSUME NEW s, Good(s), NEW p, NEW fate, (p \in DOMAIN s.tree /\ ~Expired(s.tree[p])) \/ ~s.ok
  PROVE  Visited(s, s, p, fate)
BY DEF Good, Visited, Kept

LEMMA FailVisited ==
  ASSUME NEW s, Good(s), NEW p, NEW fate
  PROVE  Visited(s, Fail(s), p, fate)
<1>1. IsState(s)
  BY DEF Good
<1>2. Fail(s) = [tree |-> s.tree, handles |-> s.handles, ok |-> FALSE]
  BY <1>1, FailIs
<1>3. IsState(Fail(s)) /\ Fail(s).tree = s.tree /\ Fail(s).handles = s.handles /\ ~Fail(s).ok
  BY <1>2, RecordFailed
<1> QED
  BY <1>3 DEF Visited, Kept

LEMMA RenewVisited ==
  ASSUME NEW s, Good(s), NEW p \in DOMAIN s.tree, Expired(s.tree[p]), NEW fate,
         NEW m, Fresher(s.tree[p], m)
  PROVE  Visited(s, [s EXCEPT !.tree = [s.tree EXCEPT ![p] = m]], p, fate)
<1> DEFINE u == [s.tree EXCEPT ![p] = m]
           v == [s EXCEPT !.tree = u]
<1>1. IsState(s) /\ s.ok \in BOOLEAN
  BY DEF Good, IsState
<1> HIDE DEF u
<1>3. v = [tree |-> u, handles |-> s.handles, ok |-> s.ok]
  BY <1>1, TreeExcept
<1> HIDE DEF v
<1>4. IsState(v) /\ v.tree = u /\ v.handles = s.handles /\ (v.ok <=> s.ok)
  BY <1>1, <1>3, RecordState
<1>5. v.tree = [s.tree EXCEPT ![p] = m] /\ v.handles = s.handles
  BY <1>4 DEF u
<1>6. Renewed(s, v, p)
  BY <1>5 DEF Renewed
<1>7. Visited(s, v, p, fate)
  BY <1>4, <1>6 DEF Visited
<1> QED
  BY <1>7 DEF u, v

LEMMA UpdateVisited ==
  ASSUME NEW s, Good(s), NEW p \in DOMAIN s.tree, p # Root, Expired(s.tree[p]),
         device \in [Paths -> Kinds], NEW fate, fate = "answered"
  PROVE  Visited(s, Update(s, p), p, fate)
<1> DEFINE n == s.tree[p]
           stat == HandleStat(p)
<1>1. p \in Paths /\ n \in Node
  BY DEF Good, Shape
<1>2. stat = device[p] /\ stat \in {"none", "reg", "dir"}
  BY <1>1 DEF HandleStat, Kinds
<1>3. n.isdir \in BOOLEAN /\ n.kind \in {"reg", "dir", "err"}
  BY <1>1, NodeFields
<1>4. CASE stat = "none"
  <2>1. Update(s, p) = Fail(MutateAndInvalidate(s, p, NewNode("err", n.isdir, FALSE)))
    BY <1>4 DEF Update
  <2>2. Update(s, p) \in {MutateAndInvalidate(s, p, NewNode("err", n.isdir, FALSE)),
                          Fail(MutateAndInvalidate(s, p, NewNode("err", n.isdir, FALSE)))}
    BY <2>1
  <2> HIDE DEF n, stat
  <2> QED
    BY <1>2, <1>3, <1>4, <2>2, MutateVisited
<1>5. CASE stat # "none" /\ n.kind # "err" /\ ~DetectModification(n)
  <2> DEFINE m == [n EXCEPT !.expired = FALSE]
  <2>1. Update(s, p) = [s EXCEPT !.tree[p].expired = FALSE]
    BY <1>5 DEF Update
  <2>2. Update(s, p) = [s EXCEPT !.tree = [s.tree EXCEPT ![p] = m]]
    BY <2>1
  <2>3. Fresher(n, m)
    BY <1>1 DEF Fresher, Node
  <2> HIDE DEF m
  <2> QED
    BY <2>2, <2>3, RenewVisited
<1>6. CASE stat # "none" /\ (n.kind = "err" \/ DetectModification(n))
  <2>1. CASE stat = "dir" /\ n.isdir
    <3> DEFINE m == [n EXCEPT !.behind = FALSE, !.synced = FALSE, !.expired = FALSE]
    <3>1. Update(s, p) = [s EXCEPT !.tree[p] = m]
      BY <1>6, <2>1 DEF Update
    <3>2. Fresher(n, m)
      BY <1>1 DEF Fresher, Node
    <3> HIDE DEF m
    <3>3. Update(s, p) = [s EXCEPT !.tree = [s.tree EXCEPT ![p] = m]]
      BY <3>1
    <3> QED
      BY <3>2, <3>3, RenewVisited
  <2>2. CASE ~(stat = "dir" /\ n.isdir)
    <3>1. Update(s, p) = MutateAndInvalidate(s, p, NewNode(stat, stat = "dir", FALSE))
      BY <1>6, <2>2 DEF Update
    <3> DEFINE isdir == stat = "dir"
    <3>2. isdir \in BOOLEAN /\ stat \in {"reg", "dir", "err"} /\ stat # "err"
      BY <1>2, <1>6
    <3>3. Update(s, p) \in {MutateAndInvalidate(s, p, NewNode(stat, isdir, FALSE)),
                            Fail(MutateAndInvalidate(s, p, NewNode(stat, isdir, FALSE)))}
      BY <3>1
    <3> HIDE DEF n, stat, isdir
    <3> QED
      BY <1>2, <3>2, <3>3, MutateVisited
  <2> QED
    BY <2>1, <2>2
<1> QED
  BY <1>4, <1>5, <1>6

LEMMA UnansweredVisited ==
  ASSUME NEW s, Good(s), NEW p \in Paths, p # Root, Parent(p) \in DOMAIN s.tree,
         p \in DOMAIN s.tree => Expired(s.tree[p]),
         NEW fate, fate # "answered"
  PROVE  Visited(s, Unanswered(s, p, fate), p, fate)
<1> DEFINE isdir == p \in DOMAIN s.tree /\ s.tree[p].isdir
           error == NewNode("err", isdir, FALSE)
<1>1. isdir \in BOOLEAN
  BY NodeFields DEF Good, Shape
<1>2. CASE ~ShouldCacheError(fate) \/ s.tree[Parent(p)].kind # "dir"
  <2>1. Unanswered(s, p, fate) = Fail(s)
    BY <1>2 DEF Unanswered
  <2> QED
    BY <2>1, FailVisited
<1>3. CASE ShouldCacheError(fate) /\ s.tree[Parent(p)].kind = "dir" /\ p \in DOMAIN s.tree
  <2>1. Unanswered(s, p, fate) = Fail(MutateAndInvalidate(s, p, error))
    BY <1>3 DEF Unanswered
  <2>2. Unanswered(s, p, fate) \in {MutateAndInvalidate(s, p, error), Fail(MutateAndInvalidate(s, p, error))}
    BY <2>1
  <2>3. fate # "disconnected"
    BY <1>3 DEF ShouldCacheError
  <2> HIDE DEF isdir
  <2> QED
    BY <1>1, <1>3, <2>2, <2>3, MutateVisited
<1>4. CASE ShouldCacheError(fate) /\ s.tree[Parent(p)].kind = "dir" /\ p \notin DOMAIN s.tree
  <2>1. Unanswered(s, p, fate) = Fail(Inserted(s, p, error))
    BY <1>4 DEF Unanswered, Inserted
  <2>2. Unanswered(s, p, fate) \in {Inserted(s, p, error), Fail(Inserted(s, p, error))}
    BY <2>1
  <2>3. fate # "disconnected"
    BY <1>4 DEF ShouldCacheError
  <2> HIDE DEF isdir
  <2> QED
    BY <1>1, <1>4, <2>2, <2>3, InsertVisited
<1> QED
  BY <1>2, <1>3, <1>4

LEMMA VisitVisited ==
  ASSUME NEW s, Good(s), NEW p \in Paths, p # Root, s.ok => Parent(p) \in DOMAIN s.tree,
         device \in [Paths -> Kinds], NEW last, NEW fate
  PROVE  Visited(s, Visit(s, p, last, fate), p, fate)
<1> DEFINE parent == s.tree[Parent(p)]
           found == parent.kind = "dir" /\ p \in DOMAIN s.tree
           stat == HandleStat(p)
           isdir == stat = "dir"
           new(kind) == Inserted(s, p, NewNode(kind, isdir, FALSE))
           insert(kind) == IF parent.kind # "dir" THEN Fail(s) ELSE new(kind)
           v == Visit(s, p, last, fate)
<1>1. stat = device[p] /\ stat \in {"none", "reg", "dir"}
  BY DEF HandleStat, Kinds
<1>2. CASE ~s.ok
  <2>1. v = s
    BY <1>2 DEF Visit
  <2> HIDE DEF v
  <2>2. Visited(s, v, p, fate)
    BY <1>2, <2>1, SameVisited
  <2> QED
    BY <2>2 DEF v
<1>3. CASE s.ok /\ found /\ ~Expired(s.tree[p])
  <2>1. v = s
    BY <1>3 DEF Visit
  <2> HIDE DEF v
  <2>2. Visited(s, v, p, fate)
    BY <1>3, <2>1, SameVisited
  <2> QED
    BY <2>2 DEF v
<1>4. found <=> p \in DOMAIN s.tree
  BY DEF Good, Shape
<1>5. CASE s.ok /\ ~(found /\ ~Expired(s.tree[p])) /\ fate # "answered"
  <2>1. v = Unanswered(s, p, fate)
    BY <1>5 DEF Visit
  <2>2. Visited(s, Unanswered(s, p, fate), p, fate)
    BY <1>4, <1>5, UnansweredVisited
  <2> QED
    BY <2>1, <2>2
<1>6. CASE s.ok /\ found /\ Expired(s.tree[p]) /\ fate = "answered"
  <2>1. v = Update(s, p)
    BY <1>6 DEF Visit
  <2>2. Visited(s, Update(s, p), p, fate)
    BY <1>6, UpdateVisited
  <2> QED
    BY <2>1, <2>2
<1>7. CASE s.ok /\ ~found /\ fate = "answered"
  <2>1. v = CASE stat = "none" -> Fail(insert("err"))
              [] stat = "reg" /\ ~last -> Fail(s)
              [] stat = "dir" \/ (stat = "reg" /\ last) -> insert(stat)
    BY <1>7 DEF Visit, Inserted
  <2>2. v \in {Fail(s), Fail(insert("err"))} \/ (v = insert(stat) /\ stat # "none")
    BY <1>1, <2>1
  <2>3. CASE parent.kind # "dir"
    <3>1. v \in {Fail(s), Fail(Fail(s))}
      BY <2>2, <2>3
    <3>2. IsState(s)
      BY DEF Good
    <3>3. Fail(s) = [tree |-> s.tree, handles |-> s.handles, ok |-> FALSE]
      BY <3>2, FailIs
    <3>4. IsState(Fail(s)) /\ Fail(s).tree = s.tree /\ Fail(s).handles = s.handles /\ ~Fail(s).ok
      BY <3>3, RecordFailed
    <3>5. Fail(Fail(s)) = [tree |-> s.tree, handles |-> s.handles, ok |-> FALSE]
      BY <3>4, FailIs
    <3>6. v = Fail(s)
      BY <3>1, <3>3, <3>5
    <3> QED
      BY <3>6, FailVisited
  <2>4. CASE parent.kind = "dir"
    <3>1. p \notin DOMAIN s.tree /\ Parent(p) \in DOMAIN s.tree /\ s.tree[Parent(p)].kind = "dir"
      BY <1>4, <1>7, <2>4
    <3>2. isdir \in BOOLEAN
      OBVIOUS
    <3>3. v = Fail(s) \/ (v \in {new("err"), Fail(new("err"))} /\ stat = "none")
          \/ (v \in {new(stat), Fail(new(stat))} /\ stat # "none")
      BY <1>1, <2>1, <2>4
    <3>4. v = Fail(s) => Visited(s, v, p, fate)
      BY FailVisited
    <3> HIDE DEF v, isdir, stat
    <3>5. v \in {new("err"), Fail(new("err"))} /\ stat = "none" => Visited(s, v, p, fate)
      BY <1>1, <1>7, <3>1, <3>2, InsertVisited
    <3>6. ASSUME v \in {new(stat), Fail(new(stat))}, stat # "none"
          PROVE  Visited(s, v, p, fate)
      <4>1. stat \in {"reg", "dir", "err"} /\ fate # "disconnected"
        BY <1>1, <1>7, <3>6
      <4>2. fate = "answered" => IF stat = "err" THEN device[p] = "none" ELSE stat = device[p]
        BY <1>1
      <4>3. v \in {Inserted(s, p, NewNode(stat, isdir, FALSE)), Fail(Inserted(s, p, NewNode(stat, isdir, FALSE)))}
        BY <3>6
      <4> HIDE DEF new, found, parent
      <4> QED
        BY <3>1, <3>2, <4>1, <4>2, <4>3, InsertVisited
    <3>7. Visited(s, v, p, fate)
      BY <3>3, <3>4, <3>5, <3>6
    <3> QED
      BY <3>7 DEF v
  <2> QED
    BY <2>3, <2>4
<1> QED
  BY <1>2, <1>3, <1>4, <1>5, <1>6, <1>7

\* The entries of u are those of t, or have the paths of their nodes.
Followed(t, u) ==
  \A r \in DOMAIN u : u[r].entry \in {None, r} \/ (r \in DOMAIN t /\ u[r].entry = t[r].entry)

LEMMA FollowedSelf ==
  ASSUME NEW t
  PROVE  Followed(t, t)
BY DEF Followed

LEMMA FollowedTransitive ==
  ASSUME NEW t, NEW u, NEW w, Followed(t, u), Followed(u, w)
  PROVE  Followed(t, w)
BY DEF Followed

\* What a part of a lookup keeps and leaves.
Onward(s, v, fate) ==
  /\ Good(v) /\ (v.ok => s.ok) /\ Followed(s.tree, v.tree)
  /\ Honest(s) /\ fate \in {"answered", "disconnected"} => Honest(v)
  /\ \A x \in Paths : Settled(s.tree, x) =>
       Settled(v.tree, x) /\ \A r \in Paths : IsUnder(x, r) => v.tree[r] = s.tree[r]

LEMMA OnwardSelf ==
  ASSUME NEW s, Good(s), NEW fate
  PROVE  Onward(s, s, fate)
BY FollowedSelf DEF Onward

LEMMA OnwardTransitive ==
  ASSUME NEW s, NEW v, NEW w, NEW fate, Onward(s, v, "answered"), Onward(v, w, fate)
  PROVE  Onward(s, w, fate)
<1>1. Honest(s) /\ fate \in {"answered", "disconnected"} => Honest(w)
  BY DEF Onward
<1>2. Good(w) /\ (w.ok => s.ok) /\ Followed(s.tree, w.tree)
  BY FollowedTransitive DEF Onward
<1>3. \A x \in Paths : Settled(s.tree, x) =>
        Settled(w.tree, x) /\ \A r \in Paths : IsUnder(x, r) => w.tree[r] = s.tree[r]
  BY DEF Onward
<1> QED
  BY <1>1, <1>2, <1>3 DEF Onward

LEMMA EraseFreesNone ==
  ASSUME NEW h, NEW ps, NoneFreed(h)
  PROVE  NoneFreed(Erase(h, ps))
BY NullAssumption DEF NoneFreed, Erase

LEMMA MadeOnward ==
  ASSUME NEW s, Good(s), NEW p \in Paths, p # Root, NEW fate, NEW v, IsState(v), v.ok => s.ok,
         Made(s, v, p, fate)
  PROVE  Onward(s, v, fate) /\ p \in DOMAIN v.tree /\ ~Expired(v.tree[p])
<1>1. PICK kind \in {"reg", "dir", "err"}, isdir \in BOOLEAN :
        /\ v.tree = Put(s.tree, p, NewNode(kind, isdir, FALSE))
        /\ v.handles = EraseFrom(s.handles, s.tree, p)
        /\ Parent(p) \in DOMAIN s.tree /\ s.tree[Parent(p)].kind = "dir"
        /\ p \in DOMAIN s.tree => Expired(s.tree[p])
        /\ fate # "disconnected"
        /\ fate = "answered" => IF kind = "err" THEN device[p] = "none" ELSE kind = device[p]
  BY DEF Made
<1> DEFINE n == NewNode(kind, isdir, FALSE)
<1>2. /\ n \in Node /\ n.kind = kind /\ ~n.behind /\ ~n.expired /\ ~n.synced /\ ~n.dirty
      /\ n.entry = None
  BY NewNodeIs
<1> HIDE DEF n
<1>3. v.tree = Put(s.tree, p, n)
  BY <1>1 DEF n
<1>4. Shape(s.tree) /\ HandlesOf(s.tree, s.handles)
  BY DEF Good
<1>5. Shape(v.tree)
  BY <1>1, <1>2, <1>3, <1>4, PutShape
<1>6. HandlesOf(v.tree, v.handles)
  <2>1. HandlesOf(Put(s.tree, p, n), EraseFrom(s.handles, s.tree, p))
    BY <1>4, PutHandles DEF EraseFrom
  <2> QED
    BY <1>1, <1>3, <2>1
<1>7. ASSUME Honest(s), fate \in {"answered", "disconnected"}
      PROVE  Honest(v)
  <2>1. IF n.kind = "err" THEN device[p] = "none" ELSE n.kind = device[p]
    BY <1>1, <1>2, <1>7
  <2>2. Truthful(s.tree, device, Sure)
    BY <1>7 DEF Honest
  <2>3. Truthful(v.tree, device, Sure)
    BY <1>2, <1>3, <1>4, <2>1, <2>2, PutTruthful
  <2>4. NoneFreed(v.handles)
    BY <1>1, <1>7, EraseFreesNone DEF Honest, EraseFrom
  <2> QED
    BY <2>3, <2>4 DEF Honest
<1>8. ASSUME NEW x \in Paths, Settled(s.tree, x)
      PROVE  Settled(v.tree, x) /\ \A r \in Paths : IsUnder(x, r) => v.tree[r] = s.tree[r]
  <2> DEFINE t == s.tree
             u == Put(t, p, n)
  <2>1. Shape(t) /\ (p \in DOMAIN t => Expired(t[p])) /\ Settled(t, x)
    BY <1>1, <1>4, <1>8
  <2> HIDE DEF t
  <2>2. Settled(u, x) /\ \A r \in Paths : IsUnder(x, r) => u[r] = t[r]
    BY <2>1, PutSettled
  <2>3. v.tree = u
    BY <1>3 DEF t
  <2> HIDE DEF u
  <2> QED
    BY <2>2, <2>3 DEF t
<1>9. p \in DOMAIN v.tree /\ v.tree[p] = n
  <2> DEFINE u == v.tree
             t == s.tree
  <2>1. IsPut(u, t, p, n)
    BY <1>3, PutIs
  <2> HIDE DEF u, t
  <2>2. p \in DOMAIN u /\ u[p] = n
    BY <2>1 DEF IsPut
  <2> QED
    BY <2>2 DEF u
<1>10. Good(v)
  BY <1>5, <1>6 DEF Good
<1>f. Followed(s.tree, v.tree)
  <2> DEFINE u == v.tree
             t == s.tree
  <2>1. IsPut(u, t, p, n)
    BY <1>3, PutIs
  <2> HIDE DEF u, t
  <2>2. Followed(t, u)
    BY <1>2, <2>1 DEF IsPut, Followed
  <2> QED
    BY <2>2 DEF u, t
<1>11. Onward(s, v, fate)
  BY <1>7, <1>8, <1>10, <1>f DEF Onward
<1> QED
  BY <1>2, <1>9, <1>11 DEF Expired

LEMMA RenewedOnward ==
  ASSUME NEW s, Good(s), NEW p \in Paths, p # Root, NEW fate, NEW v, IsState(v), v.ok => s.ok,
         Renewed(s, v, p)
  PROVE  Onward(s, v, fate) /\ p \in DOMAIN v.tree /\ ~Expired(v.tree[p])
<1>1. PICK m : v.tree = [s.tree EXCEPT ![p] = m] /\ Fresher(s.tree[p], m)
  BY DEF Renewed
<1>2. p \in DOMAIN s.tree /\ Expired(s.tree[p]) /\ v.handles = s.handles
  BY DEF Renewed
<1>3. Shape(s.tree) /\ HandlesOf(s.tree, s.handles)
  BY DEF Good
<1>4. Kin(s.tree[p], m)
  BY <1>1, <1>2, <1>3 DEF Kin, Fresher, Shape
<1>5. Truthful(s.tree, device, Sure) => Tended(s.tree[p], m, p, Sure)
  BY <1>1, <1>2 DEF Tended, Fresher, Truthful, NodeTrue
<1>6. /\ DOMAIN v.tree = DOMAIN s.tree /\ v.tree[p] = m
      /\ \A q \in DOMAIN s.tree : q # p => v.tree[q] = s.tree[q]
  BY <1>1, <1>2
<1>7. Shape(v.tree) /\ HandlesOf(v.tree, s.handles)
      /\ (Truthful(s.tree, device, Sure) => Truthful(v.tree, device, Sure))
  BY <1>2, <1>3, <1>4, <1>5, <1>6, OneAlike
<1>8. ASSUME NEW x \in Paths, Settled(s.tree, x)
      PROVE  Settled(v.tree, x) /\ \A r \in Paths : IsUnder(x, r) => v.tree[r] = s.tree[r]
  <2>1. ~IsUnder(x, p)
    BY <1>2, <1>8 DEF Settled
  <2>2. \A r \in Paths : IsUnder(x, r) => r \in DOMAIN s.tree /\ v.tree[r] = s.tree[r]
    BY <1>6, <1>8, <2>1 DEF Settled
  <2> QED
    BY <1>6, <1>8, <2>2 DEF Settled
<1>f. Followed(s.tree, v.tree)
  BY <1>1, <1>6 DEF Followed, Fresher
<1>9. Onward(s, v, fate)
  BY <1>2, <1>7, <1>8, <1>f DEF Onward, Good, Honest
<1> QED
  BY <1>1, <1>2, <1>6, <1>9 DEF Fresher, Expired

LEMMA VisitOnward ==
  ASSUME NEW s, Good(s), NEW p \in Paths, p # Root, s.ok => Parent(p) \in DOMAIN s.tree,
         device \in [Paths -> Kinds], NEW last, NEW fate, NEW v, v = Visit(s, p, last, fate)
  PROVE  Onward(s, v, fate) /\ (v.ok => p \in DOMAIN v.tree /\ ~Expired(v.tree[p]))
<1>1. Visited(s, v, p, fate)
  BY VisitVisited
<1>2. IsState(v) /\ (v.ok => s.ok)
  BY <1>1 DEF Visited
<1>3. CASE Kept(s, v, p)
  BY <1>2, <1>3, FollowedSelf DEF Kept, Onward, Good, Honest
<1>4. CASE Made(s, v, p, fate)
  BY <1>2, <1>4, MadeOnward
<1>5. CASE Renewed(s, v, p)
  BY <1>2, <1>5, RenewedOnward
<1> QED
  BY <1>1, <1>3, <1>4, <1>5 DEF Visited

-----------------------------------------------------------------------------
(* The components of a path, and the lookup of all of them *)

Prefix(p, i) == SubSeq(p, 1, i)

LEMMA PrefixIs ==
  ASSUME NEW p \in Paths, NEW i \in 0..Len(p)
  PROVE  /\ Prefix(p, i) \in Seq(Names) /\ Len(Prefix(p, i)) = i
         /\ \A j \in 1..i : Prefix(p, i)[j] = p[j]
<1> DEFINE s == SubSeq(p, 1, i)
<1>1. Len(p) \in Nat /\ \A j \in 1..Len(p) : p[j] \in Names
  BY PathLength
<1>2. i \in Nat /\ i <= Len(p) /\ \A j \in 1..i : p[j] \in Names
  BY <1>1
<1>3. /\ s \in Seq(Names)
      /\ Len(s) = IF 1 <= i THEN i - 1 + 1 ELSE 0
      /\ \A j \in 1..i - 1 + 1 : s[j] = p[1 + j - 1]
  BY <1>2, SubSeqProperties
<1> HIDE DEF s
<1>4. Len(s) = i
  BY <1>2, <1>3
<1>5. ASSUME NEW j \in 1..i
      PROVE  s[j] = p[j]
  <2>1. j \in 1..i - 1 + 1 /\ 1 + j - 1 = j
    BY <1>2
  <2> QED
    BY <1>3, <2>1
<1> QED
  BY <1>3, <1>4, <1>5 DEF s, Prefix

LEMMA PrefixParent ==
  ASSUME NEW p \in Paths, NEW i \in 1..Len(p), Prefix(p, i) \in Paths
  PROVE  /\ Prefix(p, i) # Root /\ Parent(Prefix(p, i)) = Prefix(p, i - 1)
         /\ Prefix(p, i - 1) \in Paths
<1>1. Len(p) \in Nat /\ i \in 0..Len(p) /\ i - 1 \in 0..Len(p) /\ i > 0
  BY PathLength
<1> DEFINE x == Prefix(p, i)
           y == Prefix(p, i - 1)
<1>2. x \in Paths /\ Len(x) = i /\ \A j \in 1..i : x[j] = p[j]
  BY <1>1, PrefixIs
<1>3. y \in Seq(Names) /\ Len(y) = i - 1 /\ \A j \in 1..i - 1 : y[j] = p[j]
  BY <1>1, PrefixIs
<1> HIDE DEF x, y
<1>4. x # Root
  BY <1>1, <1>2, PathLength
<1>5. Parent(x) \in Paths /\ Len(Parent(x)) = i - 1 /\ \A j \in 1..i - 1 : Parent(x)[j] = x[j]
  BY <1>2, <1>4, ParentIs
<1>6. Parent(x) \in Seq(Names)
  BY <1>5, PathLength
<1>7. \A j \in 1..Len(y) : Parent(x)[j] = y[j]
  BY <1>1, <1>2, <1>3, <1>5
<1>8. Parent(x) = y
  BY <1>3, <1>5, <1>6, <1>7, SeqEqual
<1> QED
  BY <1>4, <1>5, <1>8 DEF x, y

LEMMA PrefixesArePaths ==
  ASSUME NEW p \in Paths
  PROVE  /\ \A i \in 0..Len(p) : Prefix(p, i) \in Paths
         /\ Prefix(p, 0) = Root /\ Prefix(p, Len(p)) = p
<1>1. Len(p) \in Nat /\ p \in Seq(Names) /\ 0 \in 0..Len(p) /\ Len(p) \in 0..Len(p)
  BY PathLength
<1>2. Prefix(p, Len(p)) = p
  <2>1. /\ Prefix(p, Len(p)) \in Seq(Names) /\ Len(Prefix(p, Len(p))) = Len(p)
        /\ \A j \in 1..Len(p) : Prefix(p, Len(p))[j] = p[j]
    BY <1>1, PrefixIs
  <2> QED
    BY <1>1, <2>1, SeqEqual
<1> DEFINE T == {n \in Nat : n <= Len(p) => Prefix(p, Len(p) - n) \in Paths}
<1>3. 0 \in T
  <2>1. Len(p) - 0 = Len(p)
    BY <1>1
  <2> QED
    BY <1>2, <2>1
<1>4. ASSUME NEW n \in Nat, n \in T
      PROVE  n + 1 \in T
  <2> SUFFICES ASSUME n + 1 <= Len(p)
               PROVE  Prefix(p, Len(p) - (n + 1)) \in Paths
    OBVIOUS
  <2> DEFINE i == Len(p) - n
  <2>1. i \in 1..Len(p) /\ i - 1 = Len(p) - (n + 1) /\ n <= Len(p)
    BY <1>1
  <2>2. Prefix(p, i) \in Paths
    BY <1>4, <2>1
  <2> HIDE DEF i
  <2>3. Prefix(p, i - 1) \in Paths
    BY <2>1, <2>2, PrefixParent
  <2> QED
    BY <2>1, <2>3
<1>5. Nat \subseteq T
  <2> HIDE DEF T
  <2> QED
    BY <1>3, <1>4, SetInduction
<1>6. ASSUME NEW i \in 0..Len(p)
      PROVE  Prefix(p, i) \in Paths
  <2>1. Len(p) - i \in Nat /\ Len(p) - i <= Len(p) /\ Len(p) - (Len(p) - i) = i
    BY <1>1
  <2>2. Prefix(p, Len(p) - (Len(p) - i)) \in Paths
    BY <1>5, <2>1
  <2> QED
    BY <2>1, <2>2
<1>7. Prefix(p, 0) = Root
  <2>1. Prefix(p, 0) \in Seq(Names) /\ Len(Prefix(p, 0)) = 0
    BY <1>1, PrefixIs
  <2> QED
    BY <2>1, EmptySeq DEF Root
<1> QED
  BY <1>2, <1>6, <1>7

\* What one more component makes of the state.
Component(g, s, p, fate, i) ==
  IF i = 0 THEN s
  ELSE Visit(g[i - 1], Prefix(p, i), i = Len(p), IF i = Len(p) THEN fate ELSE "answered")

LEMMA ComponentsExist ==
  ASSUME NEW s, NEW p, NEW fate, NEW n \in Nat
  PROVE  \E g : g = [i \in 0..n |-> Component(g, s, p, fate, i)]
<1> DEFINE Part(g, m) == g = [i \in 0..m |-> Component(g, s, p, fate, i)]
           T == {m \in Nat : \E g : Part(g, m)}
<1>1. 0 \in T
  <2> DEFINE g == [i \in 0..0 |-> s]
  <2>1. Part(g, 0)
    BY DEF Component
  <2> QED
    BY <2>1
<1>2. ASSUME NEW m \in Nat, m \in T
      PROVE  m + 1 \in T
  <2>1. PICK e : Part(e, m)
    BY <1>2
  <2> DEFINE g == [i \in 0..m + 1 |-> IF i = m + 1 THEN Component(e, s, p, fate, m + 1) ELSE e[i]]
  <2>2. g[m + 1] = Component(e, s, p, fate, m + 1) /\ \A i \in 0..m : g[i] = e[i]
    OBVIOUS
  <2>3. g = [i \in 0..m + 1 |-> g[i]]
    OBVIOUS
  <2> HIDE DEF g
  <2>4. ASSUME NEW i \in 0..m + 1
        PROVE  g[i] = Component(g, s, p, fate, i)
    <3>1. i # 0 => i - 1 \in 0..m
      OBVIOUS
    <3>2. i # 0 => g[i - 1] = e[i - 1]
      BY <2>2, <3>1
    <3>3. Component(g, s, p, fate, i) = Component(e, s, p, fate, i)
      BY <3>2 DEF Component
    <3>4. i \in 0..m \/ i = m + 1
      OBVIOUS
    <3>5. i \in 0..m => e[i] = Component(e, s, p, fate, i)
      BY <2>1
    <3> QED
      BY <2>2, <3>3, <3>4, <3>5
  <2>5. Part(g, m + 1)
    BY <2>3, <2>4
  <2> HIDE DEF Part
  <2> QED
    BY <2>5
<1>3. n \in T
  <2> HIDE DEF T
  <2> QED
    BY <1>1, <1>2, SetInduction
<1> QED
  BY <1>3

LEMMA ReachIs ==
  ASSUME NEW s, NEW p, NEW fate, Len(p) \in Nat
  PROVE  \E g : /\ Reach(s, p, fate) = g[Len(p)]
                /\ \A i \in 0..Len(p) : g[i] = Component(g, s, p, fate, i)
<1> DEFINE n == Len(p)
           g == CHOOSE e : e = [i \in 0..n |-> Component(e, s, p, fate, i)]
<1>1. g = [i \in 0..n |-> Component(g, s, p, fate, i)]
  BY ComponentsExist
<1>2. Reach(s, p, fate) = g[n]
  BY DEF Reach, Component, Prefix
<1> HIDE DEF g
<1>3. \A i \in 0..n : g[i] = Component(g, s, p, fate, i)
  BY <1>1
<1> QED
  BY <1>2, <1>3

LEMMA SettledFurther ==
  ASSUME NEW t, NEW p \in Paths, p # Root, Settled(t, Parent(p)), p \in DOMAIN t, ~Expired(t[p])
  PROVE  Settled(t, p)
<1> SUFFICES ASSUME NEW r \in Paths, IsUnder(p, r), r # p
             PROVE  r \in DOMAIN t /\ (r # Root => ~Expired(t[r]))
  BY DEF Settled
<1>1. IsUnder(Parent(p), r)
  BY UnderStrictly
<1> QED
  BY <1>1 DEF Settled

LEMMA RootSettled ==
  ASSUME NEW t, Shape(t)
  PROVE  Settled(t, Root)
BY RootUnder DEF Settled, Shape

\* A lookup keeps a tree sound and true, and the paths that are settled; where it
\* succeeds its own path is settled.
LEMMA ReachOnward ==
  ASSUME NEW s, Good(s), NEW p \in Paths, device \in [Paths -> Kinds], NEW fate,
         NEW v, v = Reach(s, p, fate)
  PROVE  Onward(s, v, fate) /\ (v.ok => Settled(v.tree, p))
<1>1. Len(p) \in Nat
  BY PathLength
<1>2. PICK g : /\ Reach(s, p, fate) = g[Len(p)]
               /\ \A i \in 0..Len(p) : g[i] = Component(g, s, p, fate, i)
  BY <1>1, ReachIs
<1> DEFINE Fate(i) == IF i = Len(p) THEN fate ELSE "answered"
           Holds(i) == Onward(s, g[i], Fate(i)) /\ (g[i].ok => Settled(g[i].tree, Prefix(p, i)))
           T == {i \in Nat : i <= Len(p) => Holds(i)}
<1>3. 0 \in T
  <2>1. g[0] = s
    BY <1>1, <1>2 DEF Component
  <2>2. Onward(s, g[0], Fate(0))
    BY <2>1, OnwardSelf
  <2>3. Settled(s.tree, Prefix(p, 0))
    BY PrefixesArePaths, RootSettled DEF Good
  <2> QED
    BY <2>1, <2>2, <2>3
<1>4. ASSUME NEW j \in Nat, j \in T
      PROVE  j + 1 \in T
  <2> SUFFICES ASSUME j + 1 <= Len(p)
               PROVE  Holds(j + 1)
    OBVIOUS
  <2> DEFINE i == j + 1
             x == Prefix(p, i)
  <2>1. i \in 1..Len(p) /\ i - 1 = j /\ j <= Len(p) /\ j # Len(p) /\ i \in 0..Len(p) /\ i # 0
    BY <1>1
  <2>2. Onward(s, g[j], "answered") /\ (g[j].ok => Settled(g[j].tree, Prefix(p, j)))
    BY <1>4, <2>1
  <2>3. x \in Paths
    BY <2>1, PrefixesArePaths
  <2>4. x # Root /\ Parent(x) = Prefix(p, j) /\ Prefix(p, j) \in Paths
    BY <2>1, <2>3, PrefixParent
  <2>5. g[i] = Visit(g[j], x, i = Len(p), Fate(i))
    BY <1>2, <2>1 DEF Component
  <2>6. Good(g[j])
    BY <2>2 DEF Onward
  <2>7. g[j].ok => Parent(x) \in DOMAIN g[j].tree
    BY <2>2, <2>4, UnderSelf DEF Settled
  <2> HIDE DEF i, x, Fate
  <2>8. Onward(g[j], g[i], Fate(i)) /\ (g[i].ok => x \in DOMAIN g[i].tree /\ ~Expired(g[i].tree[x]))
    BY <2>3, <2>4, <2>5, <2>6, <2>7, VisitOnward
  <2>9. Onward(s, g[i], Fate(i))
    BY <2>2, <2>8, OnwardTransitive
  <2>10. ASSUME g[i].ok
         PROVE  Settled(g[i].tree, x)
    <3>1. g[j].ok /\ Settled(g[j].tree, Parent(x))
      BY <2>2, <2>4, <2>8, <2>10 DEF Onward
    <3>2. Settled(g[i].tree, Parent(x))
      BY <2>4, <2>8, <3>1 DEF Onward
    <3> QED
      BY <2>3, <2>4, <2>8, <2>10, <3>2, SettledFurther
  <2> QED
    BY <2>9, <2>10 DEF i, x
<1>5. Holds(Len(p))
  <2>1. Nat \subseteq T
    <3> HIDE DEF T
    <3> QED
      BY <1>3, <1>4, SetInduction
  <2> QED
    BY <1>1, <2>1
<1> QED
  BY <1>2, <1>5, PrefixesArePaths

-----------------------------------------------------------------------------
(* The inductive invariant: what is always so, and what is so until host   *)
(* and device have parted.                                                 *)

OpenFiles == [fd : Fds, path : Paths] \cup {None}

Typed ==
  /\ FilesShape(device) /\ surprises \in 0..MaxSurprises
  /\ opens \in [Opens -> OpenFiles] /\ crashed \in BOOLEAN /\ stranded \in BOOLEAN
  /\ scan # None => scan.dir \in Paths /\ scan.reply \in [Children[scan.dir] -> Kinds]

\* The listing that a readdir waits for is still the one the device would give.
ScanCurrent == scan # None => \A q \in Children[scan.dir] : scan.reply[q] = device[q]

Faithful == Truthful(tree, device, Sure) /\ NoneFreed(handles) /\ ScanCurrent

TreeInv ==
  /\ Typed /\ Shape(tree) /\ HandlesOf(tree, handles)
  /\ Undisturbed => Faithful

\* The files, the open files and the scan stay.
LEMMA HostStep ==
  ASSUME TreeInv, UNCHANGED <<device, scan, stranded>>, crashed' \in BOOLEAN,
         opens' \in [Opens -> OpenFiles],
         surprises' \in 0..MaxSurprises, surprises' = 0 => surprises = 0,
         Shape(tree'), HandlesOf(tree', handles'),
         surprises' = 0 => Truthful(tree', device, Sure) /\ NoneFreed(handles')
  PROVE  TreeInv'
<1>1. Typed'
  BY DEF TreeInv, Typed, FilesShape
<1>2. Undisturbed' => ScanCurrent'
  BY DEF TreeInv, Faithful, ScanCurrent, Undisturbed
<1>3. Undisturbed' => Faithful'
  BY <1>2, SureStays DEF Faithful, Undisturbed
<1> QED
  BY <1>1, <1>3 DEF TreeInv

\* What a lookup of p leaves.
Looked(v, p) ==
  /\ Good(v) /\ (Undisturbed => Truthful(v.tree, device, Sure) /\ NoneFreed(v.handles))
  /\ v.ok => Settled(v.tree, p)

LEMMA NowIs ==
  ASSUME TreeInv
  PROVE  /\ Good(Now) /\ (Undisturbed => Honest(Now)) /\ device \in [Paths -> Kinds]
         /\ Now.tree = tree /\ Now.handles = handles
<1>1. IsState(Now) /\ Now.tree = tree /\ Now.handles = handles
  BY DEF IsState, Now
<1> QED
  BY <1>1 DEF TreeInv, Typed, FilesShape, Good, Honest, Faithful

LEMMA LookedUp ==
  ASSUME TreeInv, NEW p \in Paths, NEW v, v = TraverseOrBuild(p)
  PROVE  Looked(v, p)
<1>1. Good(Now) /\ (Undisturbed => Honest(Now)) /\ device \in [Paths -> Kinds]
  BY NowIs
<1>2. v = Reach(Now, p, "answered")
  BY DEF TraverseOrBuild
<1>3. Onward(Now, v, "answered") /\ (v.ok => Settled(v.tree, p))
  BY <1>1, <1>2, ReachOnward
<1> QED
  BY <1>1, <1>3 DEF Onward, Looked, Honest

LEMMA LookedIs ==
  ASSUME NEW p \in Paths, NEW v, Looked(v, p)
  PROVE  /\ Shape(v.tree) /\ HandlesOf(v.tree, v.handles)
         /\ Undisturbed => Truthful(v.tree, device, Sure) /\ NoneFreed(v.handles)
         /\ v.ok => p \in DOMAIN v.tree
BY UnderSelf DEF Looked, Good, Settled

LEMMA GetattrStep ==
  ASSUME TreeInv, NEW p \in Paths, Getattr(p)
  PROVE  TreeInv'
<1>1. PICK fate \in {"answered", "disconnected", "cancelled"} :
        /\ IF fate = "cancelled" THEN Surprise(p) ELSE UNCHANGED surprises
        /\ \E s \in {Reach(Now, p, fate)} : tree' = s.tree /\ handles' = s.handles
        /\ UNCHANGED <<device, opens, scan, crashed, stranded>>
  BY DEF Getattr
<1> DEFINE v == Reach(Now, p, fate)
<1>2. tree' = v.tree /\ handles' = v.handles
  BY <1>1
<1>3. Good(Now) /\ (Undisturbed => Honest(Now)) /\ device \in [Paths -> Kinds]
  BY NowIs
<1> HIDE DEF v
<1>4. Onward(Now, v, fate)
  BY <1>3, ReachOnward DEF v
<1>5. Shape(tree') /\ HandlesOf(tree', handles')
  BY <1>2, <1>4 DEF Onward, Good
<1>6. surprises \in Nat /\ MaxSurprises \in Nat /\ surprises \in 0..MaxSurprises
  BY BoundsAssumption DEF TreeInv, Typed
<1>7. surprises' \in 0..MaxSurprises /\ (surprises' = 0 => surprises = 0 /\ fate # "cancelled")
  BY <1>1, <1>6 DEF Surprise
<1>8. surprises' = 0 => Truthful(tree', device, Sure) /\ NoneFreed(handles')
  BY <1>2, <1>3, <1>4, <1>7 DEF Onward, Honest, Undisturbed
<1>9. crashed' \in BOOLEAN /\ opens' \in [Opens -> OpenFiles]
  BY <1>1 DEF TreeInv, Typed
<1> QED
  BY <1>1, <1>5, <1>7, <1>8, <1>9, HostStep

LEMMA ReaddirAskStep ==
  ASSUME TreeInv, NEW p \in Paths, ReaddirAsk(p)
  PROVE  TreeInv'
<1> DEFINE v == TraverseOrBuild(p)
<1>1. /\ tree' = v.tree /\ handles' = v.handles
      /\ scan' = [dir |-> p, reply |-> HandleListdir(p),
                  ahead |-> {q \in Children[p] \cap DOMAIN v.tree : DetectModification(v.tree[q])}]
      /\ UNCHANGED <<device, surprises, opens, crashed, stranded>>
  BY DEF ReaddirAsk
<1> HIDE DEF v
<1>2. Looked(v, p)
  BY LookedUp DEF v
<1>3. /\ Shape(tree') /\ HandlesOf(tree', handles')
      /\ Undisturbed => Truthful(tree', device, Sure) /\ NoneFreed(handles')
  BY <1>1, <1>2, LookedIs
<1>4. scan'.dir = p /\ scan'.reply = [q \in Children[p] |-> device[q]]
  BY <1>1 DEF HandleListdir
<1>5. Children[p] \subseteq Paths
  BY ChildrenAre
<1>6. device \in [Paths -> Kinds]
  BY DEF TreeInv, Typed, FilesShape
<1>7. scan'.reply \in [Children[p] -> Kinds]
  BY <1>4, <1>5, <1>6
<1>8. Typed'
  BY <1>1, <1>4, <1>7 DEF TreeInv, Typed, FilesShape
<1>9. ScanCurrent'
  BY <1>1, <1>4 DEF ScanCurrent
<1>10. Undisturbed' => Faithful'
  BY <1>1, <1>3, <1>9, SureStays DEF Faithful, Undisturbed
<1> QED
  BY <1>3, <1>8, <1>10 DEF TreeInv

-----------------------------------------------------------------------------
(* Operations on one node *)

\* One node gets new flags or a new entry, after a lookup or without one.
LEMMA OneNodeStep ==
  ASSUME TreeInv, UNCHANGED <<device, surprises, scan, stranded>>, crashed' \in BOOLEAN,
         opens' \in [Opens -> OpenFiles],
         NEW t, NEW h, Shape(t), HandlesOf(t, h),
         Undisturbed => Truthful(t, device, Sure) /\ NoneFreed(h),
         NEW p \in DOMAIN t, NEW m, Kin(t[p], m),
         Undisturbed => Tended(t[p], m, p, Sure),
         DOMAIN tree' = DOMAIN t, tree'[p] = m, \A q \in DOMAIN t : q # p => tree'[q] = t[q],
         handles' = h \/ (HandlesOf(tree', handles') /\ (NoneFreed(h) => NoneFreed(handles')))
  PROVE  TreeInv'
<1>1. \A q \in DOMAIN t : Kin(t[q], tree'[q])
  BY TendedSelf
<1>2. Undisturbed => \A q \in DOMAIN t : Tended(t[q], tree'[q], q, Sure)
  BY TendedSelf
<1>3. Shape(tree') /\ HandlesOf(tree', h)
  BY <1>1, AlikeShape, AlikeHandles
<1>4. Undisturbed => Truthful(tree', device, Sure)
  BY <1>1, <1>2, AlikeTruthful
<1>5. surprises' \in 0..MaxSurprises /\ (surprises' = 0 => Undisturbed)
  BY DEF TreeInv, Typed, Undisturbed
<1>6. HandlesOf(tree', handles') /\ (surprises' = 0 => Truthful(tree', device, Sure) /\ NoneFreed(handles'))
  BY <1>3, <1>4, <1>5
<1> QED
  BY <1>3, <1>5, <1>6, HostStep DEF Undisturbed

LEMMA UtimensStep ==
  ASSUME TreeInv, NEW p \in Paths, Utimens(p)
  PROVE  TreeInv'
<1> DEFINE v == TraverseOrBuild(p)
           isdir == device[p] = "dir"
<1>1. /\ v.ok /\ v.tree[p].kind # "err"
      /\ tree' = [v.tree EXCEPT ![p].behind = FALSE, ![p].isdir = isdir]
      /\ handles' = v.handles
      /\ UNCHANGED <<device, surprises, opens, scan, crashed, stranded>>
  BY DEF Utimens
<1>b. isdir \in BOOLEAN
  OBVIOUS
<1> HIDE DEF v, isdir
<1>2. Looked(v, p)
  BY LookedUp DEF v
<1> DEFINE t == v.tree
           m == tree'[p]
<1>3. /\ Shape(t) /\ HandlesOf(t, v.handles) /\ p \in DOMAIN t
      /\ Undisturbed => Truthful(t, device, Sure) /\ NoneFreed(v.handles)
  BY <1>1, <1>2, LookedIs
<1>4. tree' = [t EXCEPT ![p].behind = FALSE, ![p].isdir = isdir]
  BY <1>1
<1> HIDE DEF t
<1>5. t[p] \in Node /\ (t[p].kind # "reg" => ~t[p].dirty /\ t[p].entry = None)
  BY <1>3 DEF Shape
<1>6. DOMAIN tree' = DOMAIN t /\ \A q \in DOMAIN t : q # p => tree'[q] = t[q]
  BY <1>4
<1>7. m = [t[p] EXCEPT !.behind = FALSE, !.isdir = isdir]
  BY <1>3, <1>4
<1>8. /\ m \in Node /\ m.kind = t[p].kind /\ m.dirty = t[p].dirty /\ m.entry = t[p].entry
      /\ m.synced = t[p].synced /\ m.behind = FALSE
  BY <1>5, <1>7, <1>b DEF Node
<1> HIDE DEF m
<1>9. Kin(t[p], m)
  BY <1>5, <1>8 DEF Kin
<1>10. Undisturbed => Tended(t[p], m, p, Sure)
  BY <1>3, <1>8 DEF Tended, Truthful, NodeTrue
<1>11. crashed' \in BOOLEAN /\ opens' \in [Opens -> OpenFiles] /\ UNCHANGED <<device, surprises, scan, stranded>>
  BY <1>1 DEF TreeInv, Typed
<1>12. tree'[p] = m
  BY DEF m
<1> QED
  BY <1>1, <1>3, <1>6, <1>9, <1>10, <1>11, <1>12, OneNodeStep

LEMMA TruncateStep ==
  ASSUME TreeInv, NEW p \in Paths, Truncate(p)
  PROVE  TreeInv'
<1> DEFINE v == TraverseOrBuild(p)
<1>1. /\ IsReg(v, p) /\ tree' = RefreshStat(LeaveBehind(v.tree, {p}), p) /\ handles' = v.handles
      /\ UNCHANGED <<device, surprises, opens, scan, crashed, stranded>>
  BY DEF Truncate
<1> HIDE DEF v
<1>2. Looked(v, p)
  BY LookedUp DEF v
<1> DEFINE t == v.tree
           h == v.handles
           u == LeaveBehind(t, {p})
<1>3. /\ Shape(t) /\ HandlesOf(t, h) /\ p \in DOMAIN t
      /\ Undisturbed => Truthful(t, device, Sure) /\ NoneFreed(h)
  BY <1>1, <1>2, LookedIs DEF IsReg
<1>4. tree' = RefreshStat(u, p) /\ handles' = h /\ u = LeaveBehind(t, {p})
  BY <1>1
<1> HIDE DEF t, h, u
<1>5. t[p] \in Node /\ (t[p].kind # "reg" => ~t[p].dirty /\ t[p].entry = None)
  BY <1>3 DEF Shape
<1>6. /\ DOMAIN u = DOMAIN t /\ \A q \in DOMAIN t : q \notin {p} => u[q] = t[q]
      /\ u[p] \in {t[p], Behind(t[p], TRUE)}
  BY <1>3, <1>4, LeaveBehindIs DEF IsLeft
<1>7. DOMAIN tree' = DOMAIN u /\ (\A q \in DOMAIN u : q # p => tree'[q] = u[q])
      /\ tree'[p] = Behind(u[p], Ahead)
  BY <1>3, <1>4, <1>6, RefreshStatIs DEF IsRefreshed
<1> DEFINE m == tree'[p]
<1>8. /\ m \in Node /\ m.kind = t[p].kind /\ m.dirty = t[p].dirty /\ m.entry = t[p].entry
      /\ m.synced = t[p].synced /\ m.behind = Ahead
  <2>1. /\ u[p] \in Node /\ u[p].kind = t[p].kind /\ u[p].dirty = t[p].dirty
        /\ u[p].entry = t[p].entry /\ u[p].synced = t[p].synced
    <3>1. CASE u[p] = t[p]
      BY <1>5, <3>1
    <3>2. CASE u[p] = Behind(t[p], TRUE)
      BY <1>5, <3>2, BehindIs
    <3> QED
      BY <1>6, <3>1, <3>2
  <2>2. m = Behind(u[p], Ahead)
    BY <1>7
  <2> HIDE DEF m
  <2> QED
    BY <2>1, <2>2, BehindIs
<1>a. tree'[p] = m
  OBVIOUS
<1> HIDE DEF m
<1>9. Kin(t[p], m)
  BY <1>5, <1>8 DEF Kin
<1>10. Undisturbed => Tended(t[p], m, p, Sure)
  BY <1>3, <1>8, SureIs DEF Tended, Truthful, NodeTrue
<1>11. crashed' \in BOOLEAN /\ opens' \in [Opens -> OpenFiles] /\ UNCHANGED <<device, surprises, scan, stranded>>
  BY <1>1 DEF TreeInv, Typed
<1>12. DOMAIN tree' = DOMAIN t /\ \A q \in DOMAIN t : q # p => tree'[q] = t[q]
  BY <1>6, <1>7
<1> QED
  BY <1>3, <1>4, <1>9, <1>10, <1>11, <1>12, <1>a, OneNodeStep

LEMMA LeastNumber ==
  ASSUME NEW S, S \subseteq Nat, S # {}
  PROVE  \E n \in S : \A m \in S : n <= m
<1>1. PICK n \in S : \A m \in S : ~(<<m, n>> \in OpToRel(<, Nat))
  BY NatLessThanWellFounded, WFMin
<1>2. ASSUME NEW m \in S
      PROVE  n <= m
  <2>1. ~(m < n)
    BY <1>1 DEF OpToRel
  <2>2. m \in Nat /\ n \in Nat
    OBVIOUS
  <2> QED
    BY <2>1, <2>2
<1> QED
  BY <1>2

LEMMA FirstHoleIs ==
  ASSUME NEW h, NEW g \in Fds, h[g] = Null
  PROVE  FirstHole(h) \in Fds /\ h[FirstHole(h)] = Null
<1> DEFINE S == {fd \in Fds : h[fd] = Null}
<1>1. S \subseteq Nat /\ S # {}
  BY DEF Fds
<1>2. PICK n \in S : \A m \in S : n <= m
  BY <1>1, LeastNumber
<1>3. \E fd \in Fds : h[fd] = Null /\ \A m \in Fds : h[m] = Null => fd <= m
  BY <1>2
<1> QED
  BY <1>3 DEF FirstHole

LEMMA OpenStep ==
  ASSUME TreeInv, NEW p \in Paths, NEW k \in Opens, Open(k, p)
  PROVE  TreeInv'
<1> DEFINE v == TraverseOrBuild(p)
           fd == FirstHole(v.handles)
<1>1. /\ \E x \in Fds : v.handles[x] = Null
      /\ IsReg(v, p)
      /\ tree' = [v.tree EXCEPT ![p].entry = p]
      /\ handles' = [v.handles EXCEPT ![fd] = p]
      /\ opens' = [opens EXCEPT ![k] = [fd |-> fd, path |-> p]]
      /\ UNCHANGED <<device, surprises, scan, crashed, stranded>>
  BY DEF Open
<1> HIDE DEF v
<1>2. Looked(v, p)
  BY LookedUp DEF v
<1> DEFINE t == v.tree
           h == v.handles
<1>3. /\ Shape(t) /\ HandlesOf(t, h) /\ p \in DOMAIN t /\ t[p].kind = "reg"
      /\ Undisturbed => Truthful(t, device, Sure) /\ NoneFreed(h)
  BY <1>1, <1>2, LookedIs DEF IsReg
<1>4. fd \in Fds
  BY <1>1, FirstHoleIs
<1> HIDE DEF fd
<1>5. tree' = [t EXCEPT ![p].entry = p] /\ handles' = [h EXCEPT ![fd] = p]
  BY <1>1
<1> HIDE DEF t, h
<1>6. t[p] \in Node
  BY <1>3 DEF Shape
<1> DEFINE m == tree'[p]
<1>7. /\ DOMAIN tree' = DOMAIN t /\ (\A q \in DOMAIN t : q # p => tree'[q] = t[q])
      /\ tree'[p] = [t[p] EXCEPT !.entry = p]
  BY <1>3, <1>5
<1>8. /\ m \in Node /\ m.kind = t[p].kind /\ m.dirty = t[p].dirty /\ m.entry = p
      /\ m.synced = t[p].synced /\ m.behind = t[p].behind
  BY <1>6, <1>7 DEF Node
<1>a. tree'[p] = m
  OBVIOUS
<1> HIDE DEF m
<1>9. Kin(t[p], m)
  BY <1>3, <1>8 DEF Kin
<1>10. Undisturbed => Tended(t[p], m, p, Sure)
  BY <1>3, <1>8 DEF Tended, Truthful, NodeTrue
<1>11. opens' \in [Opens -> OpenFiles]
  BY <1>1, <1>4 DEF TreeInv, Typed, OpenFiles
<1>12. crashed' \in BOOLEAN /\ UNCHANGED <<device, surprises, scan, stranded>>
  BY <1>1 DEF TreeInv, Typed
<1>13. HandlesOf(tree', h)
  BY <1>3, <1>7, <1>8, <1>a DEF HandlesOf
<1>14. HandlesOf(tree', handles')
  <2>1. /\ handles' \in [Fds -> (DOMAIN tree') \cup {Null, Freed}]
        /\ \A x \in Fds : handles'[x] = IF x = fd THEN p ELSE h[x]
    BY <1>3, <1>4, <1>5, <1>7 DEF HandlesOf
  <2> QED
    BY <1>3, <1>8, <1>13, <1>a, <2>1 DEF HandlesOf
<1>15. NoneFreed(h) => NoneFreed(handles')
  <2>1. p # Freed
    BY NullAssumption
  <2>2. \A x \in Fds : handles'[x] = IF x = fd THEN p ELSE h[x]
    BY <1>3, <1>5 DEF HandlesOf
  <2> QED
    BY <2>1, <2>2 DEF NoneFreed
<1> QED
  BY <1>3, <1>7, <1>9, <1>10, <1>11, <1>12, <1>14, <1>15, <1>a, OneNodeStep

\* The handle of an open file, where it has a node.
LEMMA HandleIs ==
  ASSUME TreeInv, NEW k \in Opens, opens[k] # None, handles[opens[k].fd] \notin {Null, Freed}
  PROVE  /\ opens[k].fd \in Fds /\ handles[opens[k].fd] \in DOMAIN tree
         /\ tree[handles[opens[k].fd]].kind = "reg"
<1>1. opens[k].fd \in Fds
  BY DEF TreeInv, Typed, OpenFiles
<1> QED
  BY <1>1 DEF TreeInv, HandlesOf

LEMMA WriteStep ==
  ASSUME TreeInv, NEW k \in Opens, Write(k)
  PROVE  TreeInv'
<1> DEFINE p == handles[opens[k].fd]
<1>1. /\ opens[k] # None /\ p # Null
      /\ UNCHANGED <<device, surprises, handles, opens, scan, stranded>>
  BY DEF Write
<1>2. CASE p = Freed
  <2>1. crashed' = TRUE /\ UNCHANGED tree
    BY <1>2 DEF Write
  <2>2. crashed' \in BOOLEAN /\ opens' \in [Opens -> OpenFiles] /\ surprises' \in 0..MaxSurprises
        /\ Shape(tree') /\ HandlesOf(tree', handles')
        /\ (surprises' = 0 => Truthful(tree', device, Sure) /\ NoneFreed(handles') /\ surprises = 0)
    BY <1>1, <2>1 DEF TreeInv, Typed, Faithful, Undisturbed
  <2> QED
    BY <1>1, <2>2, HostStep
<1>3. CASE p # Freed
  <2>1. tree' = RefreshStat([tree EXCEPT ![p].dirty = TRUE], p) /\ UNCHANGED crashed
    BY <1>3 DEF Write
  <2>2. p \in DOMAIN tree /\ tree[p].kind = "reg"
    BY <1>1, <1>3, HandleIs
  <2> HIDE DEF p
  <2>3. /\ DOMAIN tree' = DOMAIN tree /\ (\A q \in DOMAIN tree : q # p => tree'[q] = tree[q])
        /\ tree'[p] = [[tree[p] EXCEPT !.dirty = TRUE] EXCEPT !.behind = Ahead]
    BY <2>1, <2>2 DEF RefreshStat
  <2>4. tree[p] \in Node
    BY <2>2 DEF TreeInv, Shape
  <2> DEFINE m == tree'[p]
  <2>5. /\ m \in Node /\ m.kind = tree[p].kind /\ m.dirty = TRUE /\ m.entry = tree[p].entry
        /\ m.synced = tree[p].synced
    BY <2>3, <2>4, AheadAssumption DEF Node
  <2>6. tree'[p] = m
    OBVIOUS
  <2> HIDE DEF m
  <2>7. Kin(tree[p], m)
    BY <2>2, <2>5 DEF Kin
  <2>8. Undisturbed => Tended(tree[p], m, p, Sure)
    BY <2>2, <2>5 DEF TreeInv, Faithful, Tended, Truthful, NodeTrue
  <2>9. /\ crashed' \in BOOLEAN /\ opens' \in [Opens -> OpenFiles]
        /\ Shape(tree) /\ HandlesOf(tree, handles) /\ handles' = handles
        /\ Undisturbed => Truthful(tree, device, Sure) /\ NoneFreed(handles)
    BY <1>1, <2>1 DEF TreeInv, Typed, Faithful
  <2> QED
    BY <1>1, <2>2, <2>3, <2>6, <2>7, <2>8, <2>9, OneNodeStep
<1> QED
  BY <1>2, <1>3

LEMMA FlushNodeKeeps ==
  ASSUME TreeInv, NEW p \in DOMAIN tree, tree[p].kind = "reg", FlushNode(p)
  PROVE  /\ Shape(tree') /\ HandlesOf(tree', handles)
         /\ Undisturbed => Truthful(tree', device, Sure)
<1>0. /\ Shape(tree) /\ HandlesOf(tree, handles) /\ (Undisturbed => Truthful(tree, device, Sure))
      /\ tree[p] \in Node
  BY DEF TreeInv, Faithful, Shape
<1>1. CASE UNCHANGED tree
  BY <1>0, <1>1
<1>2. CASE ~(UNCHANGED tree)
  <2>1. PICK target \in {tree[p].entry, p} \cap Paths : tree' = Flushed(tree, p, target)
    BY <1>2 DEF FlushNode
  <2> DEFINE m == [tree[p] EXCEPT !.dirty = FALSE]
             u == [tree EXCEPT ![p].dirty = FALSE]
             w == LeaveBehind(u, {target})
  <2>2. m \in Node /\ m.kind = "reg" /\ m.entry = tree[p].entry /\ m.synced = tree[p].synced
    BY <1>0 DEF Node
  <2>3. DOMAIN u = DOMAIN tree /\ u[p] = m /\ \A q \in DOMAIN tree : q # p => u[q] = tree[q]
    OBVIOUS
  <2>4. tree' = RefreshStat(w, p) /\ w = LeaveBehind(u, {target})
    BY <2>1 DEF Flushed
  <2> HIDE DEF m, u, w
  <2>5. \A q \in DOMAIN tree : Kin(tree[q], u[q])
    BY <1>0, <2>2, <2>3, TendedSelf DEF Kin
  <2>6. Shape(u) /\ HandlesOf(u, handles)
    BY <1>0, <2>3, <2>5, AlikeShape, AlikeHandles
  <2>7. /\ Shape(w) /\ HandlesOf(w, handles) /\ DOMAIN w = DOMAIN u
        /\ \A q \in DOMAIN u : q \notin {target} => w[q] = u[q]
        /\ \A q \in DOMAIN u : w[q] \in {u[q], Behind(u[q], TRUE)}
    BY <2>4, <2>6, LeftKeeps, LeaveBehindIs DEF IsLeft
  <2>8. /\ Shape(tree') /\ HandlesOf(tree', handles) /\ DOMAIN tree' = DOMAIN w
        /\ \A q \in DOMAIN w : q # p => tree'[q] = w[q]
        /\ p \in DOMAIN w => tree'[p] = Behind(w[p], Ahead)
    <3>1. Shape(tree') /\ HandlesOf(tree', handles)
      BY <2>4, <2>7, RefreshedKeeps
    <3>2. /\ DOMAIN tree' = DOMAIN w
          /\ \A q \in DOMAIN w : q # p => tree'[q] = w[q]
          /\ p \in DOMAIN w => tree'[p] = Behind(w[p], Ahead)
      BY <2>4, RefreshStatIs DEF IsRefreshed
    <3> QED
      BY <2>4, <3>1, <3>2
  <2>9. ASSUME Undisturbed
        PROVE  Truthful(tree', device, Sure)
    <3>1. Truthful(tree, device, Sure) /\ (p \in Sure => tree[p].entry \in {None, p})
      BY <1>0, <2>9 DEF Truthful, NodeTrue
    <3>2. p \in Sure => target = p
      BY <3>1, NullAssumption
    <3>3. DOMAIN tree' = DOMAIN tree
      BY <2>3, <2>7, <2>8
    <3>4. tree'[p] = Behind(w[p], Ahead) /\ w[p] \in {m, Behind(m, TRUE)}
      BY <2>3, <2>7, <2>8
    <3>5. /\ tree'[p] \in Node /\ tree'[p].kind = "reg" /\ tree'[p].entry = m.entry
          /\ tree'[p].synced = m.synced /\ tree'[p].behind = Ahead
      BY <2>2, <3>4, AheadAssumption DEF Node, Behind
    <3>6. Kin(tree[p], tree'[p]) /\ Tended(tree[p], tree'[p], p, Sure)
      BY <2>2, <3>1, <3>5, SureIs DEF Kin, Tended
    <3>7. ASSUME NEW q \in DOMAIN tree, q # p
          PROVE  Kin(tree[q], tree'[q]) /\ Tended(tree[q], tree'[q], q, Sure)
      <4>1. tree'[q] = w[q] /\ u[q] = tree[q] /\ w[q] \in {u[q], Behind(u[q], TRUE)}
            /\ (q \notin {target} => w[q] = u[q])
        BY <2>3, <2>7, <2>8, <3>7
      <4>2. CASE tree'[q] = tree[q]
        BY <1>0, <3>1, <4>2, TendedSelf
      <4>3. CASE tree'[q] = Behind(tree[q], TRUE) /\ tree'[q] # tree[q]
        <5>1. q \in Paths /\ p \in Paths /\ tree[q] \in Node
              /\ (tree[q].kind # "reg" => ~tree[q].dirty /\ tree[q].entry = None)
          BY <1>0 DEF Shape
        <5>2. q \notin Sure
          BY <3>2, <3>7, <4>1, <4>3, <5>1, SureIs
        <5>3. /\ tree'[q] \in Node /\ tree'[q].kind = tree[q].kind /\ tree'[q].entry = tree[q].entry
              /\ tree'[q].dirty = tree[q].dirty /\ tree'[q].synced = tree[q].synced
          BY <4>3, <5>1, BehindIs
        <5>4. Kin(tree[q], tree'[q])
          BY <5>1, <5>3 DEF Kin
        <5> QED
          BY <5>2, <5>3, <5>4 DEF Tended
      <4> QED
        BY <4>1, <4>2, <4>3
    <3>8. \A q \in DOMAIN tree : Kin(tree[q], tree'[q]) /\ Tended(tree[q], tree'[q], q, Sure)
      BY <3>6, <3>7
    <3> QED
      BY <3>1, <3>3, <3>8, AlikeTruthful
  <2> QED
    BY <2>8, <2>9
<1> QED
  BY <1>1, <1>2

\* flush and release, but for the handle that release gives back.
LEMMA FlushedOrCrashed ==
  ASSUME TreeInv, NEW k \in Opens, opens[k] # None,
         LET p == handles[opens[k].fd]
         IN  IF p \in {Null, Freed} THEN crashed' = TRUE /\ UNCHANGED tree
             ELSE FlushNode(p) /\ UNCHANGED crashed
  PROVE  /\ crashed' \in BOOLEAN /\ Shape(tree') /\ HandlesOf(tree', handles)
         /\ Undisturbed => Truthful(tree', device, Sure)
<1> DEFINE p == handles[opens[k].fd]
<1>1. CASE p \in {Null, Freed}
  <2>1. crashed' = TRUE /\ UNCHANGED tree
    BY <1>1
  <2> QED
    BY <2>1 DEF TreeInv, Faithful
<1>2. CASE p \notin {Null, Freed}
  <2>1. FlushNode(p) /\ UNCHANGED crashed
    BY <1>2
  <2>2. p \in DOMAIN tree /\ tree[p].kind = "reg"
    BY <1>2, HandleIs
  <2> HIDE DEF p
  <2>3. Shape(tree') /\ HandlesOf(tree', handles) /\ (Undisturbed => Truthful(tree', device, Sure))
    BY <2>1, <2>2, FlushNodeKeeps
  <2>4. crashed' \in BOOLEAN
    BY <2>1 DEF TreeInv, Typed
  <2> QED
    BY <2>3, <2>4
<1> QED
  BY <1>1, <1>2

LEMMA FlushStep ==
  ASSUME TreeInv, NEW k \in Opens, Flush(k)
  PROVE  TreeInv'
<1>1. opens[k] # None /\ UNCHANGED <<device, surprises, handles, opens, scan, stranded>>
  BY DEF Flush
<1>2. /\ crashed' \in BOOLEAN /\ Shape(tree') /\ HandlesOf(tree', handles)
      /\ Undisturbed => Truthful(tree', device, Sure)
  BY <1>1, FlushedOrCrashed DEF Flush
<1>3. /\ opens' \in [Opens -> OpenFiles] /\ surprises' \in 0..MaxSurprises
      /\ HandlesOf(tree', handles')
      /\ (surprises' = 0 => surprises = 0 /\ Truthful(tree', device, Sure) /\ NoneFreed(handles'))
  BY <1>1, <1>2 DEF TreeInv, Typed, Faithful, Undisturbed
<1> QED
  BY <1>1, <1>2, <1>3, HostStep

LEMMA ReleaseStep ==
  ASSUME TreeInv, NEW k \in Opens, Release(k)
  PROVE  TreeInv'
<1>1. /\ opens[k] # None /\ UNCHANGED <<device, surprises, scan, stranded>>
      /\ opens' = [opens EXCEPT ![k] = None]
      /\ handles' = [handles EXCEPT ![opens[k].fd] = Null]
  BY DEF Release
<1>2. /\ crashed' \in BOOLEAN /\ Shape(tree') /\ HandlesOf(tree', handles)
      /\ Undisturbed => Truthful(tree', device, Sure)
  BY <1>1, FlushedOrCrashed DEF Release
<1>3. opens' \in [Opens -> OpenFiles]
  BY <1>1 DEF TreeInv, Typed, OpenFiles
<1>4. Null \notin DOMAIN tree'
  BY <1>2, NullAssumption DEF Shape
<1>5. /\ handles' \in [Fds -> (DOMAIN tree') \cup {Null, Freed}]
      /\ \A fd \in Fds : handles'[fd] \in {handles[fd], Null}
  BY <1>1, <1>2 DEF HandlesOf
<1>6. HandlesOf(tree', handles')
  BY <1>2, <1>4, <1>5 DEF HandlesOf
<1>7. NoneFreed(handles) => NoneFreed(handles')
  BY <1>5, NullAssumption DEF NoneFreed
<1>8. /\ surprises' \in 0..MaxSurprises
      /\ (surprises' = 0 => surprises = 0 /\ Truthful(tree', device, Sure) /\ NoneFreed(handles'))
  BY <1>1, <1>2, <1>7 DEF TreeInv, Typed, Faithful, Undisturbed
<1> QED
  BY <1>1, <1>2, <1>3, <1>6, <1>8, HostStep

LEMMA ExpireStep ==
  ASSUME TreeInv, NEW yes \in BOOLEAN, tree' = Expire(yes),
         UNCHANGED <<device, surprises, handles, opens, scan, crashed, stranded>>
  PROVE  TreeInv'
<1>0. Shape(tree) /\ HandlesOf(tree, handles) /\ (Undisturbed => Truthful(tree, device, Sure))
  BY DEF TreeInv, Faithful
<1>1. DOMAIN tree' = DOMAIN tree
      /\ \A q \in DOMAIN tree : tree'[q] = [tree[q] EXCEPT !.expired = yes /\ q # Root]
  BY DEF Expire
<1>2. ASSUME NEW q \in DOMAIN tree
      PROVE  Kin(tree[q], tree'[q]) /\ (Undisturbed => Tended(tree[q], tree'[q], q, Sure))
  <2> DEFINE b == yes /\ q # Root
  <2>1. b \in BOOLEAN
    OBVIOUS
  <2>2. tree'[q] = [tree[q] EXCEPT !.expired = b]
    BY <1>1
  <2> HIDE DEF b
  <2>3. tree[q] \in Node /\ (tree[q].kind # "reg" => ~tree[q].dirty /\ tree[q].entry = None)
    BY <1>0 DEF Shape
  <2>4. /\ tree'[q] \in Node /\ tree'[q].kind = tree[q].kind /\ tree'[q].dirty = tree[q].dirty
        /\ tree'[q].entry = tree[q].entry /\ tree'[q].behind = tree[q].behind
        /\ tree'[q].synced = tree[q].synced
    BY <2>1, <2>2, <2>3 DEF Node
  <2> QED
    BY <1>0, <2>3, <2>4 DEF Kin, Tended, Truthful, NodeTrue
<1>3. Shape(tree') /\ HandlesOf(tree', handles)
  BY <1>0, <1>1, <1>2, AlikeShape, AlikeHandles
<1>4. Undisturbed => Truthful(tree', device, Sure)
  BY <1>0, <1>1, <1>2, AlikeTruthful
<1>5. /\ crashed' \in BOOLEAN /\ opens' \in [Opens -> OpenFiles] /\ surprises' \in 0..MaxSurprises
      /\ HandlesOf(tree', handles')
      /\ (surprises' = 0 => surprises = 0 /\ Truthful(tree', device, Sure) /\ NoneFreed(handles'))
  BY <1>3, <1>4 DEF TreeInv, Typed, Faithful, Undisturbed
<1> QED
  BY <1>3, <1>5, HostStep

LEMMA ForgetEntryStep ==
  ASSUME TreeInv, NEW p \in Paths, ForgetEntry(p)
  PROVE  TreeInv'
<1>1. /\ p \in DOMAIN tree /\ ~tree[p].dirty /\ tree' = [tree EXCEPT ![p].entry = None]
      /\ UNCHANGED <<device, surprises, handles, opens, scan, crashed, stranded>>
  BY DEF ForgetEntry
<1>2. tree[p] \in Node
  BY <1>1 DEF TreeInv, Shape
<1>3. /\ DOMAIN tree' = DOMAIN tree /\ (\A q \in DOMAIN tree : q # p => tree'[q] = tree[q])
      /\ tree'[p] = [tree[p] EXCEPT !.entry = None]
  BY <1>1
<1> DEFINE m == tree'[p]
<1>4. /\ m \in Node /\ m.kind = tree[p].kind /\ m.dirty = tree[p].dirty /\ m.entry = None
      /\ m.synced = tree[p].synced /\ m.behind = tree[p].behind
  BY <1>2, <1>3 DEF Node
<1>5. tree'[p] = m
  OBVIOUS
<1> HIDE DEF m
<1>6. Kin(tree[p], m)
  BY <1>1, <1>4 DEF Kin
<1>7. Undisturbed => Tended(tree[p], m, p, Sure)
  BY <1>1, <1>4 DEF TreeInv, Faithful, Tended, Truthful, NodeTrue
<1>8. /\ crashed' \in BOOLEAN /\ opens' \in [Opens -> OpenFiles]
      /\ Shape(tree) /\ HandlesOf(tree, handles) /\ handles' = handles
      /\ Undisturbed => Truthful(tree, device, Sure) /\ NoneFreed(handles)
  BY <1>1 DEF TreeInv, Typed, Faithful
<1> QED
  BY <1>1, <1>3, <1>5, <1>6, <1>7, <1>8, OneNodeStep

-----------------------------------------------------------------------------
(* Operations that change the device *)

LEMMA AnyStep ==
  ASSUME TreeInv, FilesShape(device'), UNCHANGED scan, crashed' \in BOOLEAN,
         opens' \in [Opens -> OpenFiles], stranded' \in BOOLEAN,
         surprises' \in 0..MaxSurprises, surprises' = 0 => surprises = 0,
         Shape(tree'), HandlesOf(tree', handles'),
         surprises' = 0 => Truthful(tree', device', Sure') /\ NoneFreed(handles'),
         surprises' = 0 /\ scan # None => \A q \in Children[scan.dir] : device'[q] = device[q]
  PROVE  TreeInv'
<1>1. Typed'
  BY DEF TreeInv, Typed
<1>2. Undisturbed' => ScanCurrent'
  BY DEF TreeInv, Faithful, ScanCurrent, Undisturbed
<1>3. Undisturbed' => Faithful'
  BY <1>2 DEF Faithful, Undisturbed
<1> QED
  BY <1>1, <1>3 DEF TreeInv

LEMMA DeviceStep ==
  ASSUME TreeInv, FilesShape(device'), UNCHANGED <<scan, stranded>>, crashed' \in BOOLEAN,
         opens' \in [Opens -> OpenFiles],
         surprises' \in 0..MaxSurprises, surprises' = 0 => surprises = 0,
         Shape(tree'), HandlesOf(tree', handles'),
         surprises' = 0 => Truthful(tree', device', Sure) /\ NoneFreed(handles'),
         surprises' = 0 /\ scan # None => \A q \in Children[scan.dir] : device'[q] = device[q]
  PROVE  TreeInv'
<1>1. stranded' \in BOOLEAN /\ Sure' = Sure
  BY SureStays DEF TreeInv, Typed
<1> QED
  BY <1>1, AnyStep

\* The kernel's lock keeps what a readdir waits for from changing.
LEMMA ScanApart ==
  ASSUME TreeInv, scan # None, NEW p \in Paths, p # Root, Unlocked(p), NEW q \in Children[scan.dir]
  PROVE  q \in Paths /\ ~IsUnder(q, p) /\ q # p
<1>1. scan.dir \in Paths
  BY DEF TreeInv, Typed
<1>2. q \in Paths /\ q # Root /\ Parent(q) = scan.dir
  BY <1>1, ChildrenAre
<1>3. scan.dir # Parent(p) /\ ~IsUnder(scan.dir, p)
  BY DEF Unlocked
<1>4. q # p
  BY <1>2, <1>3
<1>5. ~IsUnder(q, p)
  BY <1>2, <1>3, <1>4, UnderStrictly
<1> QED
  BY <1>2, <1>4, <1>5

Become(f, p, kind) == [f EXCEPT ![p] = kind]

LEMMA FileMade ==
  ASSUME NEW f, FilesShape(f), NEW p \in Paths, p # Root, f[p] = "none", f[Parent(p)] = "dir",
         NEW kind \in Kinds, NEW g, g = Become(f, p, kind)
  PROVE  FilesShape(g) /\ g[p] = kind /\ \A q \in Paths : q # p => g[q] = f[q]
<1>1. f \in [Paths -> Kinds] /\ f[Root] = "dir"
  BY DEF FilesShape
<1>2. g \in [Paths -> Kinds] /\ g[p] = kind /\ \A q \in Paths : q # p => g[q] = f[q]
  BY <1>1 DEF Become
<1>3. g[Root] = "dir"
  BY <1>1, <1>2, RootIsPath
<1>4. ASSUME NEW q \in Paths \ {Root}, g[q] # "none"
      PROVE  g[Parent(q)] = "dir"
  <2>1. Parent(q) \in Paths /\ f[Parent(q)] = "dir"
    BY <1>2, <1>4, ParentIs DEF FilesShape
  <2>2. Parent(q) # p
    BY <2>1
  <2> QED
    BY <1>2, <2>1, <2>2
<1> QED
  BY <1>2, <1>3, <1>4 DEF FilesShape

LEMMA FileRemoved ==
  ASSUME NEW f, FilesShape(f), NEW p \in Paths, p # Root,
         f[p] = "reg" \/ \A q \in Children[p] : f[q] = "none",
         NEW g, g = Become(f, p, "none")
  PROVE  FilesShape(g) /\ g[p] = "none" /\ \A q \in Paths : q # p => g[q] = f[q]
<1>1. f \in [Paths -> Kinds] /\ f[Root] = "dir"
  BY DEF FilesShape
<1>2. g \in [Paths -> Kinds] /\ g[p] = "none" /\ \A q \in Paths : q # p => g[q] = f[q]
  BY <1>1 DEF Kinds, Become
<1>3. g[Root] = "dir"
  BY <1>1, <1>2, RootIsPath
<1>4. ASSUME NEW q \in Paths \ {Root}, g[q] # "none"
      PROVE  g[Parent(q)] = "dir"
  <2>1. q # p /\ f[q] # "none" /\ Parent(q) \in Paths /\ f[Parent(q)] = "dir"
    BY <1>2, <1>4, ParentIs DEF FilesShape
  <2>2. Parent(q) # p
    BY <2>1, ChildrenAre
  <2> QED
    BY <1>2, <2>1, <2>2
<1> QED
  BY <1>2, <1>3, <1>4 DEF FilesShape

\* What is above a file is a directory, with a file on the way down to it.
LEMMA FilesAbove ==
  ASSUME NEW f, FilesShape(f), NEW h \in Paths, f[h] # "none", NEW p \in Paths, IsUnder(h, p), h # p
  PROVE  f[p] = "dir" /\ \E c \in Children[p] : f[c] # "none" /\ IsUnder(h, c)
<1> DEFINE X == {q \in Paths : f[q] # "none"}
           D == {q \in Paths : f[q] = "dir"}
<1>1. X \subseteq Paths /\ D \subseteq X /\ h \in X
  OBVIOUS
<1>2. \A r \in X : r # Root => Parent(r) \in D
  BY ParentIs DEF FilesShape
<1>3. p \in D => f[p] = "dir"
  OBVIOUS
<1>4. \A c : c \in X => f[c] # "none"
  OBVIOUS
<1> HIDE DEF X, D
<1>5. p \in D /\ \E c \in Children[p] : c \in X /\ IsUnder(h, c)
  BY <1>1, <1>2, AncestorsIn
<1> QED
  BY <1>3, <1>4, <1>5

\* The node at p is taken out with all that is below it.
LEMMA CutShape ==
  ASSUME NEW t, Shape(t), NEW p \in Paths, p # Root, NEW u, u = Without(t, Subtree(t, p))
  PROVE  /\ Shape(u) /\ DOMAIN u = DOMAIN t \ Subtree(t, p)
         /\ \A q \in DOMAIN u : u[q] = t[q] /\ q \in DOMAIN t /\ ~IsUnder(q, p)
<1>1. /\ DOMAIN u = DOMAIN t \ Subtree(t, p)
      /\ \A q \in DOMAIN u : u[q] = t[q] /\ q \in DOMAIN t /\ ~IsUnder(q, p)
      /\ \A q \in DOMAIN t : ~IsUnder(q, p) => q \in DOMAIN u
  BY SubtreeIs DEF Without
<1>2. Root \in DOMAIN t /\ DOMAIN t \subseteq Paths
  BY DEF Shape
<1>3. Root \in DOMAIN u
  BY <1>1, <1>2, RootUnder
<1>4. ASSUME NEW q \in DOMAIN u, q # Root
      PROVE  Parent(q) \in DOMAIN u /\ u[Parent(q)].kind = "dir"
  <2>1. q \in DOMAIN t /\ q \in Paths /\ ~IsUnder(q, p)
    BY <1>1, <1>2
  <2>2. Parent(q) \in DOMAIN t /\ t[Parent(q)].kind = "dir"
    BY <1>4, <2>1 DEF Shape
  <2>3. ~IsUnder(Parent(q), p)
    BY <1>4, <2>1, UnderOfParent
  <2> QED
    BY <1>1, <2>2, <2>3
<1>5. \A q \in DOMAIN u : u[q] \in Node /\ (u[q].kind # "reg" => ~u[q].dirty /\ u[q].entry = None)
  BY <1>1 DEF Shape
<1>6. DOMAIN u \subseteq Paths
  BY <1>1, <1>2
<1> QED
  BY <1>1, <1>3, <1>4, <1>5, <1>6 DEF Shape

LEMMA CutHandles ==
  ASSUME NEW t, Shape(t), NEW p \in Paths, p # Root, NEW u, u = Without(t, Subtree(t, p)),
         NEW h, HandlesOf(t, h),
         NEW g, NEW stray \in {Null, Freed},
         g = [fd \in Fds |-> IF h[fd] \in Subtree(t, p) THEN stray ELSE h[fd]]
  PROVE  HandlesOf(u, g)
<1>1. /\ Shape(u) /\ DOMAIN u = DOMAIN t \ Subtree(t, p)
      /\ \A q \in DOMAIN u : u[q] = t[q]
  BY CutShape
<1>2. Null \notin DOMAIN u /\ Freed \notin DOMAIN u
  BY <1>1, NullAssumption DEF Shape
<1>3. ASSUME NEW fd \in Fds
      PROVE  g[fd] \in DOMAIN u \cup {Null, Freed} /\ (g[fd] \in DOMAIN u => u[g[fd]].kind = "reg")
  <2>1. h[fd] \in DOMAIN t \cup {Null, Freed} /\ (h[fd] \in DOMAIN t => t[h[fd]].kind = "reg")
    BY DEF HandlesOf
  <2>2. CASE h[fd] \in Subtree(t, p)
    BY <1>2, <2>2
  <2>3. CASE h[fd] \notin Subtree(t, p)
    BY <1>1, <1>2, <2>1, <2>3
  <2> QED
    BY <2>2, <2>3
<1> QED
  BY <1>3 DEF HandlesOf

LEMMA CutTruthful ==
  ASSUME NEW t, Shape(t), NEW p \in Paths, p # Root, NEW u, u = Without(t, Subtree(t, p)),
         NEW f, NEW sure, Truthful(t, f, sure), NEW g, g[p] = "none", \A q \in Paths : q # p => g[q] = f[q]
  PROVE  Truthful(u, g, sure)
<1>1. /\ Shape(u) /\ DOMAIN u = DOMAIN t \ Subtree(t, p)
      /\ \A q \in DOMAIN u : u[q] = t[q] /\ q \in DOMAIN t /\ ~IsUnder(q, p)
  BY CutShape
<1>2. ASSUME NEW q \in DOMAIN u
      PROVE  NodeTrue(u[q], q, g, DOMAIN u, sure)
  <2>1. /\ q \in DOMAIN t /\ q \in Paths /\ u[q] = t[q] /\ NodeTrue(t[q], q, f, DOMAIN t, sure)
        /\ ~IsUnder(q, p) /\ q # p
    BY <1>1, <1>2, UnderSelf DEF Truthful, Shape
  <2>2. ASSUME NEW c \in Children[q], g[c] # "none", t[q].synced
        PROVE  c \in DOMAIN u
    <3>1. c \in Paths /\ c # Root /\ Parent(c) = q /\ c # p
      BY <2>1, <2>2, ChildrenAre
    <3>2. c \in DOMAIN t
      BY <2>1, <2>2, <3>1 DEF NodeTrue
    <3>3. ~IsUnder(c, p)
      BY <2>1, <3>1, UnderStrictly
    <3> QED
      BY <1>1, <3>2, <3>3, SubtreeIs
  <2> QED
    BY <2>1, <2>2 DEF NodeTrue
<1> QED
  BY <1>2 DEF Truthful

LEMMA SurprisesCount ==
  ASSUME TreeInv, NEW p, Surprise(p)
  PROVE  surprises' \in 0..MaxSurprises /\ surprises' # 0
BY BoundsAssumption DEF TreeInv, Typed, Surprise

LEMMA SurprisesStay ==
  ASSUME TreeInv, UNCHANGED surprises
  PROVE  surprises' \in 0..MaxSurprises /\ (surprises' = 0 => Undisturbed)
BY DEF TreeInv, Typed, Undisturbed

LEMMA CreateStep ==
  ASSUME TreeInv, NEW p \in Paths, p # Root, Unlocked(p), NEW kind \in {"reg", "dir"},
         NEW v, v = TraverseOrBuild(Parent(p)), Create(p, kind, v)
  PROVE  TreeInv'
<1> DEFINE succeeds == IF kind = "dir" THEN MkdirSucceeds(p) ELSE MknodSucceeds(p)
           t == v.tree
           h == v.handles
           d == Parent(p)
           aged == LeaveBehind(t, {p, d})
           new == [device EXCEPT ![p] = kind]
           told(fate) == succeeds /\ fate \in {"done", "unstated"}
           made == With(aged, p, NewNode(kind, kind = "dir", FALSE))
<1>1. PICK fate \in Fates \cup {"unstated"} :
        /\ IsDir(v, d) /\ (p \in DOMAIN t => t[p].kind = "err")
        /\ IF succeeds THEN Executes(fate, new) ELSE UNCHANGED device
        /\ Fated(IF told(fate) /\ fate = "unstated" THEN "unheard" ELSE fate, p)
        /\ tree' = IF ~told(fate) THEN RefreshStat(IF succeeds /\ fate = "unheard" THEN aged ELSE t, d)
                   ELSE IF fate = "done" THEN made ELSE aged
        /\ handles' = h
        /\ UNCHANGED <<opens, scan, crashed, stranded>>
  BY DEF Create
<1>2. succeeds => device[p] = "none" /\ device[d] = "dir"
  BY DEF MkdirSucceeds, MknodSucceeds, Exists
<1>3. d \in Paths /\ d # p
  BY ParentIs, ParentUnder, UnderSelf
<1>4. Looked(v, d)
  BY <1>3, LookedUp
<1>5. /\ Shape(t) /\ HandlesOf(t, h) /\ d \in DOMAIN t /\ t[d].kind = "dir"
      /\ Undisturbed => Truthful(t, device, Sure) /\ NoneFreed(h)
  BY <1>1, <1>3, <1>4, LookedIs DEF IsDir
<1> HIDE DEF t, h, d, succeeds
<1>6. FilesShape(device) /\ crashed' \in BOOLEAN /\ opens' \in [Opens -> OpenFiles]
  BY <1>1 DEF TreeInv, Typed
<1>a. aged = LeaveBehind(t, {p, d}) /\ new = Become(device, p, kind)
  BY DEF Become
<1>b. kind \in Kinds /\ (succeeds => device[Parent(p)] = "dir")
  BY <1>2 DEF Kinds, d
<1> HIDE DEF aged, new
<1>7. /\ Shape(aged) /\ HandlesOf(aged, h) /\ DOMAIN aged = DOMAIN t
      /\ \A q \in DOMAIN t : aged[q].kind = t[q].kind
  <2>1. IsLeft(aged, t, {p, d})
    BY <1>a, LeaveBehindIs
  <2>2. \A q \in DOMAIN t : aged[q].kind = t[q].kind
    BY <1>5, <2>1, LeftNodes
  <2>3. Shape(aged) /\ HandlesOf(aged, h)
    BY <1>5, <1>a, LeftKeeps
  <2> QED
    BY <2>1, <2>2, <2>3 DEF IsLeft
<1>8. Truthful(t, device, Sure) => Truthful(aged, device, Sure)
  <2>1. \A q \in {p, d} \cap DOMAIN t : q # Root => t[q].kind # "reg"
    BY <1>1, <1>5
  <2> QED
    BY <1>5, <1>a, <2>1, LeftTrue
<1>9. succeeds => FilesShape(new) /\ new[p] = kind /\ \A q \in Paths : q # p => new[q] = device[q]
  BY <1>2, <1>6, <1>a, <1>b, FileMade
<1>10. FilesShape(device') /\ \A q \in Paths : q # p => device'[q] = device[q]
  BY <1>1, <1>6, <1>9 DEF Executes
<1>11. scan # None => \A q \in Children[scan.dir] : device'[q] = device[q]
  BY <1>10, ScanApart
<1>12. surprises' \in 0..MaxSurprises
       /\ (surprises' = 0 => Undisturbed /\ fate # "unheard" /\ ~(told(fate) /\ fate = "unstated"))
  <2>1. CASE fate = "unheard" \/ (told(fate) /\ fate = "unstated")
    <3>1. Surprise(p)
      BY <1>1, <2>1 DEF Fated
    <3> QED
      BY <3>1, SurprisesCount
  <2>2. CASE ~(fate = "unheard" \/ (told(fate) /\ fate = "unstated"))
    <3>1. UNCHANGED surprises
      BY <1>1, <2>2 DEF Fated
    <3> QED
      BY <2>2, <3>1, SurprisesStay
  <2> QED
    BY <2>1, <2>2
<1>13. CASE ~told(fate)
  <2> DEFINE u == IF succeeds /\ fate = "unheard" THEN aged ELSE t
  <2>1. tree' = RefreshStat(u, d)
    BY <1>1, <1>13
  <2>2. Shape(u) /\ HandlesOf(u, h) /\ (Truthful(t, device, Sure) => Truthful(u, device, Sure))
    BY <1>5, <1>7, <1>8
  <2> HIDE DEF u
  <2>3. Shape(tree') /\ HandlesOf(tree', h) /\ (Truthful(t, device, Sure) => Truthful(tree', device, Sure))
    BY <2>1, <2>2, RefreshedKeeps, RefreshedTrue, SureIs
  <2>4. surprises' = 0 => device' = device
    BY <1>1, <1>12, <1>13 DEF Executes, Fates
  <2>5. surprises' = 0 => surprises = 0 /\ Truthful(tree', device', Sure) /\ NoneFreed(handles')
    BY <1>1, <1>5, <1>12, <2>3, <2>4 DEF Undisturbed
  <2>6. HandlesOf(tree', handles')
    BY <1>1, <2>3
  <2> QED
    BY <1>1, <1>6, <1>10, <1>11, <1>12, <2>3, <2>5, <2>6, DeviceStep
<1>14. CASE told(fate) /\ fate = "unstated"
  <2>1. tree' = aged /\ handles' = h /\ surprises' # 0
    BY <1>1, <1>12, <1>14
  <2>2. Shape(tree') /\ HandlesOf(tree', handles')
    BY <1>7, <2>1
  <2> QED
    BY <1>1, <1>6, <1>10, <1>11, <1>12, <2>1, <2>2, DeviceStep
<1>15. CASE told(fate) /\ fate = "done"
  <2> DEFINE isdir == kind = "dir"
             n == NewNode(kind, isdir, FALSE)
  <2>1. tree' = With(aged, p, n) /\ handles' = h
    BY <1>1, <1>15
  <2>2. /\ n \in Node /\ n.kind = kind /\ ~n.behind /\ ~n.synced /\ ~n.dirty /\ n.entry = None
    <3>1. isdir \in BOOLEAN
      OBVIOUS
    <3> HIDE DEF isdir
    <3> QED
      BY <3>1, NewNodeIs
  <2> HIDE DEF n
  <2>3. p \in DOMAIN aged => aged[p].kind = "err"
    BY <1>1, <1>7
  <2>4. With(aged, p, n) = Put(aged, p, n)
    BY <1>7, <2>3, WithIsPut
  <2>5. d \in DOMAIN aged /\ aged[d].kind = "dir"
    BY <1>5, <1>7
  <2>6. Shape(Put(aged, p, n))
    BY <1>7, <2>2, <2>5, PutShape DEF d
  <2>7. HandlesOf(Put(aged, p, n), EraseFrom(h, aged, p))
    BY <1>7, PutHandles DEF EraseFrom
  <2>8. EraseFrom(h, aged, p) = h
    BY <1>7, <2>3, NothingErased
  <2>9. Shape(tree') /\ HandlesOf(tree', handles')
    BY <2>1, <2>4, <2>6, <2>7, <2>8
  <2>10. device' = new /\ device'[p] = kind
    BY <1>1, <1>9, <1>15 DEF Executes
  <2>11. ASSUME surprises' = 0
         PROVE  surprises = 0 /\ Truthful(tree', device', Sure) /\ NoneFreed(handles')
    <3>1. Truthful(aged, device, Sure) /\ NoneFreed(h) /\ surprises = 0
      BY <1>5, <1>8, <1>12, <2>11 DEF Undisturbed
    <3>2. IF n.kind = "err" THEN device'[p] = "none" ELSE n.kind = device'[p]
      BY <2>2, <2>10
    <3>3. Truthful(Put(aged, p, n), device', Sure)
      BY <1>7, <1>10, <2>2, <3>1, <3>2, PutTruthful
    <3> QED
      BY <2>1, <2>4, <3>1, <3>3
  <2> QED
    BY <1>1, <1>6, <1>10, <1>11, <1>12, <2>9, <2>11, DeviceStep
<1> QED
  BY <1>13, <1>14, <1>15

LEMMA UnlinkStep ==
  ASSUME TreeInv, NEW p \in Paths, p # Root, Unlink(p)
  PROVE  TreeInv'
<1> DEFINE d == Parent(p)
           v == TraverseOrBuild(d)
           t == v.tree
           h == v.handles
           new == [device EXCEPT ![p] = "none"]
           cut == Without(t, {p})
<1>1. PICK fate \in Fates :
        /\ IsDir(v, d) /\ p \in DOMAIN t /\ t[p].kind # "dir"
        /\ IF UnlinkSucceeds(p) THEN Executes(fate, new) ELSE UNCHANGED device
        /\ Fated(fate, p)
        /\ IF UnlinkSucceeds(p) /\ fate = "done"
             THEN /\ tree' = LeaveBehind(cut, {d})
                  /\ handles' = Erase(h, {p})
             ELSE tree' = RefreshStat(t, d) /\ handles' = h
  BY DEF Unlink
<1>2. Unlocked(p) /\ UNCHANGED <<opens, scan, crashed, stranded>>
  BY DEF Unlink
<1>3. d \in Paths /\ d # p
  BY ParentIs, ParentUnder, UnderSelf
<1> HIDE DEF v, d
<1>4. Looked(v, d)
  BY <1>3, LookedUp DEF v
<1>5. /\ Shape(t) /\ HandlesOf(t, h) /\ d \in DOMAIN t /\ t[d].kind = "dir"
      /\ Undisturbed => Truthful(t, device, Sure) /\ NoneFreed(h)
  BY <1>1, <1>3, <1>4, LookedIs DEF IsDir
<1> HIDE DEF t, h
<1>6. FilesShape(device) /\ crashed' \in BOOLEAN /\ opens' \in [Opens -> OpenFiles]
  BY <1>2 DEF TreeInv, Typed
<1>a. new = Become(device, p, "none") /\ (UnlinkSucceeds(p) => device[p] = "reg")
  BY DEF UnlinkSucceeds, Become
<1> HIDE DEF new
<1>7. UnlinkSucceeds(p) => FilesShape(new) /\ new[p] = "none" /\ \A q \in Paths : q # p => new[q] = device[q]
  BY <1>6, <1>a, FileRemoved
<1>8. FilesShape(device') /\ \A q \in Paths : q # p => device'[q] = device[q]
  BY <1>1, <1>6, <1>7 DEF Executes
<1>9. scan # None => \A q \in Children[scan.dir] : device'[q] = device[q]
  BY <1>2, <1>8, ScanApart
<1>10. surprises' \in 0..MaxSurprises /\ (surprises' = 0 => Undisturbed /\ surprises = 0 /\ fate # "unheard")
  BY <1>1, SurprisesCount, SurprisesStay DEF Fated, Undisturbed
<1>11. CASE UnlinkSucceeds(p) /\ fate = "done"
  <2>1. tree' = LeaveBehind(cut, {d}) /\ handles' = Erase(h, {p}) /\ device' = new /\ new[p] = "none"
    BY <1>1, <1>7, <1>11 DEF Executes
  <2>2. Subtree(t, p) = {p}
    BY <1>1, <1>5, NothingBelow, SubtreeIs, UnderSelf
  <2>3. cut = Without(t, Subtree(t, p))
    BY <2>2
  <2>4. handles' = [fd \in Fds |-> IF h[fd] \in Subtree(t, p) THEN Null ELSE h[fd]]
    BY <2>1, <2>2 DEF Erase
  <2> HIDE DEF cut
  <2>5. Shape(cut) /\ \A q \in DOMAIN cut : q \in DOMAIN t /\ cut[q] = t[q]
    BY <1>5, <2>3, CutShape
  <2>6. HandlesOf(cut, handles')
    BY <1>5, <2>3, <2>4, CutHandles
  <2>7. Shape(tree') /\ HandlesOf(tree', handles')
    BY <2>1, <2>5, <2>6, LeftKeeps
  <2>8. ASSUME surprises' = 0
        PROVE  Truthful(tree', device', Sure) /\ NoneFreed(handles')
    <3>1. Truthful(t, device, Sure) /\ NoneFreed(h)
      BY <1>5, <1>10, <2>8
    <3>2. Truthful(cut, device', Sure)
      BY <1>5, <1>8, <2>1, <2>3, <3>1, CutTruthful
    <3>3. \A q \in {d} \cap DOMAIN cut : q # Root => cut[q].kind # "reg"
      BY <1>5, <2>5
    <3>4. Truthful(tree', device', Sure)
      BY <2>1, <2>5, <3>2, <3>3, LeftTrue
    <3>5. NoneFreed(handles')
      BY <2>1, <3>1, EraseFreesNone
    <3> QED
      BY <3>4, <3>5
  <2> QED
    BY <1>2, <1>6, <1>8, <1>9, <1>10, <2>7, <2>8, DeviceStep
<1>12. CASE ~(UnlinkSucceeds(p) /\ fate = "done")
  <2>1. tree' = RefreshStat(t, d) /\ handles' = h
    BY <1>1, <1>12
  <2>2. Shape(tree') /\ HandlesOf(tree', h) /\ (Truthful(t, device, Sure) => Truthful(tree', device, Sure))
    BY <1>5, <2>1, RefreshedKeeps, RefreshedTrue, SureIs
  <2>3. surprises' = 0 => device' = device
    BY <1>1, <1>10, <1>12 DEF Executes, Fates
  <2>4. HandlesOf(tree', handles') /\ (surprises' = 0 => Truthful(tree', device', Sure) /\ NoneFreed(handles'))
    BY <1>5, <1>10, <2>1, <2>2, <2>3
  <2> QED
    BY <1>2, <1>6, <1>8, <1>9, <1>10, <2>2, <2>4, DeviceStep
<1> QED
  BY <1>11, <1>12

\* Until a surprise a handle has the node of a file that is on the device.
LEMMA HandleOnDevice ==
  ASSUME NEW t, NEW h, Shape(t), HandlesOf(t, h), NEW f, NEW sure, Truthful(t, f, sure), NEW fd \in Fds, h[fd] \in DOMAIN t
  PROVE  h[fd] \in Paths /\ t[h[fd]].kind = "reg" /\ f[h[fd]] = "reg"
BY DEF Shape, HandlesOf, Truthful, NodeTrue

LEMMA FreesNone ==
  ASSUME NEW h, NoneFreed(h), NEW ps, \A fd \in Fds : h[fd] \notin ps
  PROVE  NoneFreed(Free(h, ps))
BY DEF NoneFreed, Free

LEMMA RmdirStep ==
  ASSUME TreeInv, NEW p \in Paths, p # Root, Rmdir(p)
  PROVE  TreeInv'
<1> DEFINE d == Parent(p)
           v == TraverseOrBuild(d)
           t == v.tree
           h == v.handles
           cut == Without(t, Subtree(t, p))
<1>1. /\ p \in DOMAIN t /\ t[p].kind = "dir"
      /\ IsDir(v, d)
      /\ \/ /\ tree' = RefreshStat(cut, d)
            /\ handles' = Free(h, Subtree(t, p))
            /\ UNCHANGED surprises
         \/ tree' = LeaveBehind(t, {p, d}) /\ handles' = h /\ Surprise(p)
  BY DEF Rmdir
<1>2. Unlocked(p) /\ RmdirSucceeds(p) /\ UNCHANGED <<opens, scan, crashed, stranded>>
  BY DEF Rmdir
<1>3. device' = Become(device, p, "none")
  BY DEF Rmdir, Become
<1>4. d \in Paths
  BY ParentIs
<1>5. Looked(v, d)
  BY <1>4, LookedUp
<1> HIDE DEF v, d
<1>6. /\ Shape(t) /\ HandlesOf(t, h)
      /\ Undisturbed => Truthful(t, device, Sure) /\ NoneFreed(h)
  BY <1>4, <1>5, LookedIs
<1>c. cut = Without(t, Subtree(t, p))
  OBVIOUS
<1> HIDE DEF t, h, cut
<1>7. FilesShape(device) /\ crashed' \in BOOLEAN /\ opens' \in [Opens -> OpenFiles]
  BY <1>2 DEF TreeInv, Typed
<1>8. device[p] = "dir" /\ \A q \in Children[p] : device[q] = "none"
  BY <1>2 DEF RmdirSucceeds, Exists
<1>9. FilesShape(device') /\ device'[p] = "none" /\ \A q \in Paths : q # p => device'[q] = device[q]
  BY <1>3, <1>7, <1>8, FileRemoved
<1>10. scan # None => \A q \in Children[scan.dir] : device'[q] = device[q]
  BY <1>2, <1>9, ScanApart
<1>11. CASE tree' = RefreshStat(cut, d) /\ handles' = Free(h, Subtree(t, p)) /\ UNCHANGED surprises
  <2>1. handles' = [fd \in Fds |-> IF h[fd] \in Subtree(t, p) THEN Freed ELSE h[fd]]
    BY <1>11 DEF Free
  <2>2. Shape(cut)
    BY <1>6, <1>c, CutShape
  <2>3. HandlesOf(cut, handles')
    BY <1>6, <1>c, <2>1, CutHandles
  <2>4. Shape(tree') /\ HandlesOf(tree', handles')
    BY <1>11, <2>2, <2>3, RefreshedKeeps
  <2>5. surprises' \in 0..MaxSurprises /\ (surprises' = 0 => Undisturbed /\ surprises = 0)
    BY <1>11, SurprisesStay DEF Undisturbed
  <2>6. ASSUME Undisturbed
        PROVE  Truthful(tree', device', Sure) /\ NoneFreed(handles')
    <3>1. Truthful(t, device, Sure) /\ NoneFreed(h)
      BY <1>6, <2>6
    <3>2. Truthful(cut, device', Sure)
      BY <1>6, <1>9, <1>c, <3>1, CutTruthful
    <3>3. Truthful(tree', device', Sure)
      BY <1>11, <2>2, <3>2, RefreshedTrue, SureIs
    <3>4. ASSUME NEW fd \in Fds, h[fd] \in Subtree(t, p)
          PROVE  FALSE
      <4>1. h[fd] \in DOMAIN t /\ IsUnder(h[fd], p)
        BY <3>4, SubtreeIs
      <4>2. h[fd] \in Paths /\ device[h[fd]] = "reg"
        BY <1>6, <3>1, <4>1, HandleOnDevice
      <4>3. h[fd] # p
        BY <1>8, <4>2
      <4>4. \E c \in Children[p] : device[c] # "none"
        BY <1>7, <4>1, <4>2, <4>3, FilesAbove
      <4> QED
        BY <1>8, <4>4
    <3>5. NoneFreed(handles')
      BY <1>11, <3>1, <3>4, FreesNone
    <3> QED
      BY <3>3, <3>5
  <2> QED
    BY <1>2, <1>7, <1>9, <1>10, <2>4, <2>5, <2>6, DeviceStep
<1>12. CASE tree' = LeaveBehind(t, {p, d}) /\ handles' = h /\ Surprise(p)
  <2>1. Shape(tree') /\ HandlesOf(tree', handles')
    BY <1>6, <1>12, LeftKeeps
  <2>2. surprises' \in 0..MaxSurprises /\ surprises' # 0
    BY <1>12, SurprisesCount
  <2> QED
    BY <1>2, <1>7, <1>9, <1>10, <2>1, <2>2, DeviceStep
<1> QED
  BY <1>1, <1>11, <1>12

LEMMA ElsewhereStep ==
  ASSUME TreeInv, NEW p \in Paths, p # Root, NEW kind \in Kinds, Elsewhere(p, kind)
  PROVE  TreeInv'
<1>1. /\ Surprise(p)
      /\ device' = [q \in Paths |-> IF q = p THEN kind ELSE IF IsUnder(q, p) THEN "none" ELSE device[q]]
      /\ tree' = LeaveBehind(tree, {p, Parent(p)})
      /\ UNCHANGED <<handles, opens, scan, crashed, stranded>>
  BY DEF Elsewhere
<1>2. FilesShape(device) /\ crashed' \in BOOLEAN /\ opens' \in [Opens -> OpenFiles]
      /\ Shape(tree) /\ HandlesOf(tree, handles)
  BY <1>1 DEF TreeInv, Typed
<1>3. device[p] \in Kinds
  BY <1>2 DEF FilesShape
<1>4. kind # "none" => device[Parent(p)] = "dir"
  <2>1. CASE device[p] = "none"
    BY <2>1 DEF Elsewhere
  <2>2. CASE device[p] # "none"
    BY <1>2, <2>2 DEF FilesShape
  <2> QED
    BY <2>1, <2>2
<1>5. /\ device' \in [Paths -> Kinds] /\ device'[p] = kind
      /\ \A q \in Paths : q # p /\ IsUnder(q, p) => device'[q] = "none"
      /\ \A q \in Paths : ~IsUnder(q, p) => device'[q] = device[q]
  BY <1>1, <1>2, UnderSelf DEF FilesShape, Kinds
<1>6. device'[Root] = "dir"
  BY <1>2, <1>5, RootUnder, RootIsPath DEF FilesShape
<1>7. ASSUME NEW q \in Paths \ {Root}, device'[q] # "none"
      PROVE  device'[Parent(q)] = "dir"
  <2>1. Parent(q) \in Paths
    BY ParentIs
  <2>2. CASE q = p
    <3>1. ~IsUnder(Parent(p), p)
      BY ParentUnder
    <3> QED
      BY <1>4, <1>5, <1>7, <2>1, <2>2, <3>1
  <2>3. CASE q # p
    <3>1. ~IsUnder(q, p)
      BY <1>5, <1>7, <2>3
    <3>2. ~IsUnder(Parent(q), p)
      BY <3>1, UnderOfParent
    <3>3. device[Parent(q)] = "dir"
      BY <1>2, <1>5, <1>7, <3>1 DEF FilesShape
    <3> QED
      BY <1>5, <2>1, <3>2, <3>3
  <2> QED
    BY <2>2, <2>3
<1>8. FilesShape(device')
  BY <1>5, <1>6, <1>7 DEF FilesShape
<1>9. Shape(tree') /\ HandlesOf(tree', handles')
  BY <1>1, <1>2, LeftKeeps
<1>10. surprises' \in 0..MaxSurprises /\ surprises' # 0
  BY <1>1, SurprisesCount
<1> QED
  BY <1>1, <1>2, <1>8, <1>9, <1>10, DeviceStep

-----------------------------------------------------------------------------
(* readdir: the listing is applied to the directory *)

LEMMA Siblings ==
  ASSUME NEW d \in Paths, NEW q \in Children[d]
  PROVE  /\ q \in Paths /\ q # Root /\ Parent(q) = d /\ ~IsUnder(d, q)
         /\ \A r \in Children[d] : IsUnder(r, q) => r = q
<1>1. q \in Paths /\ q # Root /\ Parent(q) = d
  BY ChildrenAre
<1>2. ~IsUnder(d, q)
  BY <1>1, ParentUnder
<1>3. ASSUME NEW r \in Children[d], IsUnder(r, q)
      PROVE  r = q
  <2>1. r \in Paths /\ r # Root /\ Parent(r) = d
    BY ChildrenAre
  <2> QED
    BY <1>1, <1>2, <1>3, <2>1, UnderStrictly
<1> QED
  BY <1>1, <1>2, <1>3

\* The nodes that a listing of d makes anew, destroys below those, and destroys
\* because they are not listed.
Rescanned(d, listed, fresh, known, below, gone, new, u, g) ==
  /\ listed \subseteq Children[d] /\ fresh \subseteq listed /\ known = fresh \cap DOMAIN tree
  /\ \A q \in listed : q \in DOMAIN tree \/ q \in fresh
  /\ \A x : x \in below <=> x \in DOMAIN tree /\ \E q \in known : IsUnder(x, q) /\ x # q
  /\ \A x : x \in gone <=> x \in DOMAIN tree /\ \E q \in Children[d] : q \notin listed /\ q \in DOMAIN tree /\ IsUnder(x, q)
  /\ DOMAIN u = (DOMAIN tree \cup fresh) \ (below \cup gone)
  /\ \A q \in DOMAIN u : IF q \in fresh THEN u[q] = new[q] ELSE u[q] = [tree[q] EXCEPT !.synced = @ \/ q = d]
  /\ g = Free(Erase(handles, known \cup below), gone)

LEMMA RescanIs ==
  ASSUME NEW d \in Paths, NEW reply \in [Children[d] -> Kinds], NEW ahead, NEW v, v = Rescan(d, reply, ahead)
  PROVE  \E listed, fresh, known, below, gone, new :
           /\ Rescanned(d, listed, fresh, known, below, gone, new, v.tree, v.handles)
           /\ listed = {q \in Children[d] : reply[q] # "none"}
           /\ \A q \in fresh : new[q] = NewNode(reply[q], reply[q] = "dir", device[q] # reply[q])
<1> DEFINE listed == {q \in DOMAIN reply : reply[q] # "none"}
           fresh == {q \in listed : q \in DOMAIN tree =>
                       \/ tree[q].kind = "err"
                       \/ Expired(tree[q]) /\ q \in ahead /\ DetectModification(tree[q])}
           known == fresh \cap DOMAIN tree
           below == UNION {Subtree(tree, q) \ {q} : q \in known}
           gone == UNION {Subtree(tree, q) : q \in (DOMAIN reply \cap DOMAIN tree) \ listed}
           new == [q \in fresh |-> NewNode(reply[q], reply[q] = "dir", device[q] # reply[q])]
           old(q) == [tree[q] EXCEPT !.synced = @ \/ q = d]
           u == [q \in (DOMAIN tree \cup fresh) \ (below \cup gone) |->
                   IF q \in fresh THEN NewNode(reply[q], reply[q] = "dir", device[q] # reply[q])
                   ELSE old(q)]
           g == RescanHandles(known, below, gone)
<1>1. v = [tree |-> u, handles |-> g]
  BY DEF Rescan
<1> HIDE DEF u, g
<1>2. v.tree = u /\ v.handles = g
  BY <1>1
<1>3. DOMAIN reply = Children[d]
  OBVIOUS
<1>4. /\ listed \subseteq Children[d] /\ fresh \subseteq listed
      /\ \A q \in listed : q \in DOMAIN tree \/ q \in fresh
      /\ listed = {q \in Children[d] : reply[q] # "none"}
  BY <1>3
<1> HIDE DEF listed, fresh
<1>5. /\ DOMAIN u = (DOMAIN tree \cup fresh) \ (below \cup gone)
      /\ \A q \in DOMAIN u : IF q \in fresh THEN u[q] = new[q] ELSE u[q] = old(q)
  BY DEF u
<1>6. \A q \in fresh : new[q] = NewNode(reply[q], reply[q] = "dir", device[q] # reply[q])
  OBVIOUS
<1>7. g = Free(Erase(handles, known \cup below), gone)
  BY DEF g, RescanHandles
<1> HIDE DEF known
<1>8. \A x : x \in below <=> x \in DOMAIN tree /\ \E q \in known : IsUnder(x, q) /\ x # q
  BY SubtreeIs
<1>9. \A x : x \in gone <=> x \in DOMAIN tree /\ \E q \in Children[d] : q \notin listed /\ q \in DOMAIN tree /\ IsUnder(x, q)
  BY <1>3, SubtreeIs
<1>10. known = fresh \cap DOMAIN tree
  BY DEF known
<1> HIDE DEF below, gone, new
<1>11. Rescanned(d, listed, fresh, known, below, gone, new, v.tree, v.handles)
  BY <1>2, <1>4, <1>5, <1>7, <1>8, <1>9, <1>10 DEF Rescanned
<1> QED
  BY <1>4, <1>6, <1>11

SyncedToo(n, b) == [n EXCEPT !.synced = @ \/ b]

LEMMA SyncedNode ==
  ASSUME NEW n \in Node, NEW b \in BOOLEAN, NEW m, m = SyncedToo(n, b)
  PROVE  /\ m \in Node /\ m.kind = n.kind /\ m.entry = n.entry /\ m.dirty = n.dirty
         /\ m.behind = n.behind /\ (m.synced <=> n.synced \/ b)
<1> DEFINE c == n.synced \/ b
<1>1. c \in BOOLEAN
  OBVIOUS
<1>2. m = [n EXCEPT !.synced = c]
  BY DEF SyncedToo
<1>3. c <=> n.synced \/ b
  OBVIOUS
<1> HIDE DEF c
<1>4. /\ m \in Node /\ m.kind = n.kind /\ m.entry = n.entry /\ m.dirty = n.dirty
      /\ m.behind = n.behind /\ m.synced = c
  BY <1>1, <1>2 DEF Node
<1> QED
  BY <1>3, <1>4

LEMMA ListedNode ==
  ASSUME NEW kind \in {"reg", "dir"}, NEW is \in Kinds, NEW n, n = NewNode(kind, kind = "dir", is # kind)
  PROVE  /\ n \in Node /\ n.kind = kind /\ ~n.dirty /\ n.entry = None /\ ~n.synced
         /\ is = kind => ~n.behind
<1> DEFINE isdir == kind = "dir"
           behind == is # kind
<1>1. isdir \in BOOLEAN /\ behind \in BOOLEAN /\ n = NewNode(kind, isdir, behind) /\ (is = kind => ~behind)
  OBVIOUS
<1> HIDE DEF isdir, behind
<1> QED
  BY <1>1, NewNodeIs

LEMMA ReaddirApplyStep ==
  ASSUME TreeInv, ReaddirApply
  PROVE  TreeInv'
<1> DEFINE d == scan.dir
           reply == scan.reply
<1>1. /\ d \in Paths /\ reply \in [Children[d] -> Kinds] /\ scan # None
      /\ FilesShape(device) /\ Shape(tree) /\ HandlesOf(tree, handles)
  BY DEF ReaddirApply, TreeInv, Typed
<1>2. scan' = None /\ UNCHANGED <<device, surprises, opens, stranded>>
  BY DEF ReaddirApply
<1>3. crashed' \in BOOLEAN
  BY DEF ReaddirApply, TreeInv, Typed
<1>4. Typed' /\ ScanCurrent'
  BY <1>2, <1>3 DEF TreeInv, Typed, FilesShape, ScanCurrent
<1>5. SUFFICES /\ Shape(tree') /\ HandlesOf(tree', handles')
               /\ Undisturbed => Truthful(tree', device, Sure) /\ NoneFreed(handles')
  <2>1. Undisturbed' => Faithful'
    BY <1>2, <1>4, <1>5, SureStays DEF Faithful, Undisturbed
  <2> QED
    BY <1>4, <1>5, <2>1 DEF TreeInv
<1>6. CASE ~(d \in DOMAIN tree /\ tree[d].kind = "dir")
  <2>1. UNCHANGED <<tree, handles>>
    BY <1>6 DEF ReaddirApply
  <2> QED
    BY <2>1 DEF TreeInv, Faithful
<1>7. CASE d \in DOMAIN tree /\ tree[d].kind = "dir"
  <2> DEFINE v == Rescan(d, reply, scan.ahead)
  <2>1. tree' = v.tree /\ handles' = v.handles
    BY <1>7 DEF ReaddirApply
  <2> HIDE DEF d, reply, v
  <2>2. PICK listed, fresh, known, below, gone, new :
           /\ Rescanned(d, listed, fresh, known, below, gone, new, tree', handles')
           /\ listed = {q \in Children[d] : reply[q] # "none"}
           /\ \A q \in fresh : new[q] = NewNode(reply[q], reply[q] = "dir", device[q] # reply[q])
    BY <1>1, <2>1, RescanIs DEF v
  <2>a. listed \subseteq Children[d] /\ fresh \subseteq listed /\ known = fresh \cap DOMAIN tree
    BY <2>2 DEF Rescanned
  <2>b. \A q \in listed : q \in DOMAIN tree \/ q \in fresh
    BY <2>2 DEF Rescanned
  <2>c. \A x : x \in below <=> x \in DOMAIN tree /\ \E q \in known : IsUnder(x, q) /\ x # q
    BY <2>2 DEF Rescanned
  <2>d. \A x : x \in gone <=> x \in DOMAIN tree /\ \E q \in Children[d] : q \notin listed /\ q \in DOMAIN tree /\ IsUnder(x, q)
    BY <2>2 DEF Rescanned
  <2>e. DOMAIN tree' = (DOMAIN tree \cup fresh) \ (below \cup gone)
    BY <2>2 DEF Rescanned
  <2>f. /\ \A q \in DOMAIN tree' : q \in fresh => tree'[q] = new[q]
        /\ \A q \in DOMAIN tree' : q \notin fresh => tree'[q] = [tree[q] EXCEPT !.synced = @ \/ q = d]
    BY <2>2 DEF Rescanned
  <2>g. handles' = Free(Erase(handles, known \cup below), gone)
    BY <2>2 DEF Rescanned
  <2>3. DOMAIN tree \subseteq Paths /\ Root \in DOMAIN tree
    BY <1>1 DEF Shape
  <2>4. \A q \in Children[d] : q \notin below /\ (q \in listed => q \notin gone)
    <3> SUFFICES ASSUME NEW q \in Children[d] PROVE q \notin below /\ (q \in listed => q \notin gone)
      OBVIOUS
    <3>1. \A r \in Children[d] : IsUnder(q, r) => q = r
      BY <1>1, Siblings
    <3> QED
      BY <2>a, <2>c, <2>d, <3>1
  <2>5. ASSUME NEW x \in Paths, x \in below \cup gone
        PROVE  x # Root /\ IsUnder(x, d) /\ x # d
    <3>1. PICK q \in Children[d] : IsUnder(x, q)
      BY <2>5, <2>a, <2>c, <2>d
    <3>2. q \in Paths /\ q # Root /\ Parent(q) = d /\ ~IsUnder(d, q)
      BY <1>1, Siblings
    <3>3. x # Root /\ x # d
      BY <3>1, <3>2, RootUnder
    <3>4. IsUnder(x, d)
      BY <1>1, <3>1, <3>2, ParentUnder, UnderTransitive
    <3> QED
      BY <3>3, <3>4
  <2>6. d \in DOMAIN tree' /\ Root \in DOMAIN tree' /\ d \notin fresh /\ Root \notin fresh
    <3>1. d \notin fresh /\ Root \notin fresh
      BY <1>1, <2>a, Siblings, UnderSelf
    <3> QED
      BY <1>1, <1>7, <2>3, <2>5, <2>e, <3>1
  <2>7. ASSUME NEW q \in fresh
        PROVE  /\ q \in DOMAIN tree' /\ Parent(q) = d /\ tree'[q] \in Node
               /\ tree'[q].kind = reply[q] /\ ~tree'[q].dirty /\ tree'[q].entry = None /\ ~tree'[q].synced
               /\ reply[q] = device[q] => ~tree'[q].behind
    <3>1. q \in Children[d] /\ q \in Paths /\ Parent(q) = d
      BY <1>1, <2>a, Siblings
    <3>2. q \in DOMAIN tree'
      BY <2>4, <2>7, <2>a, <2>e, <3>1
    <3>3. reply[q] \in {"reg", "dir"} /\ device[q] \in Kinds
      BY <1>1, <2>2, <2>a, <3>1 DEF Kinds, FilesShape
    <3>4. tree'[q] = NewNode(reply[q], reply[q] = "dir", device[q] # reply[q])
      BY <2>2, <2>f, <3>2
    <3> QED
      BY <3>1, <3>2, <3>3, <3>4, ListedNode
  <2>8. ASSUME NEW q \in DOMAIN tree', q \notin fresh
        PROVE  /\ q \in DOMAIN tree /\ tree'[q] \in Node /\ tree'[q].kind = tree[q].kind
               /\ tree'[q].dirty = tree[q].dirty /\ tree'[q].entry = tree[q].entry
               /\ tree'[q].behind = tree[q].behind /\ (tree'[q].synced <=> tree[q].synced \/ q = d)
    <3> DEFINE b == q = d
    <3>1. q \in DOMAIN tree /\ tree[q] \in Node
      BY <1>1, <2>8, <2>e DEF Shape
    <3>2. tree'[q] = SyncedToo(tree[q], b) /\ b \in BOOLEAN /\ (b <=> q = d)
      BY <2>8, <2>f DEF SyncedToo
    <3> HIDE DEF b
    <3> QED
      BY <3>1, <3>2, SyncedNode
  <2>9. \A q \in DOMAIN tree : q \notin below /\ q \notin gone => q \in DOMAIN tree'
    BY <2>e
  <2>10. Shape(tree')
    <3>1. DOMAIN tree' \subseteq Paths
      BY <1>1, <2>3, <2>a, <2>e, ChildrenAre
    <3>2. ASSUME NEW q \in DOMAIN tree', q # Root
          PROVE  Parent(q) \in DOMAIN tree' /\ tree'[Parent(q)].kind = "dir"
      <4>1. CASE q \in fresh
        <5>1. Parent(q) = d
          BY <2>7, <4>1
        <5>2. tree'[d].kind = "dir"
          BY <1>7, <2>6, <2>8
        <5> QED
          BY <2>6, <5>1, <5>2
      <4>2. CASE q \notin fresh
        <5>1. q \in DOMAIN tree /\ q \in Paths /\ q \notin below /\ q \notin gone
          BY <2>3, <2>8, <2>e, <4>2
        <5>2. Parent(q) \in DOMAIN tree /\ Parent(q) \in Paths /\ tree[Parent(q)].kind = "dir"
          BY <1>1, <2>3, <3>2, <5>1 DEF Shape
        <5>3. Parent(q) \notin below /\ Parent(q) \notin gone
          <6>1. \A c \in Children[d] : IsUnder(Parent(q), c) => IsUnder(q, c) /\ q # c
            BY <1>1, <3>2, <5>1, ChildrenAre, UnderOfParent
          <6> QED
            BY <2>a, <2>c, <2>d, <5>1, <6>1
        <5>4. Parent(q) \notin fresh
          <6> SUFFICES ASSUME Parent(q) \in fresh PROVE FALSE
            OBVIOUS
          <6>1. Parent(q) \in known
            BY <2>a, <5>2
          <6>2. IsUnder(q, Parent(q)) /\ q # Parent(q)
            BY <3>2, <5>1, <5>2, ParentUnder, UnderSelf
          <6> QED
            BY <2>c, <5>1, <6>1, <6>2
        <5>5. Parent(q) \in DOMAIN tree'
          BY <2>9, <5>2, <5>3
        <5> QED
          BY <2>8, <5>2, <5>4, <5>5
      <4> QED
        BY <4>1, <4>2
    <3>3. ASSUME NEW q \in DOMAIN tree'
          PROVE  tree'[q] \in Node /\ (tree'[q].kind # "reg" => ~tree'[q].dirty /\ tree'[q].entry = None)
      <4>1. CASE q \in fresh
        BY <2>7, <4>1
      <4>2. CASE q \notin fresh
        BY <1>1, <2>8, <4>2 DEF Shape
      <4> QED
        BY <4>1, <4>2
    <3> QED
      BY <2>6, <3>1, <3>2, <3>3 DEF Shape
  <2>11. ASSUME NEW fd \in Fds
         PROVE  \/ handles[fd] \in known \cup below /\ handles'[fd] = Null
                \/ handles[fd] \notin known \cup below /\ handles[fd] \in gone /\ handles'[fd] = Freed
                \/ handles[fd] \notin known \cup below \cup gone /\ handles'[fd] = handles[fd]
    <3>1. Null \notin gone
      BY <2>3, <2>d, NullAssumption
    <3> QED
      BY <2>g, <3>1 DEF Free, Erase
  <2>12. HandlesOf(tree', handles')
    <3>1. Null \notin DOMAIN tree' /\ Freed \notin DOMAIN tree'
      BY <2>10, NullAssumption DEF Shape
    <3>2. ASSUME NEW fd \in Fds
          PROVE  /\ handles'[fd] \in DOMAIN tree' \cup {Null, Freed}
                 /\ handles'[fd] \in DOMAIN tree' => tree'[handles'[fd]].kind = "reg"
      <4>1. handles[fd] \in DOMAIN tree \cup {Null, Freed} /\ (handles[fd] \in DOMAIN tree => tree[handles[fd]].kind = "reg")
        BY <1>1 DEF HandlesOf
      <4>2. CASE handles'[fd] \in {Null, Freed}
        BY <3>1, <4>2
      <4>3. CASE handles'[fd] \notin {Null, Freed}
        <5>1. handles'[fd] = handles[fd] /\ handles[fd] \in DOMAIN tree /\ handles[fd] \notin known \cup below \cup gone
          BY <2>11, <4>1, <4>3
        <5>2. handles[fd] \in DOMAIN tree' /\ handles[fd] \notin fresh
          BY <2>9, <2>a, <5>1
        <5> QED
          BY <2>8, <4>1, <5>1, <5>2
      <4> QED
        BY <4>2, <4>3
    <3>3. DOMAIN handles' = Fds /\ handles' = [fd \in Fds |-> handles'[fd]]
      BY <2>g DEF Free
    <3> QED
      BY <3>2, <3>3 DEF HandlesOf
  <2>13. ASSUME Undisturbed
         PROVE  Truthful(tree', device, Sure) /\ NoneFreed(handles')
    <3>1. /\ Truthful(tree, device, Sure) /\ NoneFreed(handles)
          /\ \A q \in Children[d] : reply[q] = device[q]
      BY <1>1, <2>13 DEF TreeInv, Faithful, ScanCurrent, d, reply
    <3>2. ASSUME NEW q \in DOMAIN tree', q \in fresh
          PROVE  NodeTrue(tree'[q], q, device, DOMAIN tree', Sure)
      <4>1. q \in Children[d] /\ reply[q] = device[q] /\ reply[q] # "none"
        BY <2>2, <2>a, <3>1, <3>2
      <4>2. reply[q] \in {"reg", "dir"}
        BY <1>1, <4>1 DEF Kinds
      <4>3. /\ tree'[q].kind = device[q] /\ tree'[q].kind # "err"
            /\ ~tree'[q].dirty /\ tree'[q].entry = None /\ ~tree'[q].synced /\ ~tree'[q].behind
        BY <2>7, <3>2, <4>1, <4>2
      <4> QED
        BY <4>3 DEF NodeTrue
    <3>3. ASSUME NEW q \in DOMAIN tree', q \notin fresh
          PROVE  NodeTrue(tree'[q], q, device, DOMAIN tree', Sure)
      <4>1. NodeTrue(tree[q], q, device, DOMAIN tree, Sure) /\ q \in Paths
        BY <2>3, <2>8, <3>1, <3>3 DEF Truthful
      <4>2. ASSUME NEW c \in Children[q], device[c] # "none", tree'[q].synced
            PROVE  c \in DOMAIN tree'
        <5>1. c \in Paths /\ c # Root /\ Parent(c) = q
          BY <4>1, ChildrenAre
        <5>2. CASE q = d
          <6>1. c \in listed
            BY <2>2, <3>1, <4>2, <5>2
          <6> QED
            BY <2>4, <2>9, <2>b, <2>7, <5>2, <6>1
        <5>3. CASE q # d
          <6>1. c \in DOMAIN tree
            BY <2>8, <3>3, <4>1, <4>2, <5>3 DEF NodeTrue
          <6>2. q \notin below /\ q \notin gone /\ q \in DOMAIN tree
            BY <2>8, <2>e, <3>3
          <6>3. \A x \in Children[d] : IsUnder(c, x) => c # x /\ IsUnder(q, x)
            BY <1>1, <5>1, <5>3, ChildrenAre, UnderStrictly
          <6>4. c \notin gone
            BY <2>d, <6>2, <6>3
          <6>5. c \notin below
            <7> SUFFICES ASSUME c \in below PROVE FALSE
              OBVIOUS
            <7>1. PICK x \in known : IsUnder(c, x) /\ c # x
              BY <2>c
            <7>2. x \in Children[d] /\ x \in fresh
              BY <2>a
            <7>3. IsUnder(q, x) /\ q # x
              BY <3>3, <6>3, <7>1, <7>2
            <7> QED
              BY <2>c, <6>2, <7>3
          <6> QED
            BY <2>9, <6>1, <6>4, <6>5
        <5> QED
          BY <5>2, <5>3
      <4>3. /\ tree'[q].kind = tree[q].kind /\ tree'[q].dirty = tree[q].dirty
            /\ tree'[q].entry = tree[q].entry /\ tree'[q].behind = tree[q].behind
        BY <2>8, <3>3
      <4> QED
        BY <4>1, <4>2, <4>3 DEF NodeTrue
    <3>4. ASSUME NEW fd \in Fds, handles'[fd] = Freed
          PROVE  FALSE
      <4>1. handles[fd] \in gone
        BY <2>11, <3>1, <3>4, NullAssumption DEF NoneFreed
      <4>2. PICK q \in Children[d] : q \notin listed /\ IsUnder(handles[fd], q)
        BY <2>d, <4>1
      <4>3. handles[fd] \in Paths /\ device[handles[fd]] = "reg"
        BY <1>1, <2>d, <3>1, <4>1, HandleOnDevice
      <4>4. device[q] = "none" /\ q \in Paths
        BY <1>1, <2>2, <3>1, <4>2, ChildrenAre
      <4> QED
        BY <1>1, <4>2, <4>3, <4>4, FilesAbove
    <3> QED
      BY <3>2, <3>3, <3>4 DEF Truthful, NoneFreed
  <2> QED
    BY <2>10, <2>12, <2>13
<1> QED
  BY <1>6, <1>7

-----------------------------------------------------------------------------
(* rename *)

\* Neither path lies below the other.
Apart(p, q) == p # Root /\ q # Root /\ ~IsUnder(p, q) /\ ~IsUnder(q, p)

LEMMA ApartDisjoint ==
  ASSUME NEW p \in Paths, NEW q \in Paths, Apart(p, q), NEW r \in Paths, IsUnder(r, p)
  PROVE  ~IsUnder(r, q)
BY UnderComparable DEF Apart

LEMMA ApartParent ==
  ASSUME NEW p \in Paths, NEW q \in Paths, Apart(p, q)
  PROVE  Parent(q) \in Paths /\ ~IsUnder(Parent(q), p) /\ ~IsUnder(Parent(q), q)
BY ParentIs, ParentUnder, UnderOfParent DEF Apart

LEMMA RenameApart ==
  ASSUME FilesShape(device), NEW p \in Paths, NEW q \in Paths, p # Root, q # Root, p # q,
         NEW flag \in {"none", "noreplace", "exchange"}, RenameSucceeds(p, q, flag)
  PROVE  /\ Apart(p, q)
         /\ device[p] # "none" /\ device[Parent(q)] = "dir"
         /\ flag # "exchange" => \A r \in Paths : IsUnder(r, q) /\ r # q => device[r] = "none"
<1>1. device[p] # "none" /\ device[Parent(q)] = "dir" /\ ~IsUnder(q, p)
  BY DEF RenameSucceeds, Exists
<1>2. flag = "exchange" => ~IsUnder(p, q)
  BY DEF RenameSucceeds
<1>3. flag # "exchange" => device[q] # "dir" \/ \A r \in Children[q] : device[r] = "none"
  BY DEF RenameSucceeds, Exists
<1>4. ASSUME flag # "exchange", NEW r \in Paths, IsUnder(r, q), r # q, device[r] # "none"
      PROVE  FALSE
  <2>1. device[q] = "dir" /\ \E c \in Children[q] : device[c] # "none"
    BY <1>4, FilesAbove
  <2> QED
    BY <1>3, <1>4, <2>1
<1>5. ~IsUnder(p, q)
  BY <1>1, <1>2, <1>4
<1> QED
  BY <1>1, <1>4, <1>5 DEF Apart

\* The file that comes from p to r, which is q or below it.
Sent(f, r, q, p) == IF Rebase(r, q, p) \in Paths THEN f[Rebase(r, q, p)] ELSE "none"

FilesRenamed(f, g, p, q, swap) ==
  /\ g \in [Paths -> Kinds]
  /\ \A r \in Paths : ~IsUnder(r, p) /\ ~IsUnder(r, q) => g[r] = f[r]
  /\ \A r \in Paths : IsUnder(r, q) => g[r] = Sent(f, r, q, p)
  /\ swap => \A r \in Paths : IsUnder(r, p) => g[r] = Sent(f, r, p, q)
  /\ ~swap => \A r \in Paths : IsUnder(r, p) => g[r] = "none"

LEMMA DeviceRenamedIs ==
  ASSUME FilesShape(device), NEW p \in Paths, NEW q \in Paths, Apart(p, q), NEW swap \in BOOLEAN,
         NEW g, g = DeviceRenamed(p, q, swap)
  PROVE  FilesRenamed(device, g, p, q, swap)
<1>1. device \in [Paths -> Kinds] /\ "none" \in Kinds
  BY DEF FilesShape, Kinds
<1>2. \A r \in Paths : g[r] = IF (IsUnder(r, p) /\ ~swap) \/ Origin(r, p, q, swap) \notin Paths THEN "none"
                              ELSE device[Origin(r, p, q, swap)]
  BY DEF DeviceRenamed
<1>3. DOMAIN g = Paths /\ g = [r \in Paths |-> g[r]]
  BY DEF DeviceRenamed
<1>4. \A r \in Paths : g[r] \in Kinds
  BY <1>1, <1>2
<1>5. \A r \in Paths : ~IsUnder(r, p) /\ ~IsUnder(r, q) => g[r] = device[r]
  BY <1>2 DEF Origin
<1>6. \A r \in Paths : IsUnder(r, q) => g[r] = Sent(device, r, q, p)
  BY <1>2, ApartDisjoint DEF Origin, Sent
<1>7. swap => \A r \in Paths : IsUnder(r, p) => g[r] = Sent(device, r, p, q)
  BY <1>2, ApartDisjoint DEF Origin, Sent
<1>8. ~swap => \A r \in Paths : IsUnder(r, p) => g[r] = "none"
  BY <1>2
<1> QED
  BY <1>3, <1>4, <1>5, <1>6, <1>7, <1>8 DEF FilesRenamed

LEMMA SentParent ==
  ASSUME NEW f, FilesShape(f), NEW p \in Paths, NEW q \in Paths, NEW r \in Paths, IsUnder(r, q), r # q,
         Sent(f, r, q, p) # "none"
  PROVE  /\ Rebase(r, q, p) \in Paths /\ Rebase(r, q, p) # Root
         /\ Parent(Rebase(r, q, p)) = Rebase(Parent(r), q, p)
         /\ f[Rebase(r, q, p)] # "none" /\ Sent(f, Parent(r), q, p) = "dir"
<1>1. Rebase(r, q, p) \in Paths /\ f[Rebase(r, q, p)] # "none"
  BY DEF Sent
<1>2. Rebase(r, q, p) # Root /\ Parent(Rebase(r, q, p)) = Rebase(Parent(r), q, p)
  BY <1>1, RebaseParent
<1>3. Parent(Rebase(r, q, p)) \in Paths /\ f[Parent(Rebase(r, q, p))] = "dir"
  BY <1>1, <1>2, ParentIs DEF FilesShape
<1> QED
  BY <1>1, <1>2, <1>3 DEF Sent

LEMMA RenamedFiles ==
  ASSUME NEW f, FilesShape(f), NEW p \in Paths, NEW q \in Paths, Apart(p, q), NEW swap \in BOOLEAN,
         f[p] # "none", f[Parent(q)] = "dir", NEW g, FilesRenamed(f, g, p, q, swap)
  PROVE  FilesShape(g)
<1>1. /\ g \in [Paths -> Kinds]
      /\ \A r \in Paths : ~IsUnder(r, p) /\ ~IsUnder(r, q) => g[r] = f[r]
  BY DEF FilesRenamed
<1>2. \A r \in Paths : IsUnder(r, q) => g[r] = Sent(f, r, q, p)
  BY DEF FilesRenamed
<1>3. \A r \in Paths : IsUnder(r, p) => g[r] = "none" \/ (swap /\ g[r] = Sent(f, r, p, q))
  BY DEF FilesRenamed
<1>4. g[Root] = "dir"
  BY <1>1, RootUnder, RootIsPath DEF FilesShape, Apart
<1>5. f[Parent(p)] = "dir"
  BY DEF FilesShape, Apart
<1>6. /\ Parent(q) \in Paths /\ ~IsUnder(Parent(q), p) /\ ~IsUnder(Parent(q), q)
      /\ Parent(p) \in Paths /\ ~IsUnder(Parent(p), p) /\ ~IsUnder(Parent(p), q)
  BY ApartParent DEF Apart
<1>7. g[Parent(p)] = "dir" /\ g[Parent(q)] = "dir"
  BY <1>1, <1>5, <1>6
<1>8. ASSUME NEW r \in Paths \ {Root}, g[r] # "none"
      PROVE  g[Parent(r)] = "dir"
  <2>1. Parent(r) \in Paths
    BY ParentIs
  <2>2. CASE ~IsUnder(r, p) /\ ~IsUnder(r, q)
    <3>1. f[Parent(r)] = "dir"
      BY <1>1, <1>8, <2>2 DEF FilesShape
    <3>2. ~IsUnder(Parent(r), p) /\ ~IsUnder(Parent(r), q)
      BY <2>2, UnderOfParent
    <3> QED
      BY <1>1, <2>1, <3>1, <3>2
  <2>3. CASE IsUnder(r, q) /\ r # q
    <3>1. IsUnder(Parent(r), q)
      BY <2>3, UnderStrictly
    <3>2. Sent(f, r, q, p) # "none"
      BY <1>2, <1>8, <2>3
    <3>3. Sent(f, Parent(r), q, p) = "dir"
      BY <2>3, <3>2, SentParent
    <3> QED
      BY <1>2, <2>1, <3>1, <3>3
  <2>4. CASE IsUnder(r, p) /\ r # p
    <3>1. IsUnder(Parent(r), p)
      BY <2>4, UnderStrictly
    <3>2. Sent(f, r, p, q) # "none" /\ swap
      BY <1>3, <1>8, <2>4
    <3>3. Sent(f, Parent(r), p, q) = "dir"
      BY <2>4, <3>2, SentParent
    <3>4. g[Parent(r)] = Sent(f, Parent(r), p, q)
      BY <2>1, <3>1, <3>2 DEF FilesRenamed
    <3> QED
      BY <3>3, <3>4
  <2> QED
    BY <1>7, <2>2, <2>3, <2>4
<1> QED
  BY <1>1, <1>4, <1>8 DEF FilesShape

LEMMA CacheRenameIs ==
  ASSUME NEW n \in Node, NEW to \in Paths, NEW m, m = CacheRename(n, to)
  PROVE  /\ m \in Node /\ m.kind = n.kind /\ m.dirty = n.dirty /\ m.behind = n.behind
         /\ m.synced = n.synced /\ m.entry \in {None, to} /\ (n.entry = None => m.entry = None)
<1>1. CASE n.entry = None
  BY <1>1 DEF CacheRename
<1>2. CASE n.entry # None
  BY <1>2 DEF CacheRename, Node
<1> QED
  BY <1>1, <1>2

\* The nodes of u at q and below it are those of t at p and below it.
Carried(u, t, q, p) ==
  \A x \in Paths : IsUnder(x, q) =>
     /\ x \in DOMAIN u <=> Rebase(x, q, p) \in DOMAIN t
     /\ x \in DOMAIN u => u[x] = IF x = q THEN CacheRename(t[Rebase(x, q, p)], q) ELSE t[Rebase(x, q, p)]

Elsewise(u, t, p, q) ==
  \A x \in Paths : ~IsUnder(x, p) /\ ~IsUnder(x, q) =>
     (x \in DOMAIN u <=> x \in DOMAIN t) /\ (x \in DOMAIN u => u[x] = t[x])

Moved(u, t, p, q, swap) ==
  /\ DOMAIN u \subseteq Paths /\ Elsewise(u, t, p, q) /\ Carried(u, t, q, p)
  /\ swap => Carried(u, t, p, q)
  /\ ~swap => \A x \in Paths : IsUnder(x, p) => x \notin DOMAIN u

\* There is a path for all that is at p or below it when it moves to q.
Fits(t, p, q) == \A r \in DOMAIN t : IsUnder(r, p) => Rebase(r, p, q) \in Paths

LEMMA RebasedAre ==
  ASSUME NEW t, DOMAIN t \subseteq Paths, NEW p \in Paths, NEW q \in Paths, Fits(t, p, q), NEW x
  PROVE  x \in {Rebase(r, p, q) : r \in Subtree(t, p)} <=>
           x \in Paths /\ IsUnder(x, q) /\ Rebase(x, q, p) \in DOMAIN t
<1>1. ASSUME NEW r \in Subtree(t, p), x = Rebase(r, p, q)
      PROVE  x \in Paths /\ IsUnder(x, q) /\ Rebase(x, q, p) \in DOMAIN t
  <2>1. r \in DOMAIN t /\ r \in Paths /\ IsUnder(r, p)
    BY SubtreeIs
  <2>2. x \in Paths
    BY <1>1, <2>1 DEF Fits
  <2> QED
    BY <1>1, <2>1, <2>2, RebaseUnder, RebaseBack
<1>2. ASSUME x \in Paths, IsUnder(x, q), Rebase(x, q, p) \in DOMAIN t
      PROVE  \E r \in Subtree(t, p) : x = Rebase(r, p, q)
  <2>1. Rebase(x, q, p) \in Paths
    BY <1>2
  <2>2. IsUnder(Rebase(x, q, p), p) /\ Rebase(Rebase(x, q, p), p, q) = x
    BY <1>2, <2>1, RebaseUnder, RebaseBack
  <2> QED
    BY <1>2, <2>2, SubtreeIs
<1> QED
  BY <1>1, <1>2

LEMMA TreeRenamedIs ==
  ASSUME NEW t, Shape(t), NEW p \in Paths, NEW q \in Paths, Apart(p, q), NEW swap \in BOOLEAN,
         Fits(t, p, q), swap => Fits(t, q, p), NEW u, u = TreeRenamed(t, p, q, swap)
  PROVE  Moved(u, t, p, q, swap)
<1> DEFINE stays == {r \in DOMAIN t : ~IsUnder(r, p) /\ ~IsUnder(r, q)}
           moves == {Rebase(r, p, q) : r \in Subtree(t, p)}
           back == {Rebase(r, q, p) : r \in Subtree(t, q)}
           returns == IF swap THEN back ELSE {}
<1>1. DOMAIN t \subseteq Paths
  BY DEF Shape
<1>2. DOMAIN u = stays \cup moves \cup returns
  BY DEF TreeRenamed
<1>3. \A r \in DOMAIN u : u[r] = IF r \in {p, q} THEN CacheRename(t[Origin(r, p, q, swap)], r)
                                 ELSE t[Origin(r, p, q, swap)]
  BY DEF TreeRenamed
<1>4. \A x : x \in moves <=> x \in Paths /\ IsUnder(x, q) /\ Rebase(x, q, p) \in DOMAIN t
  BY <1>1, RebasedAre
<1>5. swap => \A x : x \in back <=> x \in Paths /\ IsUnder(x, p) /\ Rebase(x, p, q) \in DOMAIN t
  BY <1>1, RebasedAre
<1>6. \A x : x \in stays <=> x \in DOMAIN t /\ ~IsUnder(x, p) /\ ~IsUnder(x, q)
  OBVIOUS
<1>7. \A x : x \in returns <=> swap /\ x \in Paths /\ IsUnder(x, p) /\ Rebase(x, p, q) \in DOMAIN t
  BY <1>5
<1> HIDE DEF stays, moves, returns
<1>8. DOMAIN u \subseteq Paths
  BY <1>1, <1>2, <1>4, <1>6, <1>7
<1>9. ASSUME NEW x \in Paths, ~IsUnder(x, p), ~IsUnder(x, q)
      PROVE  (x \in DOMAIN u <=> x \in DOMAIN t) /\ (x \in DOMAIN u => u[x] = t[x])
  <2>1. x \in DOMAIN u <=> x \in DOMAIN t
    BY <1>2, <1>4, <1>6, <1>7, <1>9
  <2>2. x # p /\ x # q /\ Origin(x, p, q, swap) = x
    BY <1>9, UnderSelf DEF Origin
  <2> QED
    BY <1>3, <2>1, <2>2
<1>10. ASSUME NEW x \in Paths, IsUnder(x, q)
       PROVE  /\ x \in DOMAIN u <=> Rebase(x, q, p) \in DOMAIN t
              /\ x \in DOMAIN u => u[x] = IF x = q THEN CacheRename(t[Rebase(x, q, p)], q) ELSE t[Rebase(x, q, p)]
  <2>1. ~IsUnder(x, p) /\ x # p
    BY <1>10, ApartDisjoint DEF Apart
  <2>2. x \in DOMAIN u <=> Rebase(x, q, p) \in DOMAIN t
    BY <1>2, <1>4, <1>6, <1>7, <1>10, <2>1
  <2>3. Origin(x, p, q, swap) = Rebase(x, q, p)
    BY <1>10 DEF Origin
  <2> QED
    BY <1>3, <2>1, <2>2, <2>3
<1>11. ASSUME NEW x \in Paths, IsUnder(x, p), swap
       PROVE  /\ x \in DOMAIN u <=> Rebase(x, p, q) \in DOMAIN t
              /\ x \in DOMAIN u => u[x] = IF x = p THEN CacheRename(t[Rebase(x, p, q)], p) ELSE t[Rebase(x, p, q)]
  <2>1. ~IsUnder(x, q) /\ x # q
    BY <1>11, ApartDisjoint, UnderSelf DEF Apart
  <2>2. x \in DOMAIN u <=> Rebase(x, p, q) \in DOMAIN t
    BY <1>2, <1>4, <1>6, <1>7, <1>11, <2>1
  <2>3. Origin(x, p, q, swap) = Rebase(x, p, q)
    BY <1>11, <2>1 DEF Origin
  <2> QED
    BY <1>3, <2>1, <2>2, <2>3
<1>12. ASSUME NEW x \in Paths, IsUnder(x, p), ~swap
       PROVE  x \notin DOMAIN u
  <2>1. ~IsUnder(x, q)
    BY <1>12, ApartDisjoint
  <2> QED
    BY <1>2, <1>4, <1>6, <1>7, <1>12, <2>1
<1> QED
  BY <1>8, <1>9, <1>10, <1>11, <1>12 DEF Moved, Elsewise, Carried

LEMMA CarriedNode ==
  ASSUME NEW t, Shape(t), NEW p \in Paths, NEW q \in Paths, NEW u, Carried(u, t, q, p),
         NEW x \in DOMAIN u, x \in Paths, IsUnder(x, q)
  PROVE  /\ Rebase(x, q, p) \in DOMAIN t /\ u[x] \in Node
         /\ u[x].kind = t[Rebase(x, q, p)].kind /\ u[x].dirty = t[Rebase(x, q, p)].dirty
         /\ u[x].behind = t[Rebase(x, q, p)].behind /\ u[x].synced = t[Rebase(x, q, p)].synced
         /\ t[Rebase(x, q, p)].entry = None => u[x].entry = None
         /\ x = q => u[x].entry \in {None, q}
<1>1. /\ Rebase(x, q, p) \in DOMAIN t
      /\ u[x] = IF x = q THEN CacheRename(t[Rebase(x, q, p)], q) ELSE t[Rebase(x, q, p)]
  BY DEF Carried
<1>2. t[Rebase(x, q, p)] \in Node
  BY <1>1 DEF Shape
<1>3. CASE x = q
  <2>1. u[x] = CacheRename(t[Rebase(x, q, p)], q)
    BY <1>1, <1>3
  <2>2. Rebase(x, q, p) \in DOMAIN t
    BY <1>1
  <2> QED
    BY <1>2, <2>1, <2>2, CacheRenameIs
<1>4. CASE x # q
  BY <1>1, <1>2, <1>4
<1> QED
  BY <1>3, <1>4

LEMMA CarriedShape ==
  ASSUME NEW t, Shape(t), NEW p \in Paths, NEW q \in Paths, NEW u, Carried(u, t, q, p),
         NEW x \in DOMAIN u, x \in Paths, IsUnder(x, q)
  PROVE  /\ u[x] \in Node /\ (u[x].kind # "reg" => ~u[x].dirty /\ u[x].entry = None)
         /\ x # q => Parent(x) \in DOMAIN u /\ u[Parent(x)].kind = "dir"
<1> DEFINE o == Rebase(x, q, p)
<1>1. /\ o \in DOMAIN t /\ u[x] \in Node /\ u[x].kind = t[o].kind /\ u[x].dirty = t[o].dirty
      /\ t[o].entry = None => u[x].entry = None
  BY CarriedNode
<1>2. t[o].kind # "reg" => ~t[o].dirty /\ t[o].entry = None
  BY <1>1 DEF Shape
<1>3. ASSUME x # q
      PROVE  Parent(x) \in DOMAIN u /\ u[Parent(x)].kind = "dir"
  <2>1. o \in Paths
    BY <1>1 DEF Shape
  <2>2. x # Root /\ IsUnder(Parent(x), q) /\ Parent(x) \in Paths
    BY <1>3, UnderStrictly, ParentIs
  <2>3. o # Root /\ Parent(o) = Rebase(Parent(x), q, p)
    BY <1>3, <2>1, RebaseParent
  <2>4. Parent(o) \in DOMAIN t /\ t[Parent(o)].kind = "dir"
    BY <1>1, <2>3 DEF Shape
  <2> HIDE DEF o
  <2>5. Parent(x) \in DOMAIN u
    BY <2>2, <2>3, <2>4 DEF Carried
  <2>6. u[Parent(x)].kind = t[Rebase(Parent(x), q, p)].kind
    BY <2>2, <2>5, CarriedNode
  <2> QED
    BY <2>3, <2>4, <2>5, <2>6
<1> QED
  BY <1>1, <1>2, <1>3

LEMMA MovedShape ==
  ASSUME NEW t, Shape(t), NEW p \in Paths, NEW q \in Paths, Apart(p, q), NEW swap \in BOOLEAN,
         p \in DOMAIN t, Parent(q) \in DOMAIN t, t[Parent(q)].kind = "dir",
         NEW u, Moved(u, t, p, q, swap)
  PROVE  Shape(u)
<1>1. /\ DOMAIN u \subseteq Paths /\ Elsewise(u, t, p, q) /\ Carried(u, t, q, p)
      /\ swap => Carried(u, t, p, q)
      /\ ~swap => \A x \in Paths : IsUnder(x, p) => x \notin DOMAIN u
  BY DEF Moved
<1>2. Root \in DOMAIN t /\ DOMAIN t \subseteq Paths
  BY DEF Shape
<1>3. Root \in DOMAIN u
  BY <1>1, <1>2, RootUnder DEF Elsewise, Apart
<1>4. /\ Parent(q) \in Paths /\ ~IsUnder(Parent(q), p) /\ ~IsUnder(Parent(q), q)
      /\ Parent(p) \in Paths /\ ~IsUnder(Parent(p), p) /\ ~IsUnder(Parent(p), q)
  BY ApartParent DEF Apart
<1>5. Parent(p) \in DOMAIN t /\ t[Parent(p)].kind = "dir"
  BY DEF Shape, Apart
<1>6. /\ Parent(p) \in DOMAIN u /\ u[Parent(p)].kind = "dir"
      /\ Parent(q) \in DOMAIN u /\ u[Parent(q)].kind = "dir"
  BY <1>1, <1>4, <1>5 DEF Elsewise
<1>7. ASSUME NEW x \in DOMAIN u
      PROVE  /\ u[x] \in Node /\ (u[x].kind # "reg" => ~u[x].dirty /\ u[x].entry = None)
             /\ x # Root => Parent(x) \in DOMAIN u /\ u[Parent(x)].kind = "dir"
  <2>0. x \in Paths
    BY <1>1
  <2>1. CASE ~IsUnder(x, p) /\ ~IsUnder(x, q)
    <3>1. x \in DOMAIN t /\ u[x] = t[x]
      BY <1>1, <2>0, <2>1 DEF Elsewise
    <3>2. t[x] \in Node /\ (t[x].kind # "reg" => ~t[x].dirty /\ t[x].entry = None)
      BY <3>1 DEF Shape
    <3>3. ASSUME x # Root
          PROVE  Parent(x) \in DOMAIN u /\ u[Parent(x)].kind = "dir"
      <4>1. Parent(x) \in DOMAIN t /\ t[Parent(x)].kind = "dir" /\ Parent(x) \in Paths
        BY <1>2, <3>1, <3>3 DEF Shape
      <4>2. ~IsUnder(Parent(x), p) /\ ~IsUnder(Parent(x), q)
        BY <2>0, <2>1, <3>3, UnderOfParent
      <4> QED
        BY <1>1, <4>1, <4>2 DEF Elsewise
    <3> QED
      BY <3>1, <3>2, <3>3
  <2>2. CASE IsUnder(x, q)
    BY <1>1, <1>6, <2>0, <2>2, CarriedShape
  <2>3. CASE IsUnder(x, p)
    <3>1. Carried(u, t, p, q)
      BY <1>1, <2>0, <2>3
    <3> QED
      BY <1>6, <2>0, <2>3, <3>1, CarriedShape
  <2> QED
    BY <2>1, <2>2, <2>3
<1> QED
  BY <1>1, <1>3, <1>7 DEF Shape

LEMMA MovedHandles ==
  ASSUME NEW t, Shape(t), NEW p \in Paths, NEW q \in Paths, Apart(p, q), NEW swap \in BOOLEAN,
         Fits(t, p, q), swap => Fits(t, q, p), NEW u, Moved(u, t, p, q, swap),
         NEW h, HandlesOf(t, h), NEW g, g = HandlesRenamed(h, p, q, swap)
  PROVE  HandlesOf(u, g)
<1>1. /\ DOMAIN u \subseteq Paths /\ Elsewise(u, t, p, q) /\ Carried(u, t, q, p)
      /\ swap => Carried(u, t, p, q)
  BY DEF Moved
<1>2. Null \notin DOMAIN u /\ Freed \notin DOMAIN u /\ DOMAIN t \subseteq Paths
      /\ Null \notin DOMAIN t /\ Freed \notin DOMAIN t
  BY <1>1, NullAssumption DEF Shape
<1>3. ASSUME NEW a \in Paths, NEW b \in Paths, Fits(t, a, b), Carried(u, t, b, a),
             NEW r \in DOMAIN t, IsUnder(r, a), t[r].kind = "reg"
      PROVE  Rebase(r, a, b) \in DOMAIN u /\ u[Rebase(r, a, b)].kind = "reg"
  <2> DEFINE x == Rebase(r, a, b)
  <2>1. r \in Paths /\ x \in Paths
    BY <1>2, <1>3 DEF Fits
  <2>2. IsUnder(x, b) /\ Rebase(x, b, a) = r
    BY <1>3, <2>1, RebaseUnder, RebaseBack
  <2> HIDE DEF x
  <2>3. x \in DOMAIN u
    BY <1>3, <2>1, <2>2 DEF Carried
  <2>4. u[x].kind = t[Rebase(x, b, a)].kind
    BY <1>3, <2>1, <2>2, <2>3, CarriedNode
  <2>5. x \in DOMAIN u /\ u[x].kind = "reg"
    BY <1>3, <2>2, <2>3, <2>4
  <2> QED
    BY <2>5 DEF x
<1>4. ASSUME NEW fd \in Fds
      PROVE  g[fd] \in DOMAIN u \cup {Null, Freed} /\ (g[fd] \in DOMAIN u => u[g[fd]].kind = "reg")
  <2>1. h[fd] \in DOMAIN t \cup {Null, Freed} /\ (h[fd] \in DOMAIN t => t[h[fd]].kind = "reg")
    BY DEF HandlesOf
  <2>2. g[fd] = IF h[fd] \in {Null, Freed} THEN h[fd]
                ELSE IF IsUnder(h[fd], p) THEN Rebase(h[fd], p, q)
                ELSE IF ~IsUnder(h[fd], q) THEN h[fd]
                ELSE IF swap THEN Rebase(h[fd], q, p)
                ELSE IF h[fd] = q THEN Null ELSE Freed
    BY DEF HandlesRenamed
  <2>3. CASE h[fd] \in {Null, Freed}
    BY <1>2, <2>2, <2>3
  <2>4. CASE h[fd] \in DOMAIN t
    <3>1. t[h[fd]].kind = "reg" /\ h[fd] \in Paths /\ h[fd] \notin {Null, Freed}
      BY <1>2, <2>1, <2>4
    <3>2. CASE IsUnder(h[fd], p)
      <4>1. g[fd] = Rebase(h[fd], p, q)
        BY <2>2, <3>1, <3>2
      <4>2. Rebase(h[fd], p, q) \in DOMAIN u /\ u[Rebase(h[fd], p, q)].kind = "reg"
        BY <1>1, <1>3, <2>4, <3>1, <3>2
      <4> QED
        BY <4>1, <4>2
    <3>3. CASE ~IsUnder(h[fd], p) /\ ~IsUnder(h[fd], q)
      <4>1. g[fd] = h[fd]
        BY <2>2, <3>1, <3>3
      <4>2. h[fd] \in DOMAIN u /\ u[h[fd]] = t[h[fd]]
        BY <1>1, <2>4, <3>1, <3>3 DEF Elsewise
      <4> QED
        BY <3>1, <4>1, <4>2
    <3>4. CASE ~IsUnder(h[fd], p) /\ IsUnder(h[fd], q) /\ swap
      <4>1. g[fd] = Rebase(h[fd], q, p)
        BY <2>2, <3>1, <3>4
      <4>2. Rebase(h[fd], q, p) \in DOMAIN u /\ u[Rebase(h[fd], q, p)].kind = "reg"
        BY <1>1, <1>3, <2>4, <3>1, <3>4
      <4> QED
        BY <4>1, <4>2
    <3>5. CASE ~IsUnder(h[fd], p) /\ IsUnder(h[fd], q) /\ ~swap
      BY <1>2, <2>2, <3>1, <3>5
    <3> QED
      BY <3>2, <3>3, <3>4, <3>5
  <2> QED
    BY <2>1, <2>3, <2>4
<1>5. g = [fd \in Fds |-> g[fd]]
  BY DEF HandlesRenamed
<1> QED
  BY <1>4, <1>5 DEF HandlesOf

\* Nothing on the device is below a file that is replaced, so that no handle is.
LEMMA RenameFreesNone ==
  ASSUME NEW t, Shape(t), NEW p \in Paths, NEW q \in Paths, NEW swap \in BOOLEAN, NEW f, NEW sure, Truthful(t, f, sure),
         ~swap => \A r \in Paths : IsUnder(r, q) /\ r # q => f[r] = "none",
         Fits(t, p, q), swap => Fits(t, q, p),
         NEW h, HandlesOf(t, h), NoneFreed(h), NEW g, g = HandlesRenamed(h, p, q, swap)
  PROVE  NoneFreed(g)
<1> SUFFICES ASSUME NEW fd \in Fds PROVE g[fd] # Freed
  BY DEF NoneFreed
<1>1. h[fd] # Freed /\ h[fd] \in DOMAIN t \cup {Null} /\ DOMAIN t \subseteq Paths
  BY DEF NoneFreed, HandlesOf, Shape
<1>2. Freed \notin Paths /\ Null # Freed
  BY NullAssumption
<1>3. g[fd] = IF h[fd] \in {Null, Freed} THEN h[fd]
              ELSE IF IsUnder(h[fd], p) THEN Rebase(h[fd], p, q)
              ELSE IF ~IsUnder(h[fd], q) THEN h[fd]
              ELSE IF swap THEN Rebase(h[fd], q, p)
              ELSE IF h[fd] = q THEN Null ELSE Freed
  BY DEF HandlesRenamed
<1>4. CASE h[fd] = Null
  BY <1>1, <1>3, <1>4
<1>5. CASE h[fd] \in DOMAIN t
  <2>1. h[fd] \in Paths /\ f[h[fd]] = "reg"
    BY <1>5, HandleOnDevice
  <2>2. IsUnder(h[fd], p) => Rebase(h[fd], p, q) \in Paths
    BY <1>5 DEF Fits
  <2>3. swap /\ IsUnder(h[fd], q) => Rebase(h[fd], q, p) \in Paths
    BY <1>5 DEF Fits
  <2>4. ~swap /\ IsUnder(h[fd], q) => h[fd] = q
    BY <2>1
  <2> QED
    BY <1>1, <1>2, <1>3, <2>1, <2>2, <2>3, <2>4
<1> QED
  BY <1>1, <1>4, <1>5

LEMMA CarriedTrue ==
  ASSUME NEW t, Shape(t), NEW f, NEW sure, FilesShape(f), Truthful(t, f, sure), NEW p \in Paths, NEW q \in Paths,
         NEW u, Carried(u, t, q, p), NEW g, \A r \in Paths : IsUnder(r, q) => g[r] = Sent(f, r, q, p),
         sure = {} \/ sure = Paths,
         sure # {} => \A r \in DOMAIN t : IsUnder(r, p) /\ r # p => t[r].entry = None,
         NEW x \in DOMAIN u, x \in Paths, IsUnder(x, q)
  PROVE  NodeTrue(u[x], x, g, DOMAIN u, sure)
<1> DEFINE o == Rebase(x, q, p)
<1>1. /\ o \in DOMAIN t /\ u[x].kind = t[o].kind /\ u[x].dirty = t[o].dirty
      /\ u[x].behind = t[o].behind /\ u[x].synced = t[o].synced
      /\ t[o].entry = None => u[x].entry = None
      /\ x = q => u[x].entry \in {None, q}
  BY CarriedNode
<1>2. o \in Paths /\ NodeTrue(t[o], o, f, DOMAIN t, sure)
  BY <1>1 DEF Shape, Truthful
<1>3. g[x] = f[o]
  BY <1>2 DEF Sent
<1>4. sure # {} => u[x].entry \in {None, x}
  <2> SUFFICES ASSUME sure # {} PROVE u[x].entry \in {None, x}
    OBVIOUS
  <2>1. CASE x = q
    BY <1>1, <2>1
  <2>2. CASE x # q
    <3>1. IsUnder(o, p)
      BY <1>2, RebaseUnder
    <3>2. o # p
      BY <1>2, <2>2, RebaseParent
    <3> QED
      BY <1>1, <3>1, <3>2
  <2> QED
    BY <2>1, <2>2
<1> HIDE DEF o
<1>5. ASSUME NEW c \in Children[x], g[c] # "none", u[x].synced
      PROVE  c \in DOMAIN u
  <2>1. c \in Paths /\ c # Root /\ Parent(c) = x
    BY ChildrenAre
  <2>2. IsUnder(c, q) /\ c # q
    BY <2>1, UnderOfParent
  <2>3. Sent(f, c, q, p) # "none"
    BY <1>5, <2>1, <2>2
  <2>4. /\ Rebase(c, q, p) \in Paths /\ Rebase(c, q, p) # Root
        /\ Parent(Rebase(c, q, p)) = Rebase(Parent(c), q, p)
        /\ f[Rebase(c, q, p)] # "none"
    BY <2>1, <2>2, <2>3, SentParent
  <2>5. Rebase(c, q, p) \in Children[o]
    BY <1>2, <2>1, <2>4, ChildrenAre DEF o
  <2>6. Rebase(c, q, p) \in DOMAIN t
    BY <1>1, <1>2, <1>5, <2>4, <2>5 DEF NodeTrue
  <2> QED
    BY <2>1, <2>2, <2>6 DEF Carried
<1> QED
  BY <1>1, <1>2, <1>3, <1>4, <1>5 DEF NodeTrue

LEMMA MovedTruthful ==
  ASSUME NEW t, Shape(t), NEW f, NEW sure, FilesShape(f), Truthful(t, f, sure),
         NEW p \in Paths, NEW q \in Paths, Apart(p, q), NEW swap \in BOOLEAN,
         p \in DOMAIN t, swap => q \in DOMAIN t,
         NEW u, Moved(u, t, p, q, swap), NEW g, FilesRenamed(f, g, p, q, swap),
         sure = {} \/ sure = Paths,
         sure # {} => \A r \in DOMAIN t : IsUnder(r, p) /\ r # p => t[r].entry = None,
         sure # {} /\ swap => \A r \in DOMAIN t : IsUnder(r, q) /\ r # q => t[r].entry = None
  PROVE  Truthful(u, g, sure)
<1>1. DOMAIN u \subseteq Paths /\ Elsewise(u, t, p, q) /\ Carried(u, t, q, p)
  BY DEF Moved
<1>2. swap => Carried(u, t, p, q)
  BY DEF Moved
<1>3. ~swap => \A x \in Paths : IsUnder(x, p) => x \notin DOMAIN u
  BY DEF Moved
<1>4. \A r \in Paths : ~IsUnder(r, p) /\ ~IsUnder(r, q) => g[r] = f[r]
  BY DEF FilesRenamed
<1>5. \A r \in Paths : IsUnder(r, q) => g[r] = Sent(f, r, q, p)
  BY DEF FilesRenamed
<1>6. swap => \A r \in Paths : IsUnder(r, p) => g[r] = Sent(f, r, p, q)
  BY DEF FilesRenamed
<1>7. q \in DOMAIN u
  BY <1>1, RebaseSelf, UnderSelf DEF Carried
<1>8. g[p] # "none" => p \in DOMAIN u
  <2>1. g[p] # "none" => swap
    BY UnderSelf DEF FilesRenamed
  <2>2. swap => p \in DOMAIN u
    BY <1>2, RebaseSelf, UnderSelf DEF Carried
  <2> QED
    BY <2>1, <2>2
<1>9. ASSUME NEW x \in DOMAIN u
      PROVE  NodeTrue(u[x], x, g, DOMAIN u, sure)
  <2>0. x \in Paths
    BY <1>1
  <2>1. CASE ~IsUnder(x, p) /\ ~IsUnder(x, q)
    <3>1. x \in DOMAIN t /\ u[x] = t[x] /\ g[x] = f[x]
      BY <1>1, <1>4, <2>0, <2>1 DEF Elsewise
    <3>2. NodeTrue(t[x], x, f, DOMAIN t, sure)
      BY <3>1 DEF Truthful
    <3>3. ASSUME NEW c \in Children[x], g[c] # "none", u[x].synced
          PROVE  c \in DOMAIN u
      <4>1. c \in Paths /\ c # Root /\ Parent(c) = x
        BY <2>0, ChildrenAre
      <4>2. CASE c = p \/ c = q
        BY <1>7, <1>8, <3>3, <4>2
      <4>3. CASE c # p /\ c # q
        <5>1. ~IsUnder(c, p) /\ ~IsUnder(c, q)
          BY <2>1, <4>1, <4>3, UnderStrictly
        <5>2. f[c] # "none"
          BY <1>4, <3>3, <4>1, <5>1
        <5>3. c \in DOMAIN t
          BY <3>1, <3>2, <3>3, <5>2 DEF NodeTrue
        <5> QED
          BY <1>1, <4>1, <5>1, <5>3 DEF Elsewise
      <4> QED
        BY <4>2, <4>3
    <3> QED
      BY <3>1, <3>2, <3>3 DEF NodeTrue
  <2>2. CASE IsUnder(x, q)
    BY <1>1, <1>5, <2>0, <2>2, CarriedTrue
  <2>3. CASE IsUnder(x, p)
    <3>1. swap
      BY <1>3, <2>0, <2>3
    <3>2. Carried(u, t, p, q) /\ \A r \in Paths : IsUnder(r, p) => g[r] = Sent(f, r, p, q)
      BY <1>2, <1>6, <3>1
    <3> QED
      BY <2>0, <2>3, <3>1, <3>2, CarriedTrue
  <2> QED
    BY <2>1, <2>2, <2>3
<1> QED
  BY <1>9 DEF Truthful

\* What the lookups of a rename leave: p and the directory of q are known.
FoundBoth(s, p, q) ==
  /\ Shape(s.tree) /\ HandlesOf(s.tree, s.handles)
  /\ Undisturbed => Truthful(s.tree, device, Sure) /\ NoneFreed(s.handles)
  /\ p \in DOMAIN s.tree /\ Parent(q) \in DOMAIN s.tree /\ s.tree[Parent(q)].kind = "dir"

LEMMA RenameLookup ==
  ASSUME TreeInv, NEW p \in Paths, NEW q \in Paths, q # Root,
         NEW s1, s1 = TraverseOrBuild(p), s1.ok,
         NEW s2, s2 = Reach(s1, Parent(q), "answered"), IsDir(s2, Parent(q)),
         NEW s, s = s2 \/ s = Reach(s2, q, "answered")
  PROVE  FoundBoth(s, p, q)
<1> DEFINE d == Parent(q)
<1>1. d \in Paths /\ device \in [Paths -> Kinds] /\ IsUnder(d, d) /\ IsUnder(p, p)
  BY ParentIs, NowIs, UnderSelf
<1> HIDE DEF d
<1>2. s2 = Reach(s1, d, "answered") /\ s2.ok /\ s2.tree[d].kind = "dir"
  BY DEF d, IsDir
<1>3. Good(s1) /\ (Undisturbed => Honest(s1)) /\ Settled(s1.tree, p)
  BY LookedUp DEF Looked, Honest
<1>4. Onward(s1, s2, "answered") /\ Settled(s2.tree, d)
  BY <1>1, <1>2, <1>3, ReachOnward
<1>5. Good(s2) /\ (Undisturbed => Honest(s2)) /\ Settled(s2.tree, p)
  BY <1>3, <1>4 DEF Onward
<1>6. Onward(s2, s, "answered")
  BY <1>1, <1>5, ReachOnward, OnwardSelf
<1>7. Good(s) /\ (Undisturbed => Honest(s)) /\ Settled(s.tree, p) /\ Settled(s.tree, d)
  BY <1>1, <1>4, <1>5, <1>6 DEF Onward
<1>8. s.tree[d] = s2.tree[d]
  BY <1>1, <1>4, <1>6 DEF Onward
<1>9. p \in DOMAIN s.tree /\ d \in DOMAIN s.tree /\ s.tree[d].kind = "dir"
  BY <1>1, <1>2, <1>7, <1>8 DEF Settled
<1> QED
  BY <1>7, <1>9 DEF FoundBoth, Good, Honest, d

LEMMA OpensRenamedTyped ==
  ASSUME opens \in [Opens -> OpenFiles], NEW p \in Paths, NEW q \in Paths, NEW swap \in BOOLEAN,
         \A r \in Paths : IsUnder(r, p) /\ IsOpen(r) => Rebase(r, p, q) \in Paths,
         swap => \A r \in Paths : IsUnder(r, q) /\ IsOpen(r) => Rebase(r, q, p) \in Paths,
         NEW o, o = OpensRenamed(p, q, swap)
  PROVE  o \in [Opens -> OpenFiles]
<1> DEFINE to(r) == IF IsUnder(r, p) THEN Rebase(r, p, q)
                    ELSE IF swap /\ IsUnder(r, q) THEN Rebase(r, q, p) ELSE r
<1>1. ASSUME NEW k \in Opens
      PROVE  o[k] \in OpenFiles
  <2>1. opens[k] \in OpenFiles
    OBVIOUS
  <2>2. CASE opens[k] = None
    <3>1. o[k] = None
      BY <2>2 DEF OpensRenamed
    <3> QED
      BY <3>1 DEF OpenFiles
  <2>3. CASE opens[k] # None
    <3>1. opens[k] \in [fd : Fds, path : Paths]
      BY <2>1, <2>3 DEF OpenFiles
    <3>2. opens[k].path \in Paths /\ IsOpen(opens[k].path)
      BY <2>3, <3>1 DEF IsOpen
    <3>3. to(opens[k].path) \in Paths
      BY <3>2
    <3>4. o[k] = [opens[k] EXCEPT !.path = to(opens[k].path)]
      BY <2>3 DEF OpensRenamed
    <3> HIDE DEF to
    <3> QED
      BY <3>1, <3>3, <3>4 DEF OpenFiles
  <2> QED
    BY <2>2, <2>3
<1>2. o = [k \in Opens |-> o[k]]
  BY DEF OpensRenamed
<1> QED
  BY <1>1, <1>2

\* What a rename requires of the paths, and what strands a cache entry.
RenameBound(t, p, q, swap) ==
  /\ Fits(t, p, q) /\ (swap => Fits(t, q, p))
  /\ \A r \in Paths : IsUnder(r, p) /\ IsOpen(r) => Rebase(r, p, q) \in Paths
  /\ swap => \A r \in Paths : IsUnder(r, q) /\ IsOpen(r) => Rebase(r, q, p) \in Paths

Strands(t, p, q, swap) ==
  \E r \in DOMAIN t \ {p, q} : (IsUnder(r, p) \/ (swap /\ IsUnder(r, q))) /\ t[r].entry # None

RenameDone(s, p, q, swap) ==
  /\ tree' = TreeRenamed(RefreshStat(RefreshStat(s.tree, Parent(p)), Parent(q)), p, q, swap)
  /\ handles' = HandlesRenamed(s.handles, p, q, swap)
  /\ opens' = OpensRenamed(p, q, swap)
  /\ stranded' = (stranded \/ Strands(s.tree, p, q, swap)) /\ UNCHANGED surprises

RenameUnheard(s, p, q) ==
  /\ tree' = LeaveBehind(s.tree, {p, q, Parent(p), Parent(q)})
  /\ handles' = s.handles /\ UNCHANGED <<opens, stranded>> /\ Surprise(p)

LEMMA RenamedIs ==
  ASSUME NEW p \in Paths, NEW q \in Paths, Apart(p, q), NEW flag \in {"none", "noreplace", "exchange"},
         NEW s, Shape(s.tree), NEW swap \in BOOLEAN, swap <=> flag = "exchange", Renamed(p, q, flag, s)
  PROVE  /\ device' = DeviceRenamed(p, q, swap) /\ UNCHANGED <<scan, crashed>>
         /\ swap => q \in DOMAIN s.tree
         /\ RenameBound(s.tree, p, q, swap)
         /\ RenameDone(s, p, q, swap) \/ RenameUnheard(s, p, q)
<1>0. swap = (flag = "exchange")
  OBVIOUS
<1>1. device' = DeviceRenamed(p, q, swap) /\ UNCHANGED <<scan, crashed>>
  BY <1>0 DEF Renamed
<1>2. swap => q \in DOMAIN s.tree
  BY DEF Renamed
<1>3. \A r \in Paths : /\ IsUnder(r, p) \/ (swap /\ IsUnder(r, q))
                       /\ r \in DOMAIN s.tree \/ IsOpen(r)
        => (IF IsUnder(r, p) THEN Rebase(r, p, q) ELSE Rebase(r, q, p)) \in Paths
  BY DEF Renamed, MayBe
<1>4. RenameBound(s.tree, p, q, swap)
  <2>1. \A r \in Paths : IsUnder(r, q) => ~IsUnder(r, p)
    BY ApartDisjoint
  <2>2. DOMAIN s.tree \subseteq Paths
    BY DEF Shape
  <2> QED
    BY <1>3, <2>1, <2>2 DEF RenameBound, Fits
<1>5. RenameDone(s, p, q, swap) \/ RenameUnheard(s, p, q)
  BY <1>0 DEF Renamed, RenameDone, RenameUnheard, Strands
<1> QED
  BY <1>1, <1>2, <1>4, <1>5

LEMMA RenameStep ==
  ASSUME TreeInv, NEW p \in Paths, NEW q \in Paths, p # Root, q # Root,
         NEW flag \in {"none", "noreplace", "exchange"}, Rename(p, q, flag)
  PROVE  TreeInv'
<1> DEFINE s1 == TraverseOrBuild(p)
           s2 == Reach(s1, Parent(q), "answered")
           s == IF flag = "none" THEN s2 ELSE Reach(s2, q, "answered")
           t == s.tree
           h == s.handles
           swap == flag = "exchange"
<1>1. p # q /\ RenameSucceeds(p, q, flag) /\ Unlocked(p) /\ Unlocked(q)
  BY DEF Rename
<1>2. s1.ok /\ IsDir(s2, Parent(q)) /\ Renamed(p, q, flag, s)
  BY DEF Rename
<1>3. s = s2 \/ s = Reach(s2, q, "answered")
  OBVIOUS
<1>4. s1 = TraverseOrBuild(p) /\ s2 = Reach(s1, Parent(q), "answered") /\ swap \in BOOLEAN
      /\ (swap <=> flag = "exchange")
  OBVIOUS
<1> HIDE DEF s1, s2, s, swap
<1>5. FoundBoth(s, p, q)
  BY <1>2, <1>3, <1>4, RenameLookup
<1>6. FilesShape(device) /\ crashed \in BOOLEAN /\ opens \in [Opens -> OpenFiles]
  BY DEF TreeInv, Typed
<1>7. /\ Apart(p, q) /\ device[p] # "none" /\ device[Parent(q)] = "dir"
      /\ ~swap => \A r \in Paths : IsUnder(r, q) /\ r # q => device[r] = "none"
  BY <1>1, <1>4, <1>6, RenameApart
<1>8. Shape(s.tree)
  BY <1>5 DEF FoundBoth
<1>9. /\ device' = DeviceRenamed(p, q, swap) /\ UNCHANGED <<scan, crashed>>
      /\ swap => q \in DOMAIN s.tree
      /\ RenameBound(s.tree, p, q, swap)
      /\ RenameDone(s, p, q, swap) \/ RenameUnheard(s, p, q)
  BY <1>2, <1>4, <1>7, <1>8, RenamedIs
<1>10. FilesRenamed(device, device', p, q, swap)
  BY <1>4, <1>6, <1>7, <1>9, DeviceRenamedIs
<1>11. FilesShape(device')
  BY <1>4, <1>6, <1>7, <1>10, RenamedFiles
<1>12. scan # None => \A r \in Children[scan.dir] : device'[r] = device[r]
  <2> SUFFICES ASSUME scan # None, NEW r \in Children[scan.dir] PROVE device'[r] = device[r]
    OBVIOUS
  <2>1. r \in Paths /\ ~IsUnder(r, p) /\ ~IsUnder(r, q)
    BY <1>1, ScanApart
  <2> QED
    BY <1>10, <2>1 DEF FilesRenamed
<1>13. /\ Shape(t) /\ HandlesOf(t, h) /\ (Undisturbed => Truthful(t, device, Sure) /\ NoneFreed(h))
       /\ p \in DOMAIN t /\ Parent(q) \in DOMAIN t /\ t[Parent(q)].kind = "dir"
       /\ (swap => q \in DOMAIN t) /\ RenameBound(t, p, q, swap)
  BY <1>5, <1>9 DEF FoundBoth
<1>14. CASE RenameUnheard(s, p, q)
  <2>1. tree' = LeaveBehind(t, {p, q, Parent(p), Parent(q)}) /\ handles' = h
        /\ UNCHANGED <<opens, stranded>> /\ Surprise(p)
    BY <1>14 DEF RenameUnheard
  <2> HIDE DEF t, h
  <2>2. Shape(tree') /\ HandlesOf(tree', handles')
    BY <1>13, <2>1, LeftKeeps
  <2>3. surprises' \in 0..MaxSurprises /\ surprises' # 0
    BY <2>1, SurprisesCount
  <2>4. crashed' \in BOOLEAN /\ opens' \in [Opens -> OpenFiles]
    BY <1>6, <1>9, <2>1
  <2> QED
    BY <1>9, <1>11, <1>12, <2>1, <2>2, <2>3, <2>4, DeviceStep
<1>15. CASE RenameDone(s, p, q, swap)
  <2> DEFINE a == RefreshStat(t, Parent(p))
             b == RefreshStat(a, Parent(q))
  <2>1. tree' = TreeRenamed(b, p, q, swap) /\ handles' = HandlesRenamed(h, p, q, swap)
        /\ opens' = OpensRenamed(p, q, swap)
        /\ stranded' = (stranded \/ Strands(t, p, q, swap)) /\ UNCHANGED surprises
    BY <1>15 DEF RenameDone
  <2>2. a = RefreshStat(t, Parent(p)) /\ b = RefreshStat(a, Parent(q))
    OBVIOUS
  <2> HIDE DEF t, h, a, b
  <2>3. Shape(a) /\ HandlesOf(a, h) /\ (Truthful(t, device, Sure) => Truthful(a, device, Sure))
    BY <1>13, <2>2, RefreshedKeeps, RefreshedTrue, SureIs
  <2>4. Shape(b) /\ HandlesOf(b, h) /\ (Truthful(a, device, Sure) => Truthful(b, device, Sure))
    BY <2>2, <2>3, RefreshedKeeps, RefreshedTrue, SureIs
  <2>5. DOMAIN b = DOMAIN t /\ \A r \in DOMAIN t : b[r].kind = t[r].kind /\ b[r].entry = t[r].entry
    <3>1. IsRefreshed(a, t, Parent(p)) /\ IsRefreshed(b, a, Parent(q))
      BY <2>2, RefreshStatIs
    <3>2. DOMAIN a = DOMAIN t /\ DOMAIN b = DOMAIN a
      BY <3>1 DEF IsRefreshed
    <3>3. \A r \in DOMAIN t : a[r].kind = t[r].kind /\ a[r].entry = t[r].entry
      BY <1>13, <3>1, RefreshedNodes DEF Kin
    <3>4. \A r \in DOMAIN a : b[r].kind = a[r].kind /\ b[r].entry = a[r].entry
      BY <2>3, <3>1, RefreshedNodes DEF Kin
    <3> QED
      BY <3>2, <3>3, <3>4
  <2>6. Fits(b, p, q) /\ (swap => Fits(b, q, p))
    BY <1>13, <2>5 DEF Fits, RenameBound
  <2>7. p \in DOMAIN b /\ Parent(q) \in DOMAIN b /\ b[Parent(q)].kind = "dir" /\ (swap => q \in DOMAIN b)
    BY <1>13, <2>5
  <2>8. Moved(tree', b, p, q, swap)
    BY <1>4, <1>7, <2>1, <2>4, <2>6, TreeRenamedIs
  <2>9. Shape(tree')
    BY <1>4, <1>7, <2>4, <2>7, <2>8, MovedShape
  <2>10. HandlesOf(tree', handles')
    BY <1>4, <1>7, <2>1, <2>4, <2>6, <2>8, MovedHandles
  <2>11. opens' \in [Opens -> OpenFiles] /\ crashed' \in BOOLEAN
    BY <1>4, <1>6, <1>9, <1>13, <2>1, OpensRenamedTyped DEF RenameBound
  <2>12. /\ surprises' \in 0..MaxSurprises /\ (surprises' = 0 => Undisturbed /\ surprises = 0)
         /\ stranded' \in BOOLEAN
    BY <2>1, SurprisesStay DEF Undisturbed
  <2>13. ASSUME surprises' = 0
         PROVE  Truthful(tree', device', Sure') /\ NoneFreed(handles')
    <3> DEFINE sure == Sure'
    <3>1. Truthful(b, device, Sure) /\ NoneFreed(h)
      BY <1>13, <2>3, <2>4, <2>12, <2>13
    <3>2. /\ sure \subseteq Sure /\ (sure = {} \/ sure = Paths)
          /\ sure # {} => ~Strands(t, p, q, swap)
      BY <2>1 DEF Sure
    <3> HIDE DEF sure
    <3>7. Truthful(b, device, sure)
      BY <3>1, <3>2, TruthfulLess
    <3>3. sure # {} => \A r \in DOMAIN b : IsUnder(r, p) /\ r # p => b[r].entry = None
      BY <1>7, <2>5, <3>2 DEF Strands, Apart
    <3>4. sure # {} /\ swap => \A r \in DOMAIN b : IsUnder(r, q) /\ r # q => b[r].entry = None
      BY <1>7, <2>5, <3>2 DEF Strands, Apart
    <3>5. Truthful(tree', device', sure)
      BY <1>4, <1>6, <1>7, <1>10, <2>4, <2>7, <2>8, <3>2, <3>3, <3>4, <3>7, MovedTruthful
    <3>6. NoneFreed(handles')
      BY <1>4, <1>7, <2>1, <2>4, <2>6, <3>1, RenameFreesNone
    <3> QED
      BY <3>5, <3>6 DEF sure
  <2> QED
    BY <1>9, <1>11, <1>12, <2>9, <2>10, <2>11, <2>12, <2>13, AnyStep
<1> QED
  BY <1>9, <1>14, <1>15

-----------------------------------------------------------------------------
(* The specification *)

LEMMA InitHolds == Init => TreeInv
<1> SUFFICES ASSUME Init PROVE TreeInv
  OBVIOUS
<1>1. PICK top \in [Children[Root] -> Kinds] :
        device = [p \in Paths |-> IF p = Root THEN "dir" ELSE IF p \in DOMAIN top THEN top[p] ELSE "none"]
  BY DEF Init
<1> DEFINE n == NewNode("dir", TRUE, FALSE)
<1>2. /\ surprises = 0 /\ tree = [p \in {Root} |-> n] /\ handles = [fd \in Fds |-> Null]
      /\ opens = [k \in Opens |-> None] /\ scan = None /\ crashed = FALSE /\ stranded = FALSE
  BY DEF Init
<1>3. /\ n \in Node /\ n.kind = "dir" /\ ~n.dirty /\ n.entry = None /\ ~n.synced
  BY NewNodeIs
<1> HIDE DEF n
<1>4. /\ device \in [Paths -> Kinds] /\ device[Root] = "dir"
      /\ \A p \in Paths : p # Root /\ p \notin Children[Root] => device[p] = "none"
  <2>1. DOMAIN top = Children[Root] /\ \A p \in Children[Root] : top[p] \in Kinds
    OBVIOUS
  <2>2. \A p \in Paths : device[p] \in Kinds
    BY <1>1, <2>1 DEF Kinds
  <2>3. device = [p \in Paths |-> device[p]] /\ device[Root] = "dir"
    BY <1>1, RootIsPath
  <2>4. \A p \in Paths : p # Root /\ p \notin Children[Root] => device[p] = "none"
    BY <1>1, <2>1
  <2> QED
    BY <2>2, <2>3, <2>4
<1>5. \A p \in Paths \ {Root} : device[p] # "none" => device[Parent(p)] = "dir"
  BY <1>4, RootIsPath, ChildrenAre
<1>6. Typed
  <2>1. surprises \in 0..MaxSurprises
    BY <1>2, BoundsAssumption
  <2>2. opens \in [Opens -> OpenFiles]
    BY <1>2 DEF OpenFiles
  <2>3. crashed \in BOOLEAN /\ stranded \in BOOLEAN
    BY <1>2, Zenon
  <2>4. FilesShape(device)
    BY <1>4, <1>5 DEF FilesShape
  <2> QED
    BY <1>2, <2>1, <2>2, <2>3, <2>4 DEF Typed
<1>7. DOMAIN tree = {Root} /\ tree[Root] = n
  BY <1>2
<1>8. Shape(tree)
  BY <1>3, <1>7, RootIsPath DEF Shape
<1>9. HandlesOf(tree, handles)
  BY <1>2, <1>7, RootIsPath, NullAssumption DEF HandlesOf
<1>10. Truthful(tree, device, Sure)
  BY <1>3, <1>4, <1>7 DEF Truthful, NodeTrue
<1>11. NoneFreed(handles) /\ ScanCurrent
  BY <1>2, NullAssumption DEF NoneFreed, ScanCurrent
<1> QED
  BY <1>6, <1>8, <1>9, <1>10, <1>11 DEF TreeInv, Faithful

LEMMA PathStep ==
  ASSUME TreeInv, NEW p \in Paths, OnPath(p)
  PROVE  TreeInv'
<1>1. CASE ReaddirAsk(p)
  BY <1>1, ReaddirAskStep
<1>2. CASE p # Root /\ Getattr(p)
  BY <1>2, GetattrStep
<1>3. CASE p # Root /\ Mknod(p)
  <2> DEFINE v == TraverseOrBuild(Parent(p))
  <2>1. Unlocked(p) /\ Create(p, "reg", v)
    BY <1>3 DEF Mknod
  <2> QED
    BY <1>3, <2>1, CreateStep
<1>4. CASE p # Root /\ Mkdir(p)
  <2> DEFINE v == TraverseOrBuild(Parent(p))
  <2>1. Unlocked(p) /\ Create(p, "dir", v)
    BY <1>4 DEF Mkdir
  <2> QED
    BY <1>4, <2>1, CreateStep
<1>5. CASE p # Root /\ Unlink(p)
  BY <1>5, UnlinkStep
<1>6. CASE p # Root /\ Rmdir(p)
  BY <1>6, RmdirStep
<1>7. CASE p # Root /\ Utimens(p)
  BY <1>7, UtimensStep
<1>8. CASE p # Root /\ Truncate(p)
  BY <1>8, TruncateStep
<1>9. CASE p # Root /\ \E k \in Opens : Open(k, p)
  BY <1>9, OpenStep
<1>10. CASE p # Root /\ \E q \in Paths \ {Root}, flag \in {"none", "noreplace", "exchange"} : Rename(p, q, flag)
  BY <1>10, RenameStep
<1> QED
  BY <1>1, <1>2, <1>3, <1>4, <1>5, <1>6, <1>7, <1>8, <1>9, <1>10 DEF OnPath

LEMMA StepKeeps ==
  ASSUME TreeInv, Next
  PROVE  TreeInv'
<1>1. CASE \E p \in Paths : OnPath(p)
  BY <1>1, PathStep
<1>2. CASE \E k \in Opens : OnHandle(k)
  BY <1>2, WriteStep, FlushStep, ReleaseStep DEF OnHandle
<1>3. CASE ReaddirApply
  BY <1>3, ReaddirApplyStep
<1>4. CASE SetTtl
  BY <1>4, ExpireStep DEF SetTtl
<1>5. CASE ExpiresAll
  BY <1>5, ExpireStep DEF ExpiresAll
<1>6. CASE \E p \in Paths \ {Root} : ForgetEntry(p)
  BY <1>6, ForgetEntryStep
<1>7. CASE \E p \in Paths \ {Root}, kind \in Kinds : Elsewhere(p, kind)
  BY <1>7, ElsewhereStep
<1> QED
  BY <1>1, <1>2, <1>3, <1>4, <1>5, <1>6, <1>7 DEF Next

LEMMA StutterKeeps ==
  ASSUME TreeInv, UNCHANGED vars
  PROVE  TreeInv'
<1>1. /\ UNCHANGED <<device, scan, stranded>> /\ crashed' \in BOOLEAN /\ opens' \in [Opens -> OpenFiles]
      /\ surprises' \in 0..MaxSurprises /\ (surprises' = 0 => surprises = 0)
      /\ Shape(tree') /\ HandlesOf(tree', handles')
      /\ surprises' = 0 => Truthful(tree', device, Sure) /\ NoneFreed(handles')
  BY DEF vars, TreeInv, Typed, Faithful, Undisturbed
<1> QED
  BY <1>1, HostStep

\* The inductive invariant of the tree, whatever the paths, the open files and
\* the surprises: the tree keeps its shape and its handles always; it tells the
\* truth about the device, frees no node a handle has, and applies no listing
\* that has meanwhile become wrong, until host and device have parted.
THEOREM TreeInvariant == Spec => []TreeInv
<1>1. TreeInv /\ [Next]_vars => TreeInv'
  BY StepKeeps, StutterKeeps
<1> QED
  BY <1>1, InitHolds, PTL DEF Spec

\* Every operation of Filesystem leaves a tree whose nodes have directories for
\* parents, in which only regular files are dirty or have cache entries, and
\* handles that have a node of the tree or none.
THEOREM TreeTyped == Spec => []TypeOK
<1>1. TreeInv => TypeOK
  BY DEF TreeInv, Typed, FilesShape, Shape, HandlesOf, OpenFiles, TypeOK
<1> QED
  BY <1>1, TreeInvariant, PTL

\* Whatever happens on the device, write, flush and release never find the node
\* of a directory or of an error behind a handle: mutate_and_invalidate and
\* readdir erase the handles of a node before it becomes something else.
THEOREM HandlesAreRegular == Spec => []HandlesRegular
<1>1. TreeInv => HandlesRegular
  BY DEF TreeInv, HandlesOf, HandlesRegular
<1> QED
  BY <1>1, TreeInvariant, PTL

\* Until a surprise the nodes that getattr and readdir answer from are of the
\* files' kinds, an Error stands for no file, and a directory that has been read
\* lacks none of its files: create, remove, rename and a listing that is applied
\* late keep it so.
THEOREM TreeMirrorsDevice == Spec => []Mirror
<1>1. ASSUME TreeInv, Undisturbed, NEW p \in DOMAIN tree
      PROVE  /\ IF tree[p].kind = "err" THEN ~Exists(p) ELSE tree[p].kind = device[p]
             /\ tree[p].synced => \A q \in Children[p] : Exists(q) => q \in DOMAIN tree
  <2>1. NodeTrue(tree[p], p, device, DOMAIN tree, Sure)
    BY <1>1 DEF TreeInv, Faithful, Truthful
  <2> QED
    BY <2>1 DEF NodeTrue, Exists
<1>2. TreeInv => Mirror
  BY <1>1 DEF Mirror
<1> QED
  BY <1>2, TreeInvariant, PTL

\* Where the device's clock is not ahead of the host's, until a surprise or the
\* rename of a directory above a cached file, detect_modification never takes the
\* file system's own writes, truncations and time stamps for somebody else's.
THEOREM OwnChangesAreKnown == Spec => []OwnChangesKnown
<1>1. ASSUME TreeInv, ~Ahead, ~stranded, Undisturbed, NEW p \in DOMAIN tree
      PROVE  tree[p].kind = "reg" /\ ~tree[p].dirty => ~tree[p].behind
  <2>1. NodeTrue(tree[p], p, device, DOMAIN tree, Sure) /\ p \in Paths
    BY <1>1 DEF TreeInv, Faithful, Truthful, Shape
  <2>2. p \in Sure
    BY <1>1, <2>1 DEF Sure
  <2> QED
    BY <2>1, <2>2 DEF NodeTrue
<1>2. TreeInv => OwnChangesKnown
  BY <1>1 DEF OwnChangesKnown, DetectModification
<1> QED
  BY <1>2, TreeInvariant, PTL

\* Until a surprise no handle keeps a pointer to a destroyed node, though readdir
\* and rmdir do not erase the handles of the nodes they destroy, nor rename those
\* of the nodes below the one it replaces: there is no file among them.
THEOREM HandlesAreNotFreed == Spec => []NoFreedHandle
<1>1. TreeInv => NoFreedHandle
  BY DEF TreeInv, Faithful, NoneFreed, NoFreedHandle
<1> QED
  BY <1>1, TreeInvariant, PTL

-----------------------------------------------------------------------------
(* The paths of the cache's entries, step by step. *)

LEMMA RefreshedFollow ==
  ASSUME NEW t, Shape(t), NEW p, NEW u, u = RefreshStat(t, p)
  PROVE  Followed(t, u)
<1>1. IsRefreshed(u, t, p)
  BY RefreshStatIs
<1>2. DOMAIN u = DOMAIN t /\ \A q \in DOMAIN t : u[q].entry = t[q].entry
  BY <1>1, RefreshedNodes DEF IsRefreshed
<1> QED
  BY <1>2 DEF Followed

LEMMA LeftFollow ==
  ASSUME NEW t, Shape(t), NEW ps, NEW u, u = LeaveBehind(t, ps)
  PROVE  Followed(t, u)
<1>1. IsLeft(u, t, ps)
  BY LeaveBehindIs
<1>2. DOMAIN u = DOMAIN t /\ \A q \in DOMAIN t : u[q].entry = t[q].entry
  <2>1. DOMAIN u = DOMAIN t
    BY <1>1 DEF IsLeft
  <2>2. \A q \in DOMAIN t : u[q].entry = t[q].entry
    BY <1>1, LeftNodes
  <2> QED
    BY <2>1, <2>2
<1> QED
  BY <1>2 DEF Followed

LEMMA CutFollow ==
  ASSUME NEW t, NEW ps
  PROVE  Followed(t, Without(t, ps))
BY DEF Followed, Without

LEMMA LookedFollow ==
  ASSUME TreeInv, NEW p \in Paths, NEW v, v = TraverseOrBuild(p)
  PROVE  Shape(v.tree) /\ Followed(tree, v.tree)
<1>1. Good(Now) /\ device \in [Paths -> Kinds] /\ Now.tree = tree
  BY NowIs
<1>2. v = Reach(Now, p, "answered")
  BY DEF TraverseOrBuild
<1>3. Onward(Now, v, "answered")
  BY <1>1, <1>2, ReachOnward
<1> QED
  BY <1>1, <1>3 DEF Onward, Good

LEMMA GetattrFollows ==
  ASSUME TreeInv, NEW p \in Paths, Getattr(p)
  PROVE  Followed(tree, tree')
<1>1. PICK fate \in {"answered", "disconnected", "cancelled"} :
        \E s \in {Reach(Now, p, fate)} : tree' = s.tree
  BY DEF Getattr
<1> DEFINE v == Reach(Now, p, fate)
<1>2. tree' = v.tree
  BY <1>1
<1>3. Good(Now) /\ device \in [Paths -> Kinds] /\ Now.tree = tree
  BY NowIs
<1> HIDE DEF v
<1>4. Onward(Now, v, fate)
  BY <1>3, ReachOnward DEF v
<1> QED
  BY <1>2, <1>3, <1>4 DEF Onward

LEMMA ReaddirAskFollows ==
  ASSUME TreeInv, NEW p \in Paths, ReaddirAsk(p)
  PROVE  Followed(tree, tree')
<1> DEFINE v == TraverseOrBuild(p)
<1>1. tree' = v.tree
  BY DEF ReaddirAsk
<1> HIDE DEF v
<1> QED
  BY <1>1, LookedFollow DEF v

LEMMA ReaddirApplyFollows ==
  ASSUME TreeInv, ReaddirApply
  PROVE  Followed(tree, tree')
<1> DEFINE d == scan.dir
           reply == scan.reply
           v == Rescan(d, reply, scan.ahead)
<1>1. d \in Paths /\ reply \in [Children[d] -> Kinds] /\ scan # None /\ Shape(tree)
  BY DEF ReaddirApply, TreeInv, Typed
<1>2. CASE ~(d \in DOMAIN tree /\ tree[d].kind = "dir")
  <2>1. UNCHANGED tree
    BY <1>2 DEF ReaddirApply
  <2> QED
    BY <2>1, FollowedSelf
<1>3. CASE d \in DOMAIN tree /\ tree[d].kind = "dir"
  <2>1. tree' = v.tree
    BY <1>3 DEF ReaddirApply
  <2> HIDE DEF d, reply, v
  <2>2. PICK listed, fresh, known, below, gone, new :
           /\ Rescanned(d, listed, fresh, known, below, gone, new, tree', v.handles)
           /\ \A q \in fresh : new[q] = NewNode(reply[q], reply[q] = "dir", device[q] # reply[q])
    BY <1>1, <2>1, RescanIs DEF v
  <2>3. ASSUME NEW q \in DOMAIN tree'
        PROVE  tree'[q].entry = None \/ (q \in DOMAIN tree /\ tree'[q].entry = tree[q].entry)
    <3>1. CASE q \in fresh
      <4>1. tree'[q] = NewNode(reply[q], reply[q] = "dir", device[q] # reply[q])
        BY <2>2, <2>3, <3>1 DEF Rescanned
      <4> QED
        BY <4>1 DEF NewNode
    <3>2. CASE q \notin fresh
      <4>1. q \in DOMAIN tree /\ tree'[q] = [tree[q] EXCEPT !.synced = @ \/ q = d]
        BY <2>2, <2>3, <3>2 DEF Rescanned
      <4>2. tree[q] \in Node
        BY <1>1, <4>1 DEF Shape
      <4> QED
        BY <4>1, <4>2 DEF Node
    <3> QED
      BY <3>1, <3>2
  <2> QED
    BY <2>3 DEF Followed
<1> QED
  BY <1>2, <1>3

LEMMA CreateFollows ==
  ASSUME TreeInv, NEW p \in Paths, p # Root, NEW kind \in {"reg", "dir"},
         NEW v, v = TraverseOrBuild(Parent(p)), Create(p, kind, v)
  PROVE  Followed(tree, tree')
<1> DEFINE t == v.tree
           d == Parent(p)
           aged == LeaveBehind(t, {p, d})
           n == NewNode(kind, kind = "dir", FALSE)
<1>1. tree' \in {RefreshStat(aged, d), RefreshStat(t, d), With(aged, p, n), aged}
  BY DEF Create
<1>2. d \in Paths /\ n.entry = None
  BY ParentIs DEF NewNode
<1>3. Shape(t) /\ Followed(tree, t)
  BY <1>2, LookedFollow
<1>4. aged = LeaveBehind(t, {p, d})
  OBVIOUS
<1> HIDE DEF t, d, aged, n
<1>5. Shape(aged) /\ Followed(t, aged)
  <2>1. IsLeft(aged, t, {p, d})
    BY <1>4, LeaveBehindIs
  <2>2. DOMAIN aged = DOMAIN t /\ \A q \in DOMAIN t : Kin(t[q], aged[q])
    BY <1>3, <2>1, LeftNodes DEF IsLeft
  <2> QED
    BY <1>3, <1>4, <2>2, AlikeShape, LeftFollow
<1>6. Followed(tree, aged)
  BY <1>3, <1>5, FollowedTransitive
<1>7. CASE tree' = RefreshStat(aged, d)
  BY <1>5, <1>6, <1>7, RefreshedFollow, FollowedTransitive
<1>8. CASE tree' = RefreshStat(t, d)
  BY <1>3, <1>8, RefreshedFollow, FollowedTransitive
<1>9. CASE tree' = With(aged, p, n)
  <2>1. Followed(aged, tree')
    BY <1>2, <1>9 DEF Followed, With
  <2> QED
    BY <1>6, <2>1, FollowedTransitive
<1> QED
  BY <1>1, <1>6, <1>7, <1>8, <1>9

LEMMA UnlinkFollows ==
  ASSUME TreeInv, NEW p \in Paths, p # Root, Unlink(p)
  PROVE  Followed(tree, tree')
<1> DEFINE d == Parent(p)
           v == TraverseOrBuild(d)
           t == v.tree
           cut == Without(t, {p})
<1>1. PICK fate \in Fates :
        /\ p \in DOMAIN t /\ t[p].kind # "dir"
        /\ tree' = LeaveBehind(cut, {d}) \/ tree' = RefreshStat(t, d)
  BY DEF Unlink
<1>2. d \in Paths
  BY ParentIs
<1> HIDE DEF v, d
<1>3. Shape(t) /\ Followed(tree, t)
  BY <1>2, LookedFollow DEF v
<1> HIDE DEF t
<1>4. CASE tree' = RefreshStat(t, d)
  BY <1>3, <1>4, RefreshedFollow, FollowedTransitive
<1>5. CASE tree' = LeaveBehind(cut, {d})
  <2>1. Subtree(t, p) = {p}
    BY <1>1, <1>3, NothingBelow, SubtreeIs, UnderSelf
  <2>2. cut = Without(t, Subtree(t, p))
    BY <2>1
  <2>3. Followed(t, cut)
    BY CutFollow
  <2> HIDE DEF cut
  <2>4. Shape(cut)
    BY <1>3, <2>2, CutShape
  <2> QED
    BY <1>3, <1>5, <2>3, <2>4, LeftFollow, FollowedTransitive
<1> QED
  BY <1>1, <1>4, <1>5

LEMMA RmdirFollows ==
  ASSUME TreeInv, NEW p \in Paths, p # Root, Rmdir(p)
  PROVE  Followed(tree, tree')
<1> DEFINE d == Parent(p)
           v == TraverseOrBuild(d)
           t == v.tree
           cut == Without(t, Subtree(t, p))
<1>1. tree' = RefreshStat(cut, d) \/ tree' = LeaveBehind(t, {p, d})
  BY DEF Rmdir
<1>2. d \in Paths
  BY ParentIs
<1> HIDE DEF v, d
<1>3. Shape(t) /\ Followed(tree, t)
  BY <1>2, LookedFollow DEF v
<1>4. cut = Without(t, Subtree(t, p)) /\ Followed(t, cut)
  BY CutFollow
<1> HIDE DEF t, cut
<1>5. Shape(cut)
  BY <1>3, <1>4, CutShape
<1>6. CASE tree' = RefreshStat(cut, d)
  BY <1>3, <1>4, <1>5, <1>6, RefreshedFollow, FollowedTransitive
<1>7. CASE tree' = LeaveBehind(t, {p, d})
  BY <1>3, <1>7, LeftFollow, FollowedTransitive
<1> QED
  BY <1>1, <1>6, <1>7

\* One node is changed, and its entry is kept, dropped or given the node's path.
LEMMA OneFollows ==
  ASSUME NEW t, NEW p, NEW u, DOMAIN u = DOMAIN t, \A q \in DOMAIN t : q # p => u[q] = t[q],
         p \in DOMAIN t => u[p].entry \in {t[p].entry, None, p}
  PROVE  Followed(t, u)
<1> SUFFICES ASSUME NEW r \in DOMAIN u
             PROVE  u[r].entry \in {None, r} \/ (r \in DOMAIN t /\ u[r].entry = t[r].entry)
  BY DEF Followed
<1>1. CASE r = p
  BY <1>1
<1>2. CASE r # p
  BY <1>2
<1> QED
  BY <1>1, <1>2

LEMMA UtimensFollows ==
  ASSUME TreeInv, NEW p \in Paths, Utimens(p)
  PROVE  Followed(tree, tree')
<1> DEFINE v == TraverseOrBuild(p)
           t == v.tree
           isdir == device[p] = "dir"
<1>1. tree' = [t EXCEPT ![p].behind = FALSE, ![p].isdir = isdir]
  BY DEF Utimens
<1> HIDE DEF v, isdir
<1>2. Shape(t) /\ Followed(tree, t)
  BY LookedFollow DEF v
<1> HIDE DEF t
<1>3. p \in DOMAIN t => tree'[p] = [t[p] EXCEPT !.behind = FALSE, !.isdir = isdir] /\ t[p] \in Node
  BY <1>1, <1>2 DEF Shape
<1>4. p \in DOMAIN t => tree'[p].entry = t[p].entry
  BY <1>3 DEF Node
<1>5. DOMAIN tree' = DOMAIN t /\ \A q \in DOMAIN t : q # p => tree'[q] = t[q]
  BY <1>1
<1>6. Followed(t, tree')
  BY <1>4, <1>5, OneFollows
<1> QED
  BY <1>2, <1>6, FollowedTransitive

LEMMA TruncateFollows ==
  ASSUME TreeInv, NEW p \in Paths, Truncate(p)
  PROVE  Followed(tree, tree')
<1> DEFINE v == TraverseOrBuild(p)
           t == v.tree
           u == LeaveBehind(t, {p})
<1>1. tree' = RefreshStat(u, p)
  BY DEF Truncate
<1> HIDE DEF v
<1>2. Shape(t) /\ Followed(tree, t)
  BY LookedFollow DEF v
<1>3. u = LeaveBehind(t, {p})
  OBVIOUS
<1> HIDE DEF t, u
<1>4. Shape(u) /\ Followed(t, u)
  <2>1. IsLeft(u, t, {p})
    BY <1>3, LeaveBehindIs
  <2>2. DOMAIN u = DOMAIN t /\ \A q \in DOMAIN t : Kin(t[q], u[q])
    BY <1>2, <2>1, LeftNodes DEF IsLeft
  <2> QED
    BY <1>2, <1>3, <2>2, AlikeShape, LeftFollow
<1>5. Followed(u, tree')
  BY <1>1, <1>4, RefreshedFollow
<1> QED
  BY <1>2, <1>4, <1>5, FollowedTransitive

LEMMA OpenFollows ==
  ASSUME TreeInv, NEW p \in Paths, NEW k \in Opens, Open(k, p)
  PROVE  Followed(tree, tree')
<1> DEFINE v == TraverseOrBuild(p)
           t == v.tree
<1>1. tree' = [t EXCEPT ![p].entry = p]
  BY DEF Open
<1> HIDE DEF v
<1>2. Shape(t) /\ Followed(tree, t)
  BY LookedFollow DEF v
<1> HIDE DEF t
<1>3. p \in DOMAIN t => tree'[p] = [t[p] EXCEPT !.entry = p] /\ t[p] \in Node
  BY <1>1, <1>2 DEF Shape
<1>4. p \in DOMAIN t => tree'[p].entry = p
  BY <1>3 DEF Node
<1>5. DOMAIN tree' = DOMAIN t /\ \A q \in DOMAIN t : q # p => tree'[q] = t[q]
  BY <1>1
<1>6. Followed(t, tree')
  BY <1>4, <1>5, OneFollows
<1> QED
  BY <1>2, <1>6, FollowedTransitive

\* dirty changes and the node is stamped: write and Cache::flush.
LEMMA DirtyFollows ==
  ASSUME Shape(tree), NEW p \in DOMAIN tree, tree[p].kind = "reg",
         NEW b \in BOOLEAN, NEW u, u = [tree EXCEPT ![p].dirty = b]
  PROVE  Shape(u) /\ Followed(tree, u)
<1>1. DOMAIN u = DOMAIN tree /\ (\A q \in DOMAIN tree : q # p => u[q] = tree[q])
      /\ u[p] = [tree[p] EXCEPT !.dirty = b]
  OBVIOUS
<1>2. ASSUME NEW q \in DOMAIN tree
      PROVE  Kin(tree[q], u[q]) /\ u[q].entry = tree[q].entry
  <2>1. tree[q] \in Node /\ (tree[q].kind # "reg" => ~tree[q].dirty /\ tree[q].entry = None)
    BY DEF Shape
  <2>2. CASE q # p
    BY <1>1, <2>1, <2>2 DEF Kin
  <2>3. CASE q = p
    <3>1. u[q] = [tree[q] EXCEPT !.dirty = b]
      BY <1>1, <2>3
    <3>2. u[q].entry = tree[q].entry /\ u[q] \in Node /\ u[q].kind = tree[q].kind
      BY <2>1, <3>1 DEF Node
    <3> QED
      BY <2>3, <3>2 DEF Kin
  <2> QED
    BY <2>2, <2>3
<1>3. Followed(tree, u)
  BY <1>1, <1>2 DEF Followed
<1>4. Shape(u)
  BY <1>1, <1>2, AlikeShape
<1> QED
  BY <1>3, <1>4

LEMMA WriteFollows ==
  ASSUME TreeInv, NEW k \in Opens, Write(k)
  PROVE  Followed(tree, tree')
<1> DEFINE p == handles[opens[k].fd]
           u == [tree EXCEPT ![p].dirty = TRUE]
<1>1. CASE p = Freed
  BY <1>1, FollowedSelf DEF Write
<1>2. CASE p # Freed
  <2>1. tree' = RefreshStat(u, p) /\ opens[k] # None /\ p # Null
    BY <1>2 DEF Write
  <2>2. p \in DOMAIN tree /\ tree[p].kind = "reg" /\ Shape(tree)
    BY <1>2, <2>1, HandleIs DEF TreeInv
  <2>3. u = [tree EXCEPT ![p].dirty = TRUE]
    OBVIOUS
  <2> HIDE DEF p, u
  <2>4. Shape(u) /\ Followed(tree, u)
    BY <2>2, <2>3, DirtyFollows
  <2>7. Followed(u, tree')
    BY <2>1, <2>4, RefreshedFollow
  <2> QED
    BY <2>4, <2>7, FollowedTransitive
<1> QED
  BY <1>1, <1>2

LEMMA FlushNodeFollows ==
  ASSUME TreeInv, NEW p \in DOMAIN tree, tree[p].kind = "reg", FlushNode(p)
  PROVE  Followed(tree, tree')
<1>1. CASE UNCHANGED tree
  BY <1>1, FollowedSelf
<1>2. CASE ~(UNCHANGED tree)
  <2>1. PICK target \in {tree[p].entry, p} \cap Paths : tree' = Flushed(tree, p, target)
    BY <1>2 DEF FlushNode
  <2> DEFINE u == [tree EXCEPT ![p].dirty = FALSE]
             w == LeaveBehind(u, {target})
  <2>2. u = [tree EXCEPT ![p].dirty = FALSE] /\ w = LeaveBehind(u, {target}) /\ Shape(tree)
    BY DEF TreeInv
  <2>3. tree' = RefreshStat(w, p)
    BY <2>1 DEF Flushed
  <2> HIDE DEF u, w
  <2>4. Shape(u) /\ Followed(tree, u)
    BY <2>2, DirtyFollows
  <2>7. Followed(u, w)
    BY <2>2, <2>4, LeftFollow
  <2>8. Shape(w)
    <3>1. IsLeft(w, u, {target})
      BY <2>2, LeaveBehindIs
    <3>2. DOMAIN w = DOMAIN u /\ \A q \in DOMAIN u : Kin(u[q], w[q])
      BY <2>4, <3>1, LeftNodes DEF IsLeft
    <3> QED
      BY <2>4, <3>2, AlikeShape
  <2>9. Followed(w, tree')
    BY <2>3, <2>8, RefreshedFollow
  <2>10. Followed(tree, w)
    BY <2>4, <2>7, FollowedTransitive
  <2> QED
    BY <2>9, <2>10, FollowedTransitive
<1> QED
  BY <1>1, <1>2

LEMMA HandleFollows ==
  ASSUME TreeInv, NEW k \in Opens, Write(k) \/ Flush(k) \/ Release(k)
  PROVE  Followed(tree, tree')
<1> DEFINE p == handles[opens[k].fd]
<1>1. CASE Write(k)
  BY <1>1, WriteFollows
<1>2. CASE Flush(k) \/ Release(k)
  <2>1. opens[k] # None /\ IF p \in {Null, Freed} THEN UNCHANGED tree ELSE FlushNode(p)
    BY <1>2 DEF Flush, Release
  <2>2. CASE p \in {Null, Freed}
    BY <2>1, <2>2, FollowedSelf
  <2>3. CASE p \notin {Null, Freed}
    <3>1. FlushNode(p) /\ p \in DOMAIN tree /\ tree[p].kind = "reg"
      BY <2>1, <2>3, HandleIs
    <3> HIDE DEF p
    <3> QED
      BY <3>1, FlushNodeFollows
  <2> QED
    BY <2>2, <2>3
<1> QED
  BY <1>1, <1>2

LEMMA ExpireFollows ==
  ASSUME TreeInv, NEW yes \in BOOLEAN, tree' = Expire(yes)
  PROVE  Followed(tree, tree')
<1>1. DOMAIN tree' = DOMAIN tree
      /\ \A q \in DOMAIN tree : tree'[q] = [tree[q] EXCEPT !.expired = yes /\ q # Root]
  BY DEF Expire
<1>2. \A q \in DOMAIN tree : tree[q] \in Node
  BY DEF TreeInv, Shape
<1>3. \A q \in DOMAIN tree : tree'[q].entry = tree[q].entry
  BY <1>1, <1>2 DEF Node
<1> QED
  BY <1>1, <1>3 DEF Followed

LEMMA ForgetFollows ==
  ASSUME TreeInv, NEW p \in Paths, ForgetEntry(p)
  PROVE  Followed(tree, tree')
<1>1. p \in DOMAIN tree /\ tree' = [tree EXCEPT ![p].entry = None]
  BY DEF ForgetEntry
<1>2. tree'[p] = [tree[p] EXCEPT !.entry = None] /\ tree[p] \in Node
  BY <1>1 DEF TreeInv, Shape
<1>3. tree'[p].entry = None
  BY <1>2 DEF Node
<1>4. DOMAIN tree' = DOMAIN tree /\ \A q \in DOMAIN tree : q # p => tree'[q] = tree[q]
  BY <1>1
<1> QED
  BY <1>3, <1>4, OneFollows

LEMMA ElsewhereFollows ==
  ASSUME TreeInv, NEW p \in Paths, NEW kind \in Kinds, Elsewhere(p, kind)
  PROVE  Followed(tree, tree')
<1>1. tree' = LeaveBehind(tree, {p, Parent(p)}) /\ Shape(tree)
  BY DEF Elsewhere, TreeInv
<1> QED
  BY <1>1, LeftFollow

\* A rename: the entries of p and q have their new paths, those below may not.
LEMMA RenameFollows ==
  ASSUME TreeInv, NEW p \in Paths, NEW q \in Paths, p # Root, q # Root,
         NEW flag \in {"none", "noreplace", "exchange"}, Rename(p, q, flag),
         NEW r \in DOMAIN tree'
  PROVE  \/ tree'[r].entry \in {None, r}
         \/ r \in DOMAIN tree /\ tree'[r].entry = tree[r].entry
         \/ r \notin {p, q} /\ (IsUnder(r, p) \/ IsUnder(r, q))
<1> DEFINE s1 == TraverseOrBuild(p)
           s2 == Reach(s1, Parent(q), "answered")
           s == IF flag = "none" THEN s2 ELSE Reach(s2, q, "answered")
           t == s.tree
           swap == flag = "exchange"
<1>1. p # q /\ RenameSucceeds(p, q, flag)
  BY DEF Rename
<1>2. s1.ok /\ IsDir(s2, Parent(q)) /\ Renamed(p, q, flag, s)
  BY DEF Rename
<1>3. s = s2 \/ s = Reach(s2, q, "answered")
  OBVIOUS
<1>4. s1 = TraverseOrBuild(p) /\ s2 = Reach(s1, Parent(q), "answered") /\ swap \in BOOLEAN
      /\ (swap <=> flag = "exchange")
  OBVIOUS
<1> HIDE DEF s1, s2, s, swap
<1>5. Good(s) /\ Followed(tree, t)
  <2>1. Good(Now) /\ device \in [Paths -> Kinds] /\ Now.tree = tree /\ Parent(q) \in Paths
    BY NowIs, ParentIs
  <2>2. s1 = Reach(Now, p, "answered")
    BY <1>4 DEF TraverseOrBuild
  <2>3. Onward(Now, s1, "answered")
    BY <2>1, <2>2, ReachOnward
  <2>4. Good(s1) /\ Followed(tree, s1.tree)
    BY <2>1, <2>3 DEF Onward
  <2>5. Onward(s1, s2, "answered")
    BY <1>4, <2>1, <2>4, ReachOnward
  <2>6. Good(s2) /\ Followed(s1.tree, s2.tree)
    BY <2>5 DEF Onward
  <2>7. Onward(s2, s, "answered")
    BY <1>3, <2>1, <2>6, ReachOnward, OnwardSelf
  <2>8. Good(s) /\ Followed(s2.tree, s.tree)
    BY <2>7 DEF Onward
  <2>9. Followed(tree, s2.tree)
    BY <2>4, <2>6, FollowedTransitive
  <2> QED
    BY <2>8, <2>9, FollowedTransitive
<1>6. FilesShape(device) /\ Shape(s.tree)
  BY <1>5 DEF TreeInv, Typed, Good
<1>7. Apart(p, q)
  BY <1>1, <1>4, <1>6, RenameApart
<1>8. RenameBound(s.tree, p, q, swap) /\ (RenameDone(s, p, q, swap) \/ RenameUnheard(s, p, q))
  BY <1>2, <1>4, <1>6, <1>7, RenamedIs
<1>9. CASE RenameUnheard(s, p, q)
  <2>1. tree' = LeaveBehind(t, {p, q, Parent(p), Parent(q)})
    BY <1>9 DEF RenameUnheard
  <2>2. Shape(t)
    BY <1>6
  <2> HIDE DEF t
  <2>3. Followed(t, tree')
    BY <2>1, <2>2, LeftFollow
  <2>4. Followed(tree, tree')
    BY <1>5, <2>3, FollowedTransitive
  <2> QED
    BY <2>4 DEF Followed
<1>10. CASE RenameDone(s, p, q, swap)
  <2> DEFINE a == RefreshStat(t, Parent(p))
             b == RefreshStat(a, Parent(q))
  <2>1. tree' = TreeRenamed(b, p, q, swap)
    BY <1>10 DEF RenameDone
  <2>2. a = RefreshStat(t, Parent(p)) /\ b = RefreshStat(a, Parent(q)) /\ Shape(t)
        /\ RenameBound(t, p, q, swap)
    BY <1>6, <1>8
  <2> HIDE DEF t, a, b
  <2>3. Shape(a) /\ Followed(t, a) /\ DOMAIN a = DOMAIN t
    <3>1. IsRefreshed(a, t, Parent(p))
      BY <2>2, RefreshStatIs
    <3>2. DOMAIN a = DOMAIN t
      BY <3>1 DEF IsRefreshed
    <3>3. \A x \in DOMAIN t : Kin(t[x], a[x])
      BY <2>2, <3>1, RefreshedNodes
    <3>4. Shape(a)
      BY <2>2, <3>2, <3>3, AlikeShape
    <3> QED
      BY <2>2, <3>2, <3>4, RefreshedFollow
  <2>4. Shape(b) /\ Followed(a, b) /\ DOMAIN b = DOMAIN a
    <3>1. IsRefreshed(b, a, Parent(q))
      BY <2>2, RefreshStatIs
    <3>2. DOMAIN b = DOMAIN a
      BY <3>1 DEF IsRefreshed
    <3>3. \A x \in DOMAIN a : Kin(a[x], b[x])
      BY <2>3, <3>1, RefreshedNodes
    <3>4. Shape(b)
      BY <2>3, <3>2, <3>3, AlikeShape
    <3> QED
      BY <2>2, <2>3, <3>2, <3>4, RefreshedFollow
  <2>5. Followed(tree, a)
    BY <1>5, <2>3, FollowedTransitive
  <2>6. Followed(tree, b)
    BY <2>4, <2>5, FollowedTransitive
  <2>7. Fits(b, p, q) /\ (swap => Fits(b, q, p))
    BY <2>2, <2>3, <2>4 DEF Fits, RenameBound
  <2>8. Moved(tree', b, p, q, swap)
    BY <1>4, <1>7, <2>1, <2>4, <2>7, TreeRenamedIs
  <2>9. r \in Paths
    BY <2>8 DEF Moved
  <2>10. CASE ~IsUnder(r, p) /\ ~IsUnder(r, q)
    <3>1. r \in DOMAIN b /\ tree'[r] = b[r]
      BY <2>8, <2>9, <2>10 DEF Moved, Elsewise
    <3> QED
      BY <2>6, <3>1 DEF Followed
  <2>11. CASE r = q
    <3>1. IsUnder(q, q)
      BY UnderSelf
    <3>2. Carried(tree', b, q, p)
      BY <2>8 DEF Moved
    <3> QED
      BY <2>4, <2>9, <2>11, <3>1, <3>2, CarriedNode
  <2>12. CASE r = p
    <3>1. IsUnder(p, p)
      BY UnderSelf
    <3>2. Carried(tree', b, p, q)
      BY <2>8, <2>9, <2>12, <3>1 DEF Moved
    <3> QED
      BY <2>4, <2>9, <2>12, <3>1, <3>2, CarriedNode
  <2> QED
    BY <2>10, <2>11, <2>12
<1> QED
  BY <1>8, <1>9, <1>10

LEMMA PathFollows ==
  ASSUME TreeInv, NEW p \in Paths, OnPath(p),
         ~\E q \in Paths \ {Root}, flag \in {"none", "noreplace", "exchange"} : p # Root /\ Rename(p, q, flag)
  PROVE  Followed(tree, tree')
<1>1. CASE ReaddirAsk(p)
  BY <1>1, ReaddirAskFollows
<1>2. CASE p # Root /\ Getattr(p)
  BY <1>2, GetattrFollows
<1>3. CASE p # Root /\ (Mknod(p) \/ Mkdir(p))
  <2> DEFINE v == TraverseOrBuild(Parent(p))
  <2>1. \E kind \in {"reg", "dir"} : Create(p, kind, v)
    BY <1>3 DEF Mknod, Mkdir
  <2> QED
    BY <1>3, <2>1, CreateFollows
<1>4. CASE p # Root /\ Unlink(p)
  BY <1>4, UnlinkFollows
<1>5. CASE p # Root /\ Rmdir(p)
  BY <1>5, RmdirFollows
<1>6. CASE p # Root /\ Utimens(p)
  BY <1>6, UtimensFollows
<1>7. CASE p # Root /\ Truncate(p)
  BY <1>7, TruncateFollows
<1>8. CASE p # Root /\ \E k \in Opens : Open(k, p)
  BY <1>8, OpenFollows
<1> QED
  BY <1>1, <1>2, <1>3, <1>4, <1>5, <1>6, <1>7, <1>8 DEF OnPath

LEMMA NextFollows ==
  ASSUME TreeInv, Next, NEW r \in DOMAIN tree'
  PROVE  \/ tree'[r].entry \in {None, r}
         \/ r \in DOMAIN tree /\ tree'[r].entry = tree[r].entry
         \/ \E p, q \in Paths \ {Root}, flag \in {"none", "noreplace", "exchange"} :
              /\ Rename(p, q, flag)
              /\ r \notin {p, q} /\ (IsUnder(r, p) \/ IsUnder(r, q))
<1>1. CASE \E p, q \in Paths \ {Root}, flag \in {"none", "noreplace", "exchange"} : Rename(p, q, flag)
  <2>1. PICK p \in Paths \ {Root}, q \in Paths \ {Root}, flag \in {"none", "noreplace", "exchange"} : Rename(p, q, flag)
    BY <1>1
  <2>2. \/ tree'[r].entry \in {None, r}
        \/ r \in DOMAIN tree /\ tree'[r].entry = tree[r].entry
        \/ r \notin {p, q} /\ (IsUnder(r, p) \/ IsUnder(r, q))
    BY <2>1, RenameFollows
  <2> QED
    BY <2>1, <2>2
<1>2. CASE ~\E p, q \in Paths \ {Root}, flag \in {"none", "noreplace", "exchange"} : Rename(p, q, flag)
  <2> SUFFICES Followed(tree, tree')
    BY DEF Followed
  <2>1. CASE \E p \in Paths : OnPath(p)
    BY <1>2, <2>1, PathFollows
  <2>2. CASE \E k \in Opens : OnHandle(k)
    BY <2>2, HandleFollows DEF OnHandle
  <2>3. CASE ReaddirApply
    BY <2>3, ReaddirApplyFollows
  <2>4. CASE SetTtl
    BY <2>4, ExpireFollows DEF SetTtl
  <2>5. CASE ExpiresAll
    BY <2>5, ExpireFollows DEF ExpiresAll
  <2>6. CASE \E p \in Paths \ {Root} : ForgetEntry(p)
    BY <2>6, ForgetFollows
  <2>7. CASE \E p \in Paths \ {Root}, kind \in Kinds : Elsewhere(p, kind)
    BY <2>7, ElsewhereFollows
  <2> QED
    BY <2>1, <2>2, <2>3, <2>4, <2>5, <2>6, <2>7 DEF Next
<1> QED
  BY <1>1, <1>2

\* Whatever happens on the device and in whatever order the operations come, the
\* path of a cache entry leaves that of its node only below a directory that is
\* renamed, for which Cache::rename is not called: every other operation keeps an
\* entry, forgets it or gives it the path its node has.
THEOREM EntriesKeepUp == Spec => EntriesFollow
<1>1. ASSUME TreeInv, [Next]_vars
      PROVE  [\A r \in DOMAIN tree' :
                \/ tree'[r].entry \in {None, r}
                \/ r \in DOMAIN tree /\ tree'[r].entry = tree[r].entry
                \/ \E p, q \in Paths \ {Root}, flag \in {"none", "noreplace", "exchange"} :
                     /\ Rename(p, q, flag)
                     /\ r \notin {p, q} /\ (IsUnder(r, p) \/ IsUnder(r, q))]_vars
  <2>1. CASE UNCHANGED vars
    BY <2>1
  <2>2. CASE Next
    BY <1>1, <2>2, NextFollows
  <2> QED
    BY <1>1, <2>1, <2>2
<1> QED
  BY <1>1, TreeInvariant, PTL DEF Spec, EntriesFollow
=============================================================================
