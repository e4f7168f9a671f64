---------------------------- MODULE BootViewProofs ----------------------------
(* BootView and HotView for every value of the constants: of a module nothing is
   seen but what it offered, where it put it; what the device had, and what a
   module gave, is seen unless another source covers it; what a module removes
   is not seen; a hot operation touches no other module; and the list of modules
   is true.  The lemmas go from paths and orders to views and layers, from a
   scanned tree to the plan, and from the plan to what each backend makes of it;
   each invariant comes before the theorems that rest on it. *)
EXTENDS HotView, TLAPS, SequenceTheorems, FiniteSetTheorems, WellFoundedInduction

-----------------------------------------------------------------------------
(* Least and greatest elements *)

(* A set of naturals that is not empty has a least element. *)
LEMMA Least ==
  ASSUME NEW S \in SUBSET Nat, S # {}
  PROVE  \E n \in S : \A m \in S : n <= m
<1> DEFINE R == {ss \in Nat \X Nat : ss[1] < ss[2]}
<1>1. IsWellFoundedOn(R, Nat)
  BY NatLessThanWellFounded DEF OpToRel
<1>2. PICK n \in S : \A m \in S : <<m, n>> \notin R
  <2> HIDE DEF R
  <2> QED BY <1>1, WFMin
<1>3. \A m \in S : ~(m < n)
  BY <1>2
<1> QED
  BY <1>3

(* A bounded set of naturals that is not empty has a greatest element. *)
LEMMA Greatest ==
  ASSUME NEW S \in SUBSET Nat, S # {}, NEW b \in Nat, \A n \in S : n <= b
  PROVE  \E n \in S : \A m \in S : m <= n
<1> DEFINE T == {n \in Nat : \A m \in S : m <= n}
<1>1. b \in T
  OBVIOUS
<1>2. PICK n \in T : \A m \in T : n <= m
  BY <1>1, Least, T \in SUBSET Nat
<1>3. CASE n \in S
  BY <1>2, <1>3
<1>4. CASE n \notin S
  <2>1. \A m \in S : m < n
    BY <1>2, <1>4
  <2>2. n > 0 /\ n - 1 \in Nat
    <3>1. PICK m \in S : TRUE
      OBVIOUS
    <3> QED
      BY <2>1, <3>1, <1>2
  <2>3. n - 1 \in T
    BY <2>1, <2>2, <1>2
  <2> QED
    BY <1>2, <2>2, <2>3
<1> QED
  BY <1>3, <1>4

(* R is a strict total order of S. *)
Orders(R, S) ==
  /\ \A s \in S : <<s, s>> \notin R
  /\ \A s, t, u \in S : <<s, t>> \in R /\ <<t, u>> \in R => <<s, u>> \in R
  /\ \A s, t \in S : s # t => <<s, t>> \in R \/ <<t, s>> \in R

Earlier(R, S, s) == {t \in S : <<t, s>> \in R}

(* What is earlier than an element of a finite set is a finite set. *)
LEMMA EarlierType ==
  ASSUME NEW S, IsFiniteSet(S), NEW R, NEW s
  PROVE  IsFiniteSet(Earlier(R, S, s)) /\ Cardinality(Earlier(R, S, s)) \in Nat
BY FS_Subset, FS_CardinalityType, Earlier(R, S, s) \in SUBSET S DEF Earlier

(* What is earlier has fewer before it. *)
LEMMA EarlierLess ==
  ASSUME NEW S, IsFiniteSet(S), NEW R, Orders(R, S), NEW s \in S, NEW t \in S, <<t, s>> \in R
  PROVE  Cardinality(Earlier(R, S, t)) < Cardinality(Earlier(R, S, s))
<1> DEFINE A == Earlier(R, S, t)
           B == Earlier(R, S, s)
<1>1. A \subseteq B
  BY DEF Orders, Earlier
<1>2. t \in B /\ t \notin A
  BY DEF Orders, Earlier
<1>3. IsFiniteSet(B) /\ Cardinality(B) \in Nat /\ Cardinality(A) \in Nat
  BY EarlierType
<1> HIDE DEF A, B
<1>4. Cardinality(A) <= Cardinality(B) /\ Cardinality(A) # Cardinality(B)
  BY <1>1, <1>2, <1>3, FS_Subset
<1> QED
  BY <1>3, <1>4 DEF A, B

(* A finite set has a first element in a strict total order. *)
LEMMA First ==
  ASSUME NEW S, IsFiniteSet(S), S # {}, NEW R, Orders(R, S)
  PROVE  \E s \in S : \A t \in S \ {s} : <<s, t>> \in R
<1> DEFINE N == {Cardinality(Earlier(R, S, s)) : s \in S}
<1>1. N \in SUBSET Nat /\ N # {}
  BY EarlierType
<1>2. PICK n \in N : \A m \in N : n <= m
  BY <1>1, Least
<1>3. PICK s \in S : n = Cardinality(Earlier(R, S, s))
  BY <1>2
<1>4. ASSUME NEW t \in S \ {s} PROVE <<s, t>> \in R
  <2>1. SUFFICES ASSUME <<t, s>> \in R PROVE FALSE
    BY DEF Orders
  <2>2. Cardinality(Earlier(R, S, t)) < n
    BY <1>3, <2>1, EarlierLess
  <2>3. n <= Cardinality(Earlier(R, S, t))
    BY <1>2
  <2> QED
    BY <2>2, <2>3, EarlierType, <1>3
<1> QED
  BY <1>4

(* Its elements in that order, each once. *)
LEMMA OrderedSeq ==
  ASSUME NEW S, IsFiniteSet(S), NEW R, Orders(R, S)
  PROVE  /\ Ordered(S, R) \in Seq(S)
         /\ Len(Ordered(S, R)) = Cardinality(S)
         /\ \A s \in S : \E n \in 1..Cardinality(S) : Ordered(S, R)[n] = s
<1> DEFINE c == Cardinality(S)
           rank == [s \in S |-> Cardinality(Earlier(R, S, s)) + 1]
<1>1. c \in Nat
  BY FS_CardinalityType
<1>2. rank \in [S -> 1..c]
  <2> SUFFICES ASSUME NEW s \in S PROVE Cardinality(Earlier(R, S, s)) + 1 \in 1..c
    OBVIOUS
  <2>1. Earlier(R, S, s) \in SUBSET (S \ {s})
    BY DEF Earlier, Orders
  <2>2. IsFiniteSet(S \ {s}) /\ Cardinality(S \ {s}) = c - 1
    BY FS_RemoveElement
  <2>3. Cardinality(Earlier(R, S, s)) <= c - 1
    <3> HIDE DEF c
    <3> QED BY <2>1, <2>2, FS_Subset
  <2> QED
    BY <1>1, <2>3, EarlierType
<1>3. ASSUME NEW s \in S, NEW t \in S, s # t PROVE rank[s] # rank[t]
  <2>1. <<s, t>> \in R \/ <<t, s>> \in R
    BY <1>3 DEF Orders
  <2> QED
    BY <2>1, EarlierLess, EarlierType
<1>4. rank \in Injection(S, 1..c)
  BY <1>2, <1>3 DEF Injection, IsInjective
<1>5. rank \in Surjection(S, 1..c)
  <2>1. IsFiniteSet(1..c) /\ Cardinality(1..c) = c
    BY <1>1, FS_Interval
  <2> HIDE DEF rank, c
  <2>2. Cardinality(S) = Cardinality(1..c)
    BY <2>1 DEF c
  <2> QED
    BY <1>4, <2>1, <2>2, FS_Injection
<1>6. \A n \in 1..c : \E s \in S : rank[s] = n
  BY <1>5 DEF Surjection
<1>7. ASSUME NEW n \in 1..c
      PROVE  Ordered(S, R)[n] \in S /\ rank[Ordered(S, R)[n]] = n
  <2>1. PICK s \in S : rank[s] = n
    BY <1>6
  <2>2. Cardinality(Earlier(R, S, s)) = n - 1
    BY <2>1, <1>1, EarlierType
  <2>3. Ordered(S, R)[n] = CHOOSE x \in S : Cardinality(Earlier(R, S, x)) = n - 1
    BY DEF Ordered, Earlier
  <2>4. Ordered(S, R)[n] \in S /\ Cardinality(Earlier(R, S, Ordered(S, R)[n])) = n - 1
    BY <2>2, <2>3
  <2> QED
    BY <2>4, <1>1
<1>8. Ordered(S, R) = [n \in 1..c |-> Ordered(S, R)[n]]
  <2> DEFINE E(n) == CHOOSE s \in S : Cardinality({t \in S : <<t, s>> \in R}) = n - 1
  <2>1. Ordered(S, R) = [n \in 1..c |-> E(n)]
    BY DEF Ordered
  <2> HIDE DEF E, c
  <2> QED
    BY <2>1
<1>9. Ordered(S, R) \in [1..c -> S]
  BY <1>7, <1>8
<1>10. \A s \in S : \E n \in 1..c : Ordered(S, R)[n] = s
  <2> TAKE s \in S
  <2>1. rank[s] \in 1..c
    BY <1>2
  <2>2. Ordered(S, R)[rank[s]] \in S /\ rank[Ordered(S, R)[rank[s]]] = rank[s]
    BY <2>1, <1>7
  <2> HIDE DEF rank
  <2>3. Ordered(S, R)[rank[s]] = s
    BY <2>2, <1>3
  <2> QED
    BY <2>1, <2>3
<1> HIDE DEF rank
<1> QED
  BY <1>1, <1>9, <1>10
-----------------------------------------------------------------------------
(* Paths *)

(* Lengths of paths. *)
LEMMA LenType == \A p \in Paths : Len(p) \in Nat
BY DEF Paths

(* IsPrefix, of the community modules, by elements. *)
LEMMA PrefixElements ==
  ASSUME NEW a \in Paths, NEW b \in Paths
  PROVE  IsPrefix(a, b) <=> Len(a) <= Len(b) /\ \A i \in 1..Len(a) : a[i] = b[i]
<1>1. SubSeq(a, 1, Len(a)) = a
  BY DEF Paths
<1>2. ASSUME Len(a) <= Len(b)
      PROVE  SubSeq(b, 1, Len(a)) = a <=> \A i \in 1..Len(a) : a[i] = b[i]
  <2>1. SubSeq(b, 1, Len(a)) \in Seq(Names) /\ Len(SubSeq(b, 1, Len(a))) = Len(a)
    BY <1>2 DEF Paths
  <2>2. \A i \in 1..Len(a) : SubSeq(b, 1, Len(a))[i] = b[i]
    BY <1>2 DEF Paths
  <2>3. a \in Seq(Names)
    BY DEF Paths
  <2> QED
    BY <2>1, <2>2, <2>3, SeqEqual
<1> QED
  BY <1>1, <1>2 DEF IsPrefix

(* What is left of a path after its first elements. *)
LEMMA Tail0Type ==
  ASSUME NEW a \in Paths, NEW b \in Paths, Len(a) <= Len(b)
  PROVE  /\ Tail0(b, a) \in Paths
         /\ Len(Tail0(b, a)) = Len(b) - Len(a)
         /\ \A i \in 1..(Len(b) - Len(a)) : Tail0(b, a)[i] = b[Len(a) + i]
BY DEF Tail0, Paths

(* A path after a path is a path. *)
LEMMA ConcatType ==
  ASSUME NEW a \in Paths, NEW q \in Paths
  PROVE  /\ a \o q \in Paths
         /\ Len(a \o q) = Len(a) + Len(q)
         /\ \A i \in 1..Len(a) : (a \o q)[i] = a[i]
         /\ \A i \in 1..Len(q) : (a \o q)[Len(a) + i] = q[i]
BY DEF Paths

(* A path goes on from each of its prefixes. *)
LEMMA PrefixSplit ==
  ASSUME NEW a \in Paths, NEW b \in Paths, IsPrefix(a, b)
  PROVE  Tail0(b, a) \in Paths /\ b = a \o Tail0(b, a)
<1>1. Len(a) <= Len(b) /\ \A i \in 1..Len(a) : a[i] = b[i]
  BY PrefixElements
<1>2. Tail0(b, a) \in Paths
  BY <1>1, Tail0Type
<1>3. a \o Tail0(b, a) \in Paths /\ Len(a \o Tail0(b, a)) = Len(b)
  BY <1>1, <1>2, Tail0Type, ConcatType DEF Paths
<1>4. ASSUME NEW i \in 1..Len(b) PROVE (a \o Tail0(b, a))[i] = b[i]
  <2>1. CASE i \in 1..Len(a)
    BY <2>1, <1>1, <1>2, ConcatType
  <2>2. CASE i \notin 1..Len(a)
    <3>1. i - Len(a) \in 1..(Len(b) - Len(a)) /\ i = Len(a) + (i - Len(a))
      BY <2>2, <1>1 DEF Paths
    <3>2. Tail0(b, a)[i - Len(a)] = b[Len(a) + (i - Len(a))]
      BY <3>1, <1>1, Tail0Type
    <3>3. (a \o Tail0(b, a))[Len(a) + (i - Len(a))] = Tail0(b, a)[i - Len(a)]
      BY <3>1, <1>1, <1>2, Tail0Type, ConcatType
    <3> QED
      BY <3>1, <3>2, <3>3
  <2> QED
    BY <2>1, <2>2
<1>5. a \o Tail0(b, a) = b
  BY <1>3, <1>4, SeqEqual DEF Paths
<1> QED
  BY <1>2, <1>5

(* A path is a prefix of what goes on from it. *)
LEMMA PrefixConcat ==
  ASSUME NEW a \in Paths, NEW q \in Paths
  PROVE  /\ a \o q \in Paths
         /\ IsPrefix(a, a \o q)
         /\ Tail0(a \o q, a) = q
         /\ q # << >> => a \o q # a
<1> DEFINE c == a \o q
<1>1. /\ c \in Paths /\ Len(c) = Len(a) + Len(q)
      /\ \A i \in 1..Len(a) : c[i] = a[i]
      /\ \A i \in 1..Len(q) : c[Len(a) + i] = q[i]
  BY ConcatType
<1>2. Len(q) = 0 => q = << >>
  BY DEF Paths
<1> HIDE DEF c
<1>3. Len(a) <= Len(c) /\ Len(c) - Len(a) = Len(q)
  BY <1>1, LenType
<1>4. IsPrefix(a, c)
  BY <1>1, <1>3, PrefixElements
<1>5. /\ Tail0(c, a) \in Paths /\ Len(Tail0(c, a)) = Len(q)
      /\ \A i \in 1..Len(q) : Tail0(c, a)[i] = q[i]
  <2>1. /\ Tail0(c, a) \in Paths /\ Len(Tail0(c, a)) = Len(q)
        /\ \A i \in 1..Len(q) : Tail0(c, a)[i] = c[Len(a) + i]
    BY <1>1, <1>3, Tail0Type
  <2> QED
    BY <1>1, <2>1
<1>6. Tail0(c, a) = q
  BY <1>5, SeqEqual DEF Paths
<1>7. q # << >> => c # a
  BY <1>1, <1>2, <1>3, LenType
<1> QED
  BY <1>1, <1>4, <1>6, <1>7 DEF c

(* Where a path is cut does not matter. *)
LEMMA ConcatAssoc ==
  ASSUME NEW a \in Paths, NEW b \in Paths, NEW c \in Paths
  PROVE  (a \o b) \o c = a \o (b \o c)
BY ConcatAssociative DEF Paths

(* A cut and two cuts of one path.  The equations are operators, so that the      *)
(* provers do not rewrite with them for ever.                                     *)
SameCut(a, b, c) == (a \o b) \o c = a \o (b \o c)
SameCuts(a, b, c, d) == (a \o b) \o (c \o d) = a \o ((b \o c) \o d)

(* Where a path is cut does not matter, said with SameCut. *)
LEMMA ConcatThree ==
  ASSUME NEW a \in Paths, NEW b \in Paths, NEW c \in Paths
  PROVE  SameCut(a, b, c)
BY ConcatAssoc DEF SameCut

(* Nor does it matter where two cuts are made. *)
LEMMA ConcatFour ==
  ASSUME NEW a \in Paths, NEW b \in Paths, NEW c \in Paths, NEW d \in Paths
  PROVE  SameCuts(a, b, c, d)
<1> DEFINE e == c \o d
<1>1. e \in Paths
  BY ConcatType
<1>2. SameCut(b, c, d)
  BY ConcatThree
<1>3. (b \o c) \o d = b \o e
  BY <1>2 DEF SameCut
<1> HIDE DEF e
<1>4. SameCut(a, b, e)
  BY <1>1, ConcatThree
<1>5. (a \o b) \o e = a \o (b \o e)
  BY <1>4 DEF SameCut
<1> QED
  BY <1>3, <1>5 DEF e, SameCuts

(* A prefix of a prefix is a prefix. *)
LEMMA PrefixTrans ==
  ASSUME NEW a \in Paths, NEW b \in Paths, NEW c \in Paths, IsPrefix(a, b), IsPrefix(b, c)
  PROVE  IsPrefix(a, c)
BY PrefixElements DEF Paths

(* A path is a prefix of itself, and the root of every path. *)
LEMMA PrefixSelf ==
  ASSUME NEW a \in Paths PROVE IsPrefix(a, a) /\ IsPrefix(<< >>, a) /\ << >> \in Paths
<1>1. << >> \in Paths /\ Len(<< >>) = 0 /\ Len(a) \in Nat
  BY DEF Paths
<1> QED
  BY <1>1, PrefixElements

(* Two prefixes of a path are one above the other. *)
LEMMA PrefixCompare ==
  ASSUME NEW a \in Paths, NEW b \in Paths, NEW c \in Paths, IsPrefix(a, c), IsPrefix(b, c)
  PROVE  IsPrefix(a, b) \/ IsPrefix(b, a)
<1>1. Len(a) \in Nat /\ Len(b) \in Nat
  BY DEF Paths
<1> QED
  BY <1>1, PrefixElements

(* A prefix of full length is the path. *)
LEMMA PrefixEqual ==
  ASSUME NEW a \in Paths, NEW b \in Paths, IsPrefix(a, b), Len(a) = Len(b)
  PROVE  a = b
BY PrefixElements, SeqEqual DEF Paths

(* Of a path strictly above another something is left. *)
LEMMA StrictPrefixLess ==
  ASSUME NEW a \in Paths, NEW b \in Paths, IsStrictPrefix(a, b)
  PROVE  IsPrefix(a, b) /\ Len(a) < Len(b) /\ Tail0(b, a) # << >>
<1>1. IsPrefix(a, b) /\ a # b
  BY DEF IsStrictPrefix
<1>2. Len(a) <= Len(b) /\ Len(a) # Len(b)
  BY <1>1, PrefixElements, PrefixEqual
<1>3. Len(a) < Len(b) /\ Len(Tail0(b, a)) > 0
  BY <1>2, Tail0Type DEF Paths
<1> QED
  BY <1>1, <1>3

(* The steps of a path are its prefixes but the root. *)
LEMMA StepsType ==
  ASSUME NEW p \in Paths
  PROVE  /\ \A q \in Steps(p) : q \in Paths /\ q # << >> /\ IsPrefix(q, p) /\ Len(q) <= Len(p)
         /\ \A q \in Paths : IsPrefix(q, p) /\ q # << >> => q \in Steps(p)
<1>1. ASSUME NEW n \in 1..Len(p)
      PROVE  /\ SubSeq(p, 1, n) \in Paths /\ Len(SubSeq(p, 1, n)) = n
             /\ IsPrefix(SubSeq(p, 1, n), p)
  <2> DEFINE q == SubSeq(p, 1, n)
  <2>1. q \in Paths /\ Len(q) = n
    BY DEF Paths
  <2>2. \A i \in 1..n : q[i] = p[i]
    BY DEF Paths
  <2> HIDE DEF q
  <2>3. IsPrefix(q, p)
    BY <2>1, <2>2, PrefixElements, LenType
  <2> QED
    BY <2>1, <2>3 DEF q
<1>2. Len(p) \in Nat
  BY DEF Paths
<1>3. ASSUME NEW q \in Paths, IsPrefix(q, p), q # << >> PROVE q \in Steps(p)
  <2>1. Len(q) \in 1..Len(p)
    BY <1>3, PrefixElements DEF Paths
  <2>2. SubSeq(p, 1, Len(q)) = SubSeq(q, 1, Len(q)) /\ SubSeq(q, 1, Len(q)) = q
    BY <1>3 DEF IsPrefix, Paths
  <2> QED
    BY <2>1, <2>2 DEF Steps
<1>4. ASSUME NEW q \in Steps(p)
      PROVE  q \in Paths /\ q # << >> /\ IsPrefix(q, p) /\ Len(q) <= Len(p)
  <2>1. PICK n \in 1..Len(p) : q = SubSeq(p, 1, n)
    BY DEF Steps
  <2>2. q # << >>
    BY <1>1, <1>2, <2>1
  <2> QED
    BY <1>1, <1>2, <2>1, <2>2
<1> QED
  BY <1>3, <1>4

(* The deepest of some paths of bounded length is one of them. *)
LEMMA DeepestType ==
  ASSUME NEW S \in SUBSET Paths, S # {}, NEW b \in Nat, \A p \in S : Len(p) <= b
  PROVE  Deepest(S) \in S /\ \A q \in S : Len(q) <= Len(Deepest(S))
<1> DEFINE N == {Len(p) : p \in S}
<1>1. N \in SUBSET Nat /\ N # {} /\ \A n \in N : n <= b
  BY LenType
<1>2. PICK n \in N : \A m \in N : m <= n
  BY <1>1, Greatest
<1>3. PICK p \in S : n = Len(p)
  BY <1>2
<1>4. \A q \in S : Len(q) <= Len(p)
  BY <1>2, <1>3
<1> QED
  BY <1>4 DEF Deepest

-----------------------------------------------------------------------------
(* The order of sources *)

(* Two paths agree before the n-th component. *)
Agree(a, b, n) == \A i \in 1..(n - 1) : a[i] = b[i]

(* Agreement is what RelBefore says with SubSeq. *)
LEMMA AgreeIsSubSeq ==
  ASSUME NEW a \in Paths, NEW b \in Paths, NEW n \in 1..Len(a), n <= Len(b)
  PROVE  SubSeq(a, 1, n - 1) = SubSeq(b, 1, n - 1) <=> Agree(a, b, n)
<1> DEFINE c == SubSeq(a, 1, n - 1)
           d == SubSeq(b, 1, n - 1)
<1>1. c \in Seq(Names) /\ Len(c) = n - 1 /\ \A i \in 1..(n - 1) : c[i] = a[i]
  BY DEF Paths
<1>2. d \in Seq(Names) /\ Len(d) = n - 1 /\ \A i \in 1..(n - 1) : d[i] = b[i]
  BY DEF Paths
<1> HIDE DEF c, d
<1>3. Agree(a, b, n) => c = d
  BY <1>1, <1>2, SeqEqual DEF Agree
<1>4. c = d => Agree(a, b, n)
  BY <1>1, <1>2 DEF Agree
<1> QED
  BY <1>3, <1>4 DEF c, d

(* RelBefore by elements: the order of PathBuf that MountTree::insert sorts by. *)
LEMMA RelBeforeElements ==
  ASSUME NEW a \in Paths, NEW b \in Paths
  PROVE  RelBefore(a, b) <=>
           \/ Len(a) < Len(b) /\ Agree(a, b, Len(a) + 1)
           \/ \E n \in 1..Len(a) : n <= Len(b) /\ Agree(a, b, n) /\ NameRank[a[n]] < NameRank[b[n]]
<1>1. Len(a) \in Nat /\ Len(b) \in Nat
  BY LenType
<1>2. IsStrictPrefix(a, b) <=> Len(a) < Len(b) /\ Agree(a, b, Len(a) + 1)
  <2>1. IsStrictPrefix(a, b) => Len(a) < Len(b)
    BY StrictPrefixLess
  <2>2. Len(a) < Len(b) => a # b
    BY <1>1
  <2>3. IsPrefix(a, b) <=> Len(a) <= Len(b) /\ \A i \in 1..Len(a) : a[i] = b[i]
    BY PrefixElements
  <2> QED
    BY <1>1, <2>1, <2>2, <2>3 DEF Agree, IsStrictPrefix
<1> QED
  BY <1>2, AgreeIsSubSeq DEF RelBefore

(* Names have ranks, each its own. *)
LEMMA RankType ==
  /\ \A a \in Paths : \A n \in 1..Len(a) : a[n] \in Names
  /\ \A m, n \in Names : NameRank[m] \in Nat /\ (NameRank[m] = NameRank[n] => m = n)
BY NameRankAssumption DEF Paths

(* RelBefore is a strict total order of paths. *)
LEMMA RelBeforeOrders ==
  /\ \A a \in Paths : ~RelBefore(a, a)
  /\ \A a, b, c \in Paths : RelBefore(a, b) /\ RelBefore(b, c) => RelBefore(a, c)
  /\ \A a, b \in Paths : a # b => RelBefore(a, b) \/ RelBefore(b, a)
<1>1. ASSUME NEW a \in Paths PROVE ~RelBefore(a, a)
  BY RelBeforeElements, RankType, LenType
<1>2. ASSUME NEW a \in Paths, NEW b \in Paths, NEW c \in Paths, RelBefore(a, b), RelBefore(b, c)
      PROVE  RelBefore(a, c)
  <2>0. Len(a) \in Nat /\ Len(b) \in Nat /\ Len(c) \in Nat
    BY LenType
  <2>1. CASE Len(a) < Len(b) /\ Agree(a, b, Len(a) + 1)
    <3>1. CASE Len(b) < Len(c) /\ Agree(b, c, Len(b) + 1)
      <4>1. Len(a) < Len(c) /\ Agree(a, c, Len(a) + 1)
        BY <2>0, <2>1, <3>1 DEF Agree
      <4> QED
        BY <4>1, RelBeforeElements
    <3>2. ASSUME NEW n \in 1..Len(b), n <= Len(c), Agree(b, c, n), NameRank[b[n]] < NameRank[c[n]]
          PROVE  RelBefore(a, c)
      <4>1. CASE n <= Len(a)
        <5>1. n \in 1..Len(a) /\ Agree(a, c, n) /\ a[n] = b[n]
          BY <2>0, <2>1, <3>2, <4>1 DEF Agree
        <5> QED
          BY <3>2, <5>1, RelBeforeElements
      <4>2. CASE n > Len(a)
        <5>1. Len(a) < Len(c) /\ Agree(a, c, Len(a) + 1)
          BY <2>0, <2>1, <3>2, <4>2 DEF Agree
        <5> QED
          BY <5>1, RelBeforeElements
      <4> QED
        BY <2>0, <4>1, <4>2
    <3> QED
      BY <1>2, <3>1, <3>2, RelBeforeElements
  <2>2. ASSUME NEW n \in 1..Len(a), n <= Len(b), Agree(a, b, n), NameRank[a[n]] < NameRank[b[n]]
        PROVE  RelBefore(a, c)
    <3>1. CASE Len(b) < Len(c) /\ Agree(b, c, Len(b) + 1)
      <4>1. n <= Len(c) /\ Agree(a, c, n) /\ b[n] = c[n]
        BY <2>0, <2>2, <3>1 DEF Agree
      <4> QED
        BY <2>2, <4>1, RelBeforeElements
    <3>2. ASSUME NEW m \in 1..Len(b), m <= Len(c), Agree(b, c, m), NameRank[b[m]] < NameRank[c[m]]
          PROVE  RelBefore(a, c)
      <4>1. CASE n < m
        <5>1. n <= Len(c) /\ Agree(a, c, n) /\ b[n] = c[n]
          BY <2>0, <2>2, <3>2, <4>1 DEF Agree
        <5> QED
          BY <2>2, <5>1, RelBeforeElements
      <4>2. CASE m < n
        <5>1. m \in 1..Len(a) /\ Agree(a, c, m) /\ a[m] = b[m]
          BY <2>0, <2>2, <3>2, <4>2 DEF Agree
        <5> QED
          BY <3>2, <5>1, RelBeforeElements
      <4>3. CASE m = n
        <5>1. Agree(a, c, n)
          BY <2>0, <2>2, <3>2, <4>3 DEF Agree
        <5>2. a[n] \in Names /\ b[n] \in Names /\ c[n] \in Names
          BY <2>0, <2>2, <3>2, <4>3, RankType
        <5>3. NameRank[a[n]] < NameRank[c[n]]
          BY <2>2, <3>2, <4>3, <5>2, RankType
        <5> QED
          BY <3>2, <4>3, <5>1, <5>3, RelBeforeElements
      <4> QED
        BY <4>1, <4>2, <4>3
    <3> QED
      BY <1>2, <3>1, <3>2, RelBeforeElements
  <2> QED
    BY <1>2, <2>1, <2>2, RelBeforeElements
<1>3. ASSUME NEW a \in Paths, NEW b \in Paths, a # b
      PROVE  RelBefore(a, b) \/ RelBefore(b, a)
  <2>0. Len(a) \in Nat /\ Len(b) \in Nat
    BY LenType
  <2> DEFINE D == {n \in 1..Len(a) : n <= Len(b) /\ a[n] # b[n]}
  <2>1. CASE D = {}
    <3>1. \A i \in 1..Len(a) : i <= Len(b) => a[i] = b[i]
      BY <2>1
    <3>2. Len(a) # Len(b)
      BY <1>3, <2>0, <3>1, SeqEqual DEF Paths
    <3>3. CASE Len(a) < Len(b)
      <4>1. Agree(a, b, Len(a) + 1)
        BY <2>0, <3>1, <3>3 DEF Agree
      <4> QED
        BY <3>3, <4>1, RelBeforeElements
    <3>4. CASE Len(b) < Len(a)
      <4>1. Agree(b, a, Len(b) + 1)
        BY <2>0, <3>1, <3>4 DEF Agree
      <4> QED
        BY <3>4, <4>1, RelBeforeElements
    <3> QED
      BY <2>0, <3>2, <3>3, <3>4
  <2>2. CASE D # {}
    <3>1. D \in SUBSET Nat
      OBVIOUS
    <3>2. PICK n \in D : \A m \in D : n <= m
      <4> HIDE DEF D
      <4> QED BY <2>2, <3>1, Least
    <3>3. Agree(a, b, n) /\ Agree(b, a, n)
      BY <2>0, <3>2 DEF Agree
    <3>4. a[n] \in Names /\ b[n] \in Names /\ a[n] # b[n]
      BY <2>0, <3>2, RankType
    <3>5. NameRank[a[n]] < NameRank[b[n]] \/ NameRank[b[n]] < NameRank[a[n]]
      BY <3>4, RankType
    <3>6. n \in 1..Len(a) /\ n \in 1..Len(b)
      BY <2>0, <3>2
    <3> QED
      BY <2>0, <3>3, <3>5, <3>6, RelBeforeElements
  <2> QED
    BY <2>1, <2>2
<1> QED
  BY <1>1, <1>2, <1>3

(* Sources are told apart by their module and their path in it. *)
SourceSet(S) ==
  /\ IsFiniteSet(S)
  /\ \A s \in S : s.mod \in Nat /\ s.rel \in Paths
  /\ \A s, t \in S : s.mod = t.mod /\ s.rel = t.rel => s = t

(* Some of the sources are sources. *)
LEMMA SourceSubset ==
  ASSUME NEW S, SourceSet(S), NEW T \in SUBSET S
  PROVE  SourceSet(T)
BY FS_Subset DEF SourceSet

(* Above is a strict total order of the sources of a node (MountTree::insert). *)
LEMMA AboveOrders ==
  ASSUME NEW S, SourceSet(S)
  PROVE  /\ \A s \in S : ~Above(s, s)
         /\ \A s, t, u \in S : Above(s, t) /\ Above(t, u) => Above(s, u)
         /\ \A s, t \in S : s # t => Above(s, t) \/ Above(t, s)
<1>1. \A s \in S : s.mod \in Nat /\ s.rel \in Paths
  BY DEF SourceSet
<1>2. ASSUME NEW s \in S PROVE ~Above(s, s)
  BY <1>1, RelBeforeOrders DEF Above
<1>3. ASSUME NEW s \in S, NEW t \in S, NEW u \in S, Above(s, t), Above(t, u) PROVE Above(s, u)
  BY <1>1, <1>3, RelBeforeOrders DEF Above
<1>4. ASSUME NEW s \in S, NEW t \in S, s # t PROVE Above(s, t) \/ Above(t, s)
  <2>1. s.mod # t.mod \/ s.rel # t.rel
    BY <1>4 DEF SourceSet
  <2> QED
    BY <1>1, <2>1, RelBeforeOrders DEF Above
<1> QED
  BY <1>2, <1>3, <1>4

(* One source of a node is above all others, and one below. *)
LEMMA TopmostType ==
  ASSUME NEW S, SourceSet(S), S # {}
  PROVE  Topmost(S) \in S /\ \A t \in S \ {Topmost(S)} : Above(Topmost(S), t)
<1> DEFINE R == {p \in S \X S : Above(p[1], p[2])}
<1>1. Orders(R, S)
  BY AboveOrders DEF Orders
<1>2. \A s, t \in S : <<s, t>> \in R <=> Above(s, t)
  OBVIOUS
<1> HIDE DEF R
<1>3. IsFiniteSet(S)
  BY DEF SourceSet
<1>4. PICK s \in S : \A t \in S \ {s} : <<s, t>> \in R
  BY <1>1, <1>3, First
<1>5. \A t \in S \ {s} : Above(s, t)
  BY <1>2, <1>4
<1> QED
  BY <1>5 DEF Topmost

(* The lowest one, that decides for a rule (collect_node of vfs/rule.rs). *)
LEMMA LowestType ==
  ASSUME NEW S, SourceSet(S), S # {}
  PROVE  Lowest(S) \in S /\ \A t \in S \ {Lowest(S)} : Above(t, Lowest(S))
<1> DEFINE R == {p \in S \X S : Above(p[2], p[1])}
<1>1. Orders(R, S)
  BY AboveOrders DEF Orders
<1>2. \A s, t \in S : <<s, t>> \in R <=> Above(t, s)
  OBVIOUS
<1> HIDE DEF R
<1>3. IsFiniteSet(S)
  BY DEF SourceSet
<1>4. PICK s \in S : \A t \in S \ {s} : <<s, t>> \in R
  BY <1>1, <1>3, First
<1>5. \A t \in S \ {s} : Above(t, s)
  BY <1>2, <1>4
<1> QED
  BY <1>5 DEF Lowest

-----------------------------------------------------------------------------
(* Views and layers *)

Kinds == {"dir", "file", "symlink", "nulldev", "other", "whiteout"}
Nodes == [kind : Kinds, opaque : BOOLEAN, from : [mod : Nat, rel : Paths]]
Views == UNION {[D -> Nodes] : D \in SUBSET (Paths \ {<< >>})}

(* The layers that may be put at a path: each node of them is allowed, by G, where
   it comes to lie. *)
Fitting(at, G) == {v \in Views : \A p \in DOMAIN v : <<at \o p, v[p]>> \in G}

(* What overlayfs makes of an opaque directory is allowed as well. *)
Lasting(G) ==
  \A p \in Paths, n \in Nodes : <<p, n>> \in G => <<p, [n EXCEPT !.opaque = FALSE]>> \in G

(* When something is a view. *)
LEMMA ViewIntro ==
  ASSUME NEW v, v = [p \in DOMAIN v |-> v[p]], DOMAIN v \subseteq Paths \ {<< >>},
         \A p \in DOMAIN v : v[p] \in Nodes
  PROVE  v \in Views
<1>1. v \in [DOMAIN v -> Nodes]
  OBVIOUS
<1> QED
  BY <1>1 DEF Views

(* What a view is. *)
LEMMA ViewElim ==
  ASSUME NEW v \in Views
  PROVE  /\ DOMAIN v \subseteq Paths \ {<< >>}
         /\ \A p \in DOMAIN v : v[p] \in Nodes
         /\ v = [p \in DOMAIN v |-> v[p]]
BY DEF Views

(* Fields of a node. *)
LEMMA NodeTypes ==
  /\ Dir \in Nodes
  /\ \A n \in Nodes : [n EXCEPT !.opaque = FALSE] \in Nodes
<1>1. << >> \in Paths
  BY DEF Paths
<1>2. Dir \in Nodes
  <2> DEFINE own == [mod |-> 0, rel |-> << >>]
  <2>1. own \in [mod : Nat, rel : Paths]
    BY <1>1
  <2> HIDE DEF own
  <2> QED
    BY <2>1 DEF Nodes, Dir, own, Kinds
<1>3. ASSUME NEW n \in Nodes PROVE [n EXCEPT !.opaque = FALSE] \in Nodes
  BY DEF Nodes
<1> QED
  BY <1>2, <1>3

(* One overlay mount shows nodes of its layers where the layers have them. *)
LEMMA OverlayOnceFits ==
  ASSUME NEW at \in Paths, NEW G, Lasting(G), NEW stack \in Seq(Fitting(at, G))
  PROVE  OverlayOnce(stack) \in Fitting(at, G)
<1> DEFINE v == OverlayOnce(stack)
           top(p) == stack[Min(Shown(stack, p))][p]
<1>1. Len(stack) \in Nat /\ DOMAIN stack = 1..Len(stack)
  OBVIOUS
<1>2. \A n \in DOMAIN stack : stack[n] \in Fitting(at, G)
  OBVIOUS
<1>3. v = [p \in DOMAIN v |-> v[p]] /\ \A p \in DOMAIN v : v[p] = [top(p) EXCEPT !.opaque = FALSE]
  BY DEF OverlayOnce
<1>4. ASSUME NEW p \in DOMAIN v
      PROVE  /\ p \in Paths \ {<< >>} /\ top(p) \in Nodes /\ <<at \o p, top(p)>> \in G
  <2>1. Shown(stack, p) # {}
    BY DEF OverlayOnce
  <2>2. Shown(stack, p) \in SUBSET Nat
    BY <1>1 DEF Shown
  <2>3. PICK n \in Shown(stack, p) : \A m \in Shown(stack, p) : n <= m
    BY <2>1, <2>2, Least
  <2>4. Min(Shown(stack, p)) \in Shown(stack, p)
    BY <2>3 DEF Min
  <2>5. Min(Shown(stack, p)) \in DOMAIN stack /\ p \in DOMAIN stack[Min(Shown(stack, p))]
    BY <2>4 DEF Shown
  <2> DEFINE l == stack[Min(Shown(stack, p))]
  <2>6. l \in Fitting(at, G) /\ p \in DOMAIN l
    BY <1>2, <2>5
  <2> HIDE DEF l
  <2>7. l \in Views /\ <<at \o p, l[p]>> \in G
    BY <2>6 DEF Fitting
  <2>8. p \in Paths \ {<< >>} /\ l[p] \in Nodes
    BY <2>6, <2>7, ViewElim
  <2> QED
    BY <2>7, <2>8 DEF l
<1> HIDE DEF v, top
<1>5. \A p \in DOMAIN v : v[p] \in Nodes
  BY <1>3, <1>4, NodeTypes
<1>6. v \in Views
  BY <1>3, <1>4, <1>5, ViewIntro
<1>7. ASSUME NEW p \in DOMAIN v PROVE <<at \o p, v[p]>> \in G
  <2>1. at \o p \in Paths
    BY <1>4, ConcatType
  <2> QED
    BY <1>3, <1>4, <2>1 DEF Lasting
<1>8. v \in Fitting(at, G)
  BY <1>6, <1>7 DEF Fitting
<1> QED
  BY <1>8 DEF v

(* The recursion of Collapsed has a solution. *)
LEMMA CollapsedDef ==
  ASSUME NEW stack, NEW N \in Nat
  PROVE  \E g : g = [n \in 0..N |-> IF n = 0 THEN stack ELSE CollapseStep(g[n - 1])]
<1> DEFINE Is(g, k) == g = [n \in 0..k |-> IF n = 0 THEN stack ELSE CollapseStep(g[n - 1])]
           T == {k \in Nat : ~\E g : Is(g, k)}
<1>1. SUFFICES T = {}
  OBVIOUS
<1>2. SUFFICES ASSUME T # {} PROVE FALSE
  OBVIOUS
<1>3. PICK k \in T : \A m \in T : k <= m
  <2>1. T \in SUBSET Nat
    OBVIOUS
  <2> HIDE DEF T
  <2> QED BY <1>2, <2>1, Least
<1>4. CASE k = 0
  <2>1. Is([n \in 0..0 |-> stack], 0)
    OBVIOUS
  <2> QED
    BY <1>3, <1>4, <2>1
<1>5. CASE k # 0
  <2>1. k - 1 \in Nat /\ k - 1 \notin T
    BY <1>3, <1>5
  <2>2. PICK g : Is(g, k - 1)
    BY <2>1
  <2> DEFINE h == [n \in 0..k |-> IF n = k THEN CollapseStep(g[k - 1]) ELSE g[n]]
  <2>3. ASSUME NEW n \in 0..k
        PROVE  h[n] = IF n = 0 THEN stack ELSE CollapseStep(h[n - 1])
    <3>1. CASE n = k
      BY <1>3, <1>5, <3>1
    <3>2. CASE n # k
      <4>1. n \in 0..(k - 1) /\ h[n] = g[n]
        BY <1>3, <3>2
      <4>2. g[n] = IF n = 0 THEN stack ELSE CollapseStep(g[n - 1])
        BY <2>2, <4>1
      <4>3. n # 0 => h[n - 1] = g[n - 1]
        BY <1>3, <4>1
      <4> QED
        BY <4>1, <4>2, <4>3
    <3> QED
      BY <3>1, <3>2
  <2>4. Is(h, k)
    <3>1. h = [n \in 0..k |-> h[n]]
      OBVIOUS
    <3> HIDE DEF h
    <3> QED
      BY <2>3, <3>1
  <2> QED
    BY <1>3, <2>4
<1> QED
  BY <1>4, <1>5

(* Layers that were stacked first are layers like the others. *)
LEMMA CollapsedFits ==
  ASSUME NEW X, \A s \in Seq(X) : OverlayOnce(s) \in X, NEW stack \in Seq(X)
  PROVE  Collapsed(stack) \in Seq(X)
<1> DEFINE N == Len(stack)
           f == CHOOSE g : g = [n \in 0..N |-> IF n = 0 THEN stack ELSE CollapseStep(g[n - 1])]
<1>1. N \in Nat
  OBVIOUS
<1>2. Collapsed(stack) = f[N]
  BY DEF Collapsed
<1>3. f = [n \in 0..N |-> IF n = 0 THEN stack ELSE CollapseStep(f[n - 1])]
  BY <1>1, CollapsedDef
<1>4. ASSUME NEW s \in Seq(X) PROVE CollapseStep(s) \in Seq(X)
  <2>1. CASE Len(s) <= MaxLayers
    BY <2>1 DEF CollapseStep
  <2>2. CASE ~(Len(s) <= MaxLayers)
    <3> DEFINE split == Len(s) - (MaxLayers - 1)
    <3>1. split \in 1..Len(s)
      BY <2>2, MaxLayersAssumption
    <3>2. SubSeq(s, 1, split) \in Seq(X) /\ SubSeq(s, split + 1, Len(s)) \in Seq(X)
      BY <3>1
    <3>3. CollapseStep(s) = Append(SubSeq(s, 1, split), OverlayOnce(SubSeq(s, split + 1, Len(s))))
      BY <2>2 DEF CollapseStep
    <3> DEFINE low == OverlayOnce(SubSeq(s, split + 1, Len(s)))
               high == SubSeq(s, 1, split)
    <3>4. low \in X
      BY <3>2
    <3> HIDE DEF split, low
    <3>5. high \in Seq(X)
      BY <3>2
    <3> HIDE DEF high
    <3>6. Append(high, low) \in Seq(X)
      BY <3>4, <3>5
    <3> QED
      BY <3>3, <3>6 DEF high, low
  <2> QED
    BY <2>1, <2>2
<1> HIDE DEF f, N
<1> DEFINE T == {n \in 0..N : f[n] \notin Seq(X)}
<1>5. T = {}
  <2>1. SUFFICES ASSUME T # {} PROVE FALSE
    OBVIOUS
  <2>2. T \in SUBSET Nat
    OBVIOUS
  <2>3. PICK n \in T : \A m \in T : n <= m
    <3> HIDE DEF T
    <3> QED BY <2>1, <2>2, Least
  <2>4. n # 0
    BY <1>3, <2>3
  <2>5. n - 1 \in 0..N /\ f[n - 1] \in Seq(X)
    BY <1>1, <2>3, <2>4
  <2>6. f[n] = CollapseStep(f[n - 1])
    BY <1>3, <2>3, <2>4
  <2> QED
    BY <1>4, <2>3, <2>5, <2>6
<1> QED
  BY <1>1, <1>2, <1>5

(* A whole overlay mount, after its surplus layers were stacked (mount_overlayfs). *)
LEMMA OverlayFits ==
  ASSUME NEW at \in Paths, NEW G, Lasting(G), NEW layers \in Seq(Fitting(at, G)),
         NEW lowest \in Fitting(at, G)
  PROVE  Overlay(layers, lowest) \in Fitting(at, G)
<1> DEFINE X == Fitting(at, G)
<1>1. \A s \in Seq(X) : OverlayOnce(s) \in X
  BY OverlayOnceFits
<1>2. Append(layers, lowest) \in Seq(X)
  OBVIOUS
<1> HIDE DEF X
<1>3. Collapsed(Append(layers, lowest)) \in Seq(X)
  BY <1>1, <1>2, CollapsedFits
<1> QED
  BY <1>1, <1>3 DEF Overlay, X

(* A part of a layer, from further down. *)
LEMMA PartFits ==
  ASSUME NEW at \in Paths, NEW step \in Paths, NEW G, NEW v \in Fitting(at, G)
  PROVE  Part(v, step) \in Fitting(at \o step, G)
<1> DEFINE w == Part(v, step)
<1>1. v \in Views /\ \A p \in DOMAIN v : p \in Paths /\ v[p] \in Nodes /\ <<at \o p, v[p]>> \in G
  BY ViewElim DEF Fitting
<1>2. w = [p \in DOMAIN w |-> w[p]] /\ \A p \in DOMAIN w : w[p] = v[step \o p]
  BY DEF Part
<1>3. DOMAIN w = {Tail0(q, step) : q \in {r \in DOMAIN v : IsStrictPrefix(step, r)}}
  BY DEF Part
<1>4. ASSUME NEW p \in DOMAIN w PROVE p \in Paths \ {<< >>} /\ step \o p \in DOMAIN v
  <2>1. PICK q \in DOMAIN v : IsStrictPrefix(step, q) /\ p = Tail0(q, step)
    BY <1>3
  <2>2. q \in Paths /\ IsPrefix(step, q)
    BY <1>1, <2>1 DEF IsStrictPrefix
  <2> QED
    BY <2>1, <2>2, PrefixSplit, StrictPrefixLess
<1> HIDE DEF w
<1>5. w \in Views
  BY <1>1, <1>2, <1>4, ViewIntro
<1>6. ASSUME NEW p \in DOMAIN w PROVE <<(at \o step) \o p, w[p]>> \in G
  <2>1. (at \o step) \o p = at \o (step \o p)
    BY <1>4, ConcatAssoc
  <2> QED
    BY <1>1, <1>2, <1>4, <2>1
<1>7. w \in Fitting(at \o step, G)
  BY <1>5, <1>6 DEF Fitting
<1> QED
  BY <1>7 DEF w

(* The order of some indices. *)
LEMMA NatOrder ==
  ASSUME NEW n \in Nat, NEW S \in SUBSET (1..n)
  PROVE  IsFiniteSet(S) /\ Orders({p \in S \X S : p[1] < p[2]}, S)
<1>1. IsFiniteSet(S)
  <2>1. 1 \in Int /\ n \in Int
    OBVIOUS
  <2>2. IsFiniteSet(1..n)
    BY <2>1, FS_Interval
  <2> QED
    BY <2>2, FS_Subset
<1>2. S \subseteq Nat
  OBVIOUS
<1>3. Orders({p \in S \X S : p[1] < p[2]}, S)
  BY <1>2 DEF Orders
<1> QED
  BY <1>1, <1>3

(* The layers that reach a directory further down (prepare_overlay_view). *)
LEMMA ReachingFits ==
  ASSUME NEW at \in Paths, NEW step \in Paths, NEW G, NEW layers \in Seq(Fitting(at, G))
  PROVE  Reaching(layers, step) \in Seq(Fitting(at \o step, G))
<1> DEFINE some == {n \in DOMAIN layers : DOMAIN Part(layers[n], step) # {}}
           nth == Ordered(some, {p \in some \X some : p[1] < p[2]})
           F == Fitting(at \o step, G)
<1>1. some \in SUBSET (1..Len(layers)) /\ Len(layers) \in Nat
  OBVIOUS
<1>2. IsFiniteSet(some) /\ Orders({p \in some \X some : p[1] < p[2]}, some)
  BY <1>1, NatOrder
<1>3. nth \in Seq(some)
  <2> HIDE DEF some
  <2> QED BY <1>2, OrderedSeq
<1>4. \A n \in some : Part(layers[n], step) \in F
  BY PartFits
<1>5. Reaching(layers, step) = [k \in DOMAIN nth |-> Part(layers[nth[k]], step)]
  BY DEF Reaching
<1> HIDE DEF some, nth, F
<1>6. Reaching(layers, step) \in [1..Len(nth) -> F] /\ Len(nth) \in Nat
  BY <1>3, <1>4, <1>5
<1> QED
  BY <1>6 DEF F

(* Nothing is left of the root. *)
LEMMA EmptyConcat == \A p \in Paths : << >> \o p = p /\ p \o << >> = p
BY DEF Paths

(* One overlay mount shows nodes of its layers and of what was there. *)
LEMMA OverlaidFits ==
  ASSUME NEW at \in Paths, NEW G, Lasting(G), NEW layers \in Seq(Fitting(at, G)),
         NEW points \in SUBSET Paths, NEW seen \in Fitting(<< >>, G),
         ChildrenSurvive(layers, at, points, seen)
  PROVE  Overlaid(layers, at, points, seen) \in Fitting(<< >>, G)
<1> DEFINE merged == [c \in {at} \cup Within(at, points) |->
                        Overlay(Reaching(layers, Tail0(c, at)), Part(seen, c))]
           below(c) == {c \o p : p \in DOMAIN merged[c]}
           holder(p) == Holder(at, points, p)
           shown == UNION {{p \in below(c) : holder(p) = c} : c \in DOMAIN merged}
           kept == {p \in DOMAIN seen : ~IsStrictPrefix(at, p)}
           v == Overlaid(layers, at, points, seen)
<1>1. ASSUME NEW c \in {at} \cup Within(at, points)
      PROVE  c \in Paths /\ merged[c] \in Fitting(c, G)
  <2>1. c \in Paths /\ IsPrefix(at, c)
    BY PrefixSelf DEF Within, IsStrictPrefix
  <2>2. Tail0(c, at) \in Paths /\ c = at \o Tail0(c, at)
    BY <2>1, PrefixSplit
  <2>3. Reaching(layers, Tail0(c, at)) \in Seq(Fitting(c, G))
    BY <2>2, ReachingFits
  <2>4. Part(seen, c) \in Fitting(c, G)
    BY <2>1, PartFits, PrefixSelf, EmptyConcat
  <2>5. Overlay(Reaching(layers, Tail0(c, at)), Part(seen, c)) \in Fitting(c, G)
    BY <2>1, <2>3, <2>4, OverlayFits
  <2> QED
    BY <2>1, <2>5
<1>2. v = [p \in kept \cup shown |->
             IF p \in kept \/ p \in points THEN seen[p]
             ELSE merged[holder(p)][Tail0(p, holder(p))]]
  BY DEF Overlaid
<1>3. DOMAIN merged = {at} \cup Within(at, points)
  OBVIOUS
<1>4. seen \in Views /\ \A p \in DOMAIN seen : <<p, seen[p]>> \in G
  <2>1. seen \in Views /\ \A p \in DOMAIN seen : <<<< >> \o p, seen[p]>> \in G
    BY DEF Fitting
  <2> QED
    BY <2>1, EmptyConcat, ViewElim
<1> HIDE DEF merged, holder
<1>5. ASSUME NEW p \in shown
      PROVE  /\ p \in Paths \ {<< >>}
             /\ p \in points => p \in DOMAIN seen
             /\ merged[holder(p)][Tail0(p, holder(p))] \in Nodes
             /\ <<p, merged[holder(p)][Tail0(p, holder(p))]>> \in G
  <2>0. PICK c \in DOMAIN merged : p \in below(c) /\ holder(p) = c
    OBVIOUS
  <2>1. PICK q \in DOMAIN merged[c] : p = c \o q /\ holder(p) = c
    BY <2>0
  <2>2. c \in Paths /\ merged[c] \in Fitting(c, G)
    BY <1>1, <1>3, <2>1
  <2>3. q \in Paths \ {<< >>} /\ merged[c][q] \in Nodes /\ <<c \o q, merged[c][q]>> \in G
    BY <2>2, ViewElim DEF Fitting
  <2>4. p \in Paths /\ IsPrefix(c, p) /\ Tail0(p, c) = q /\ p # c
    BY <2>1, <2>2, <2>3, PrefixConcat
  <2>5. p # << >> /\ IsStrictPrefix(at, p)
    <3>1. IsPrefix(at, c) /\ << >> \in Paths /\ IsPrefix(<< >>, c)
      BY <1>3, <2>1, <2>2, PrefixSelf DEF Within, IsStrictPrefix
    <3>2. IsPrefix(at, p)
      BY <2>2, <2>4, <3>1, PrefixTrans
    <3>3. Len(c) < Len(p) /\ Len(at) <= Len(c) /\ Len(<< >>) <= Len(c)
      BY <2>2, <2>4, <3>1, StrictPrefixLess, PrefixElements DEF IsStrictPrefix
    <3>4. at # p /\ << >> # p
      BY <3>3, LenType, <2>2, <2>4
    <3> QED
      BY <3>2, <3>4 DEF IsStrictPrefix
  <2>6. p \in points => p \in DOMAIN seen
    BY <2>5 DEF ChildrenSurvive, Within
  <2> QED
    BY <2>1, <2>3, <2>4, <2>5, <2>6
<1>6. ASSUME NEW p \in kept \cup shown
      PROVE  p \in Paths \ {<< >>} /\ v[p] \in Nodes /\ <<p, v[p]>> \in G
  <2>1. CASE p \in kept \/ p \in points
    <3>1. p \in DOMAIN seen /\ v[p] = seen[p]
      BY <1>2, <1>5, <2>1
    <3> QED
      BY <1>4, <3>1, ViewElim
  <2>2. CASE ~(p \in kept \/ p \in points)
    <3>1. p \in shown /\ v[p] = merged[holder(p)][Tail0(p, holder(p))]
      BY <1>2, <2>2
    <3> HIDE DEF shown
    <3> QED
      BY <1>5, <3>1
  <2> QED
    BY <2>1, <2>2
<1>7. DOMAIN v = kept \cup shown /\ v = [p \in DOMAIN v |-> v[p]]
  BY <1>2
<1> HIDE DEF v, kept, shown
<1>8. v \in Views
  BY <1>6, <1>7, ViewIntro
<1>9. \A p \in DOMAIN v : <<<< >> \o p, v[p]>> \in G
  BY <1>6, <1>7, EmptyConcat
<1>10. v \in Fitting(<< >>, G)
  BY <1>8, <1>9 DEF Fitting
<1> QED
  BY <1>10 DEF v

-----------------------------------------------------------------------------
(* Layers of a plan *)

(* A tree of sources. *)
Tree(T) ==
  /\ SourceSet(T)
  /\ \A s \in T : s.target \in Paths /\ s.type \in Kinds /\ s.replace \in BOOLEAN

(* The node of a source. *)
LEMMA SourceNodeType ==
  ASSUME NEW T, Tree(T), NEW s \in T
  PROVE  SourceNode(s) \in Nodes
<1>1. s.mod \in Nat /\ s.rel \in Paths /\ s.type \in Kinds
  BY DEF Tree, SourceSet
<1>2. (s.replace /\ s.type = "dir") \in BOOLEAN
  OBVIOUS
<1> DEFINE b == s.replace /\ s.type = "dir"
           own == [mod |-> s.mod, rel |-> s.rel]
<1>3. b \in BOOLEAN /\ own \in [mod : Nat, rel : Paths]
  BY <1>1, <1>2
<1>4. SourceNode(s) = [kind |-> s.type, opaque |-> b, from |-> own]
  BY DEF SourceNode
<1> HIDE DEF b, own
<1> QED
  BY <1>1, <1>3, <1>4 DEF Nodes

(* Directories that only lead somewhere are allowed everywhere. *)
Leading(G) == \A p \in Paths : <<p, Dir>> \in G

(* A layer has the sources of its module where it is put. *)
LEMMA LayerFits ==
  ASSUME NEW T, Tree(T), NEW mod, NEW rel \in Paths, NEW dest \in Paths, NEW at \in Paths,
         NEW G, Leading(G),
         \A s \in Of(T, "overlay") :
           s.mod = mod /\ IsPrefix(rel, s.rel) =>
             <<at \o (dest \o Tail0(s.rel, rel)), SourceNode(s)>> \in G
  PROVE  Layer(T, mod, rel, dest) \in Fitting(at, G)
<1> DEFINE own == {s \in Of(T, "overlay") : s.mod = mod /\ IsPrefix(rel, s.rel)}
           put(s) == dest \o Tail0(s.rel, rel)
           paths == (UNION {Steps(put(s)) : s \in own}) \cup Steps(dest)
           v == Layer(T, mod, rel, dest)
<1>1. v = [p \in paths |-> IF \E s \in own : put(s) = p
                           THEN SourceNode(CHOOSE s \in own : put(s) = p) ELSE Dir]
  BY DEF Layer
<1>2. ASSUME NEW s \in own
      PROVE  s \in T /\ put(s) \in Paths /\ <<at \o put(s), SourceNode(s)>> \in G
  <2>1. s \in T /\ s.rel \in Paths /\ IsPrefix(rel, s.rel)
    BY DEF Of, Tree, SourceSet
  <2>2. Tail0(s.rel, rel) \in Paths
    BY <2>1, PrefixSplit
  <2>3. put(s) \in Paths
    BY <2>2, ConcatType
  <2> QED
    BY <2>1, <2>3
<1> HIDE DEF own, put
<1>3. ASSUME NEW p \in paths PROVE p \in Paths \ {<< >>}
  <2>1. \A s \in own : put(s) \in Paths
    BY <1>2
  <2>2. \A q \in Paths : \A r \in Steps(q) : r \in Paths \ {<< >>}
    BY StepsType
  <2>3. CASE p \in Steps(dest)
    BY <2>2, <2>3
  <2>4. CASE p \notin Steps(dest)
    <3>1. PICK s \in own : p \in Steps(put(s))
      BY <2>4
    <3> QED
      BY <2>1, <2>2, <3>1
  <2> QED
    BY <2>3, <2>4
<1>4. ASSUME NEW p \in paths PROVE v[p] \in Nodes /\ <<at \o p, v[p]>> \in G
  <2>1. CASE \E s \in own : put(s) = p
    <3> DEFINE s == CHOOSE t \in own : put(t) = p
    <3>1. s \in own /\ put(s) = p
      BY <2>1
    <3>2. v[p] = SourceNode(s)
      BY <1>1, <2>1
    <3> HIDE DEF s
    <3> QED
      BY <1>2, <3>1, <3>2, SourceNodeType
  <2>2. CASE ~\E s \in own : put(s) = p
    <3>1. v[p] = Dir
      BY <1>1, <2>2
    <3>2. at \o p \in Paths
      BY <1>3, ConcatType
    <3> QED
      BY <3>1, <3>2, NodeTypes DEF Leading
  <2> QED
    BY <2>1, <2>2
<1>5. DOMAIN v = paths /\ v = [p \in DOMAIN v |-> v[p]]
  BY <1>1
<1> HIDE DEF v, paths
<1>6. v \in Views
  BY <1>3, <1>4, <1>5, ViewIntro
<1>7. v \in Fitting(at, G)
  BY <1>4, <1>5, <1>6 DEF Fitting
<1> QED
  BY <1>7 DEF v

(* The layers of one mount, in their order. *)
LEMMA DirectLayersType ==
  ASSUME NEW pl, NEW target, IsFiniteSet(pl.layers), NEW X,
         \A l \in pl.layers : l.mod \in Nat,
         \A l, k \in pl.layers : l.target = k.target /\ l.mod = k.mod => l = k,
         \A l \in pl.layers :
           l.target = target => Layer(pl.tree, l.mod, l.rel, << >>) \in X
  PROVE  DirectLayers(pl, target) \in Seq(X)
<1> DEFINE own == {l \in pl.layers : l.target = target}
           R == {p \in own \X own : p[1].mod < p[2].mod}
           nth == Ordered(own, R)
<1>1. IsFiniteSet(own)
  BY FS_Subset
<1>2. Orders(R, own)
  <2>1. \A l \in own : l.mod \in Nat
    OBVIOUS
  <2>2. \A l, k \in own : l # k => l.mod # k.mod
    OBVIOUS
  <2> HIDE DEF own
  <2>3. \A l, k \in own : <<l, k>> \in R <=> l.mod < k.mod
    OBVIOUS
  <2> HIDE DEF R
  <2> QED
    BY <2>1, <2>2, <2>3 DEF Orders
<1>3. nth \in Seq(own)
  <2> HIDE DEF own, R
  <2> QED BY <1>1, <1>2, OrderedSeq
<1>4. \A l \in own : Layer(pl.tree, l.mod, l.rel, << >>) \in X
  OBVIOUS
<1>5. DirectLayers(pl, target) = [n \in DOMAIN nth |-> Layer(pl.tree, nth[n].mod, nth[n].rel, << >>)]
  BY DEF DirectLayers
<1> HIDE DEF own, nth
<1>6. DirectLayers(pl, target) \in [1..Len(nth) -> X] /\ Len(nth) \in Nat
  BY <1>3, <1>4, <1>5
<1> QED
  BY <1>6

EntrySet(E) ==
  /\ IsFiniteSet(E)
  /\ \A e \in E : e.mod \in Nat /\ e.rel \in Paths /\ e.dest \in Paths
  /\ \A e, f \in E : e.mod = f.mod /\ e.rel = f.rel /\ e.dest = f.dest => e = f

(* The order in which single overlay sources are copied is total. *)
LEMMA CopiedOrders ==
  ASSUME NEW E, EntrySet(E)
  PROVE  Orders({p \in E \X E : Copied(p[1], p[2])}, E)
<1> DEFINE R == {p \in E \X E : Copied(p[1], p[2])}
<1>1. \A e \in E : e.mod \in Nat /\ e.rel \in Paths /\ e.dest \in Paths
  BY DEF EntrySet
<1>2. ASSUME NEW e \in E PROVE ~Copied(e, e)
  BY <1>1, RelBeforeOrders DEF Copied, Above
<1>3. ASSUME NEW e \in E, NEW f \in E, NEW g \in E, Copied(e, f), Copied(f, g) PROVE Copied(e, g)
  BY <1>1, <1>3, RelBeforeOrders DEF Copied, Above
<1>4. ASSUME NEW e \in E, NEW f \in E, e # f PROVE Copied(e, f) \/ Copied(f, e)
  <2>1. e.mod # f.mod \/ e.rel # f.rel \/ e.dest # f.dest
    BY <1>4 DEF EntrySet
  <2> QED
    BY <1>1, <2>1, RelBeforeOrders DEF Copied, Above
<1>5. \A e, f \in E : <<e, f>> \in R <=> Copied(e, f)
  OBVIOUS
<1> HIDE DEF R
<1>6. Orders(R, E)
  BY <1>2, <1>3, <1>4, <1>5 DEF Orders
<1> QED
  BY <1>6 DEF R

(* The layers of sources that needed a place (prepare_shallow_destination). *)
LEMMA ShallowLayersType ==
  ASSUME NEW pl, NEW E, EntrySet(E), NEW X,
         \A e \in E : Layer(pl.tree, e.mod, e.rel, e.dest) \in X
  PROVE  ShallowLayers(pl, E) \in Seq(X)
<1> DEFINE R == {p \in E \X E : Copied(p[1], p[2])}
           nth == Ordered(E, R)
<1>1. Orders(R, E)
  BY CopiedOrders
<1>2. nth \in Seq(E)
  <2> HIDE DEF R
  <2> QED BY <1>1, OrderedSeq DEF EntrySet
<1>3. ShallowLayers(pl, E) = [n \in DOMAIN nth |-> Layer(pl.tree, nth[n].mod, nth[n].rel, nth[n].dest)]
  BY DEF ShallowLayers
<1> HIDE DEF nth
<1>4. ShallowLayers(pl, E) \in [1..Len(nth) -> X] /\ Len(nth) \in Nat
  BY <1>2, <1>3
<1> QED
  BY <1>4

-----------------------------------------------------------------------------
(* Targets *)

LayoutOk(L) == System \in DOMAIN L.roots /\ \A n \in DOMAIN L.roots : L.roots[n] \in Paths

(* A path belongs to system or to a partition it names. *)
LEMMA PartitionType ==
  ASSUME NEW L, NEW rel \in Paths, rel # << >>
  PROVE  /\ Len(rel) \in Nat /\ Len(rel) > 0 /\ rel[1] \in Names
         /\ LogicalPartition(L, rel) \in Names
         /\ RootLen(L, rel) \in 1..2 /\ RootLen(L, rel) <= Len(rel)
<1>1. Len(rel) \in Nat /\ Len(rel) > 0 /\ \A i \in 1..Len(rel) : rel[i] \in Names
  BY DEF Paths
<1> QED
  BY <1>1 DEF LogicalPartition, RootLen

(* Targets are paths (PartitionLayout::map_target). *)
LEMMA MapTargetType ==
  ASSUME NEW L, LayoutOk(L), NEW rel \in Paths, rel # << >>
  PROVE  MapTarget(L, rel) \in Paths
<1> DEFINE p == LogicalPartition(L, rel)
           root == IF p \in DOMAIN L.roots THEN L.roots[p] ELSE <<p>>
           rest == SubSeq(rel, RootLen(L, rel) + 1, Len(rel))
<1>1. root \in Paths
  <2>1. p \in Names
    BY PartitionType
  <2>2. <<p>> \in Paths
    BY <2>1 DEF Paths
  <2> QED
    BY <2>2 DEF LayoutOk
<1>2. rest \in Paths
  BY PartitionType DEF Paths
<1>3. MapTarget(L, rel) = root \o rest
  BY DEF MapTarget
<1> HIDE DEF root, rest
<1> QED
  BY <1>1, <1>2, <1>3, ConcatType

(* What follows the first k components of a path goes on after a prefix of it. *)
LEMMA SplitRest ==
  ASSUME NEW a \in Paths, NEW b \in Paths, IsPrefix(a, b), NEW k \in Nat, k <= Len(a)
  PROVE  /\ SubSeq(a, k + 1, Len(a)) \in Paths
         /\ SubSeq(b, k + 1, Len(b)) = SubSeq(a, k + 1, Len(a)) \o Tail0(b, a)
<1> DEFINE x == SubSeq(a, k + 1, Len(a))
           y == Tail0(b, a)
           z == SubSeq(b, k + 1, Len(b))
<1>1. Len(a) \in Nat /\ Len(b) \in Nat /\ Len(a) <= Len(b) /\ \A i \in 1..Len(a) : a[i] = b[i]
  BY PrefixElements, LenType
<1>2. x \in Paths /\ Len(x) = Len(a) - k /\ \A i \in 1..(Len(a) - k) : x[i] = a[k + i]
  BY <1>1 DEF Paths
<1>3. y \in Paths /\ Len(y) = Len(b) - Len(a) /\ \A i \in 1..(Len(b) - Len(a)) : y[i] = b[Len(a) + i]
  BY <1>1, Tail0Type
<1>4. z \in Paths /\ Len(z) = Len(b) - k /\ \A i \in 1..(Len(b) - k) : z[i] = b[k + i]
  BY <1>1 DEF Paths
<1> HIDE DEF x, y, z
<1> DEFINE w == x \o y
<1>5. /\ w \in Paths /\ Len(w) = Len(x) + Len(y)
      /\ \A i \in 1..Len(x) : w[i] = x[i]
      /\ \A i \in 1..Len(y) : w[Len(x) + i] = y[i]
  BY <1>2, <1>3, ConcatType
<1> HIDE DEF w
<1>6. Len(w) = Len(z)
  BY <1>1, <1>2, <1>3, <1>4, <1>5
<1>7. ASSUME NEW i \in 1..Len(z) PROVE z[i] = w[i]
  <2>1. z[i] = b[k + i]
    BY <1>4, <1>1
  <2>2. CASE i <= Len(a) - k
    <3>1. i \in 1..Len(x) /\ k + i \in 1..Len(a)
      BY <1>1, <1>2, <2>2
    <3> QED
      BY <1>1, <1>2, <1>5, <2>1, <3>1
  <2>3. CASE ~(i <= Len(a) - k)
    <3> DEFINE j == i - (Len(a) - k)
    <3>1. j \in 1..(Len(b) - Len(a)) /\ i = Len(x) + j /\ k + i = Len(a) + j
      BY <1>1, <1>2, <1>4, <2>3
    <3> HIDE DEF j
    <3>2. w[Len(x) + j] = y[j] /\ y[j] = b[Len(a) + j]
      BY <1>3, <1>5, <3>1
    <3> QED
      BY <2>1, <3>1, <3>2
  <2> QED
    BY <2>2, <2>3
<1>8. w = z
  BY <1>4, <1>5, <1>6, <1>7, SeqEqual DEF Paths
<1> QED
  BY <1>2, <1>8 DEF x, y, z, w

(* Where a path of a module is by its own name below system. *)
ByName(L, rel) == L.roots[System] \o Tail(rel)
Misled(L, rel) == rel[1] = System /\ LogicalPartition(L, rel) # System

(* What is below a path of a module is below its target, unless the path is
   system and what is below belongs to another partition. *)
LEMMA MapExtend ==
  ASSUME NEW L, LayoutOk(L), NEW rel \in Paths, rel # << >>, NEW far \in Paths, IsPrefix(rel, far)
  PROVE  \/ MapTarget(L, far) = MapTarget(L, rel) \o Tail0(far, rel)
         \/ /\ rel = <<System>> /\ Misled(L, far)
            /\ MapTarget(L, rel) \o Tail0(far, rel) = ByName(L, far)
<1> DEFINE p == LogicalPartition(L, rel)
           k == RootLen(L, rel)
           root == IF p \in DOMAIN L.roots THEN L.roots[p] ELSE <<p>>
<1>1. Len(rel) \in Nat /\ Len(rel) > 0 /\ Len(far) \in Nat /\ Len(rel) <= Len(far)
      /\ \A i \in 1..Len(rel) : rel[i] = far[i]
  BY PartitionType, PrefixElements, LenType
<1>2. p \in Names /\ k \in 1..2 /\ k <= Len(rel)
  BY PartitionType
<1>3. root \in Paths
  <2>1. <<p>> \in Paths
    BY <1>2 DEF Paths
  <2> QED
    BY <2>1 DEF LayoutOk
<1>4. CASE LogicalPartition(L, far) = p /\ RootLen(L, far) = k
  <2> DEFINE x == SubSeq(rel, k + 1, Len(rel))
             y == Tail0(far, rel)
  <2>1. x \in Paths /\ SubSeq(far, k + 1, Len(far)) = x \o y
    <3>1. k \in Nat /\ k <= Len(rel)
      BY <1>2
    <3> HIDE DEF k
    <3> QED
      BY <3>1, SplitRest
  <2>2. y \in Paths
    BY PrefixSplit
  <2>3. MapTarget(L, far) = root \o (x \o y) /\ MapTarget(L, rel) = root \o x
    BY <1>4, <2>1 DEF MapTarget
  <2> HIDE DEF x, y, root
  <2>4. (root \o x) \o y = root \o (x \o y)
    BY <1>3, <2>1, <2>2, ConcatAssoc
  <2>5. MapTarget(L, far) = MapTarget(L, rel) \o y
    BY <2>3, <2>4
  <2> QED
    BY <2>5 DEF y
<1>5. CASE ~(LogicalPartition(L, far) = p /\ RootLen(L, far) = k)
  <2>1. Len(rel) = 1 /\ rel[1] = System
    <3>1. CASE Len(rel) > 1
      <4>1. rel[1] = far[1] /\ rel[2] = far[2] /\ Len(far) > 1
        BY <1>1, <3>1
      <4> QED
        BY <1>5, <3>1, <4>1 DEF LogicalPartition, RootLen
    <3>2. CASE rel[1] # System
      <4>1. rel[1] = far[1]
        BY <1>1
      <4> QED
        BY <1>5, <3>2, <4>1 DEF LogicalPartition, RootLen
    <3>3. rel[1] = System
      BY <3>2
    <3>4. Len(rel) = 1
      BY <1>1, <3>1
    <3> QED
      BY <3>3, <3>4
  <2>2. rel = <<System>>
    <3>1. <<System>> \in Paths
      BY NameRankAssumption DEF Paths
    <3> QED
      BY <2>1, <3>1, SeqEqual DEF Paths
  <2>3. p = System /\ k = 1 /\ far[1] = System
    BY <1>1, <2>1 DEF LogicalPartition, RootLen
  <2>4. Misled(L, far)
    BY <1>5, <2>3 DEF Misled, RootLen
  <2>5. MapTarget(L, rel) = L.roots[System]
    <3>1. SubSeq(rel, 1 + 1, Len(rel)) = << >>
      BY <2>1 DEF Paths
    <3>2. MapTarget(L, rel) = root \o << >> /\ root = L.roots[System]
      BY <2>3, <3>1 DEF MapTarget, LayoutOk
    <3> QED
      BY <1>3, <3>2, EmptyConcat
  <2>6. Tail0(far, rel) = Tail(far)
    BY <1>1, <2>1 DEF Tail0, Paths
  <2> QED
    BY <2>2, <2>4, <2>5, <2>6 DEF ByName
<1> QED
  BY <1>4, <1>5

(* What a function makes of a finite set is finite. *)
LEMMA FiniteImage ==
  ASSUME NEW S, IsFiniteSet(S), NEW f, NEW T, \A t \in T : \E s \in S : t = f[s]
  PROVE  IsFiniteSet(T)
<1> DEFINE U == {f[s] : s \in S}
           g == [s \in S |-> f[s]]
<1>1. g \in Surjection(S, U)
  BY DEF Surjection
<1>2. IsFiniteSet(U)
  <2> HIDE DEF U, g
  <2> QED BY <1>1, FS_Surjection
<1>3. T \in SUBSET U
  OBVIOUS
<1> QED
  BY <1>2, <1>3, FS_Subset

-----------------------------------------------------------------------------
(* Modules *)

EntriesOk(E) ==
  /\ IsFiniteSet(E)
  /\ \A e \in E : e.rel \in Paths \ {<< >>} /\ e.type \in Kinds /\ e.replace \in BOOLEAN
  /\ \A e, f \in E : e.rel = f.rel => e = f
  /\ \A e, f \in E : IsStrictPrefix(e.rel, f.rel) => e.type = "dir"
  /\ \A e \in E : Len(e.rel) = 1 /\ e.type # "dir" => e.removed
  /\ \A e \in E : \A n \in 2..Len(e.rel) : \E f \in E : f.rel = SubSeq(e.rel, 1, n)

(* The entries of a scanned tree, each path once (collect_partition_entries). *)
LEMMA EntriesType ==
  ASSUME NEW tree, IsFiniteSet(DOMAIN tree), DOMAIN tree \subseteq Paths \ {<< >>},
         \A p \in DOMAIN tree : tree[p].kind \in NodeKinds /\ tree[p].replace \in BOOLEAN,
         \A p \in DOMAIN tree : \A n \in 1..Len(p) : SubSeq(p, 1, n) \in DOMAIN tree,
         NEW partitions
  PROVE  EntriesOk(Entries(tree, partitions))
<1> DEFINE E == Entries(tree, partitions)
<1>1. ASSUME NEW e \in E
      PROVE  /\ e.rel \in DOMAIN tree /\ e = Entry(tree, e.rel)
             /\ e.rel \in RootEntries(tree, partitions) \cup Walked(tree, partitions)
  <2>1. PICK p \in RootEntries(tree, partitions) \cup Walked(tree, partitions) : e = Entry(tree, p)
    BY DEF Entries
  <2>2. p \in DOMAIN tree
    BY DEF RootEntries, ScanRoots, Walked
  <2>3. e.rel = p
    BY <2>1 DEF Entry
  <2> QED
    BY <2>1, <2>2, <2>3
<1>2. IsFiniteSet(E)
  <2> DEFINE f == [p \in DOMAIN tree |-> Entry(tree, p)]
  <2>1. \A e \in E : \E p \in DOMAIN tree : e = f[p]
    BY <1>1
  <2> HIDE DEF E, f
  <2> QED
    BY <2>1, FiniteImage
<1> HIDE DEF E
<1>3. ASSUME NEW e \in E
      PROVE  e.rel \in Paths \ {<< >>} /\ e.type \in Kinds /\ e.replace \in BOOLEAN
  <2>1. e.rel \in DOMAIN tree /\ e = Entry(tree, e.rel)
    BY <1>1
  <2> DEFINE n == tree[e.rel]
  <2>2. n.kind \in NodeKinds
    BY <2>1
  <2>3. e.type = NodeType(n) /\ e.replace = Replaces(n)
    BY <2>1 DEF Entry
  <2>4. NodeType(n) \in Kinds
    BY <2>2 DEF NodeType, NodeKinds, Kinds
  <2>5. Replaces(n) \in BOOLEAN
    BY DEF Replaces
  <2> QED
    BY <2>1, <2>3, <2>4, <2>5
<1>4. ASSUME NEW e \in E, NEW f \in E, IsStrictPrefix(e.rel, f.rel) PROVE e.type = "dir"
  <2> DEFINE p == e.rel
             q == f.rel
  <2>1. /\ p \in Paths /\ q \in Paths /\ p \in DOMAIN tree /\ e = Entry(tree, p)
        /\ p # << >> /\ q \in RootEntries(tree, partitions) \cup Walked(tree, partitions)
    BY <1>1, <1>3
  <2> HIDE DEF p, q
  <2>2. IsPrefix(p, q) /\ Len(p) < Len(q) /\ Len(p) \in 1..(Len(q) - 1)
    <3>1. IsPrefix(p, q) /\ Len(p) < Len(q)
      BY <1>4, <2>1, StrictPrefixLess DEF p, q
    <3>2. Len(p) \in Nat /\ Len(p) > 0 /\ Len(q) \in Nat
      BY <2>1, LenType DEF Paths
    <3> QED
      BY <3>1, <3>2
  <2>3. q \notin RootEntries(tree, partitions)
    <3> SUFFICES ASSUME q \in RootEntries(tree, partitions) PROVE FALSE
      OBVIOUS
    <3>1. PICK n \in partitions : q = <<n>>
      BY DEF RootEntries, ScanRoots
    <3>2. Len(q) > 1
      BY <2>1, <2>2, LenType
    <3> QED
      BY <3>1, <3>2
  <2>4. tree[SubSeq(q, 1, Len(p))].kind = "dir" /\ ~Removes(tree[SubSeq(q, 1, Len(p))])
    BY <2>1, <2>2, <2>3 DEF Walked
  <2>5. SubSeq(q, 1, Len(p)) = p
    <3>1. SubSeq(p, 1, Len(p)) = p
      BY <2>1 DEF Paths
    <3> QED
      BY <2>2, <3>1 DEF IsPrefix
  <2>6. NodeType(tree[p]) = "dir"
    BY <2>4, <2>5 DEF NodeType, Removes
  <2> QED
    BY <2>1, <2>6 DEF Entry
<1>5. ASSUME NEW e \in E, Len(e.rel) = 1, e.type # "dir" PROVE e.removed
  <2> DEFINE p == e.rel
  <2>1. /\ p \in DOMAIN tree /\ e = Entry(tree, p) /\ Len(p) = 1
        /\ p \in RootEntries(tree, partitions) \cup Walked(tree, partitions)
    BY <1>1, <1>5
  <2> HIDE DEF p
  <2>2. p \in RootEntries(tree, partitions)
    <3>1. \A q \in Walked(tree, partitions) : Len(q) > 1
      BY DEF Walked
    <3>2. ~(Len(p) > 1)
      BY <2>1
    <3> QED
      BY <2>1, <3>1, <3>2
  <2>3. tree[p].kind = "dir"
    BY <2>2 DEF RootEntries, ScanRoots
  <2>4. e.type = NodeType(tree[p]) /\ e.removed = Removes(tree[p])
    BY <2>1 DEF Entry
  <2> QED
    BY <1>5, <2>3, <2>4 DEF NodeType, Removes
<1>6. ASSUME NEW e \in E, NEW n \in 2..Len(e.rel) PROVE \E f \in E : f.rel = SubSeq(e.rel, 1, n)
  <2> DEFINE p == e.rel
             q == SubSeq(p, 1, n)
  <2>1. /\ p \in DOMAIN tree /\ e = Entry(tree, p) /\ p \in Seq(Names) /\ n \in 2..Len(p)
        /\ p \in RootEntries(tree, partitions) \cup Walked(tree, partitions) /\ Len(p) \in Nat
    BY <1>1, <1>3 DEF Paths
  <2>2. p \notin RootEntries(tree, partitions)
    <3> SUFFICES ASSUME p \in RootEntries(tree, partitions) PROVE FALSE
      OBVIOUS
    <3>1. PICK m \in partitions : p = <<m>>
      BY DEF RootEntries, ScanRoots
    <3> HIDE DEF p
    <3> QED
      BY <2>1, <3>1
  <2> HIDE DEF p
  <2>3. /\ p \in Walked(tree, partitions) /\ tree[p].kind # "other" /\ <<p[1]>> \in ScanRoots(tree, partitions)
        /\ \A i \in 1..(Len(p) - 1) :
              tree[SubSeq(p, 1, i)].kind = "dir" /\ ~Removes(tree[SubSeq(p, 1, i)])
    BY <2>1, <2>2 DEF Walked
  <2>4. q \in DOMAIN tree /\ Len(q) = n /\ q[1] = p[1]
    BY <2>1
  <2>5. \A i \in 1..n : SubSeq(q, 1, i) = SubSeq(p, 1, i)
    BY <2>1
  <2>6. tree[q].kind # "other"
    <3>1. CASE n = Len(p)
      <4>1. SubSeq(p, 1, Len(p)) = p
        BY <2>1
      <4>2. q = p
        BY <3>1, <4>1
      <4> QED
        BY <2>3, <4>2
    <3>2. CASE n # Len(p)
      BY <2>1, <2>3, <3>2
    <3> QED
      BY <3>1, <3>2
  <2> HIDE DEF q
  <2>7. \A i \in 1..(Len(q) - 1) :
          tree[SubSeq(q, 1, i)].kind = "dir" /\ ~Removes(tree[SubSeq(q, 1, i)])
    <3> TAKE i \in 1..(Len(q) - 1)
    <3>1. i \in 1..(Len(p) - 1) /\ i \in 1..n
      BY <2>1, <2>4
    <3> QED
      BY <2>3, <2>5, <3>1
  <2>8. q \in Walked(tree, partitions)
    BY <2>1, <2>3, <2>4, <2>6, <2>7 DEF Walked
  <2>9. Entry(tree, q) \in E /\ Entry(tree, q).rel = q
    BY <2>8 DEF Entries, Entry, E
  <2> QED
    BY <2>9 DEF q, p
<1>7. EntriesOk(E)
  BY <1>1, <1>2, <1>3, <1>4, <1>5, <1>6 DEF EntriesOk
<1> QED
  BY <1>7 DEF E

ModuleOk(m) == m.id \in Nat \ {0} /\ EntriesOk(m.entries)
ModulesOk(M) ==
  /\ IsFiniteSet(M)
  /\ \A m \in M : ModuleOk(m)
  /\ \A m, n \in M : m.id = n.id => m = n

(* The modules that a scan lists, each id once (list_modules). *)
LEMMA ModulesType ==
  ASSUME NEW dirs, AreDirectories(dirs), NEW extra
  PROVE  ModulesOk(ListModules(dirs, extra))
<1> DEFINE M == ListModules(dirs, extra)
           parts == {"system"} \cup extra
           record(d) == [id        |-> d.id,
                         disabled  |-> d.disable \/ d.remove,
                         skip      |-> d.skip,
                         has_files |-> ScanRoots(d.tree, parts) # {},
                         entries   |-> Entries(d.tree, parts)]
<1>1. M = {record(d) : d \in {e \in dirs : e.prop /\ e.name = e.id}}
  BY DEF ListModules
<1>2. IsFiniteSet(dirs) /\ (\A d \in dirs : IsDirectory(d)) /\ \A d, e \in dirs : d.name = e.name => d = e
  BY DEF AreDirectories
<1>3. ASSUME NEW m \in M
      PROVE  \E d \in dirs : m = record(d) /\ d.name = d.id /\ m.id = d.id
                             /\ m.entries = Entries(d.tree, parts)
  <2>1. PICK d \in dirs : m = record(d) /\ d.name = d.id
    <3> HIDE DEF record
    <3> QED BY <1>1
  <2>2. m.id = d.id /\ m.entries = Entries(d.tree, parts)
    BY <2>1
  <2> QED
    BY <2>1, <2>2
<1> HIDE DEF M
<1>4. ASSUME NEW m \in M PROVE ModuleOk(m)
  <2>1. PICK d \in dirs : m.id = d.id /\ m.entries = Entries(d.tree, parts)
    BY <1>3
  <2>2. IsDirectory(d)
    BY <1>2
  <2>3. EntriesOk(Entries(d.tree, parts))
    <3> HIDE DEF parts
    <3> QED
      BY <2>2, EntriesType DEF IsDirectory, IsTree
  <2>4. d.id \in Nat \ {0}
    BY <2>2 DEF IsDirectory
  <2> HIDE DEF parts
  <2> QED
    BY <2>1, <2>3, <2>4 DEF ModuleOk
<1>5. ASSUME NEW m \in M, NEW n \in M, m.id = n.id PROVE m = n
  <2>1. PICK d \in dirs : m = record(d) /\ d.name = d.id /\ m.id = d.id
    BY <1>3
  <2>2. PICK e \in dirs : n = record(e) /\ e.name = e.id /\ n.id = e.id
    BY <1>3
  <2>3. d = e
    BY <1>2, <1>5, <2>1, <2>2
  <2> QED
    BY <2>1, <2>2, <2>3
<1>6. IsFiniteSet(M)
  <2> DEFINE f == [d \in dirs |-> record(d)]
  <2>1. \A m \in M : \E d \in dirs : m = f[d]
    BY <1>3
  <2> HIDE DEF f
  <2> QED
    BY <1>2, <2>1, FiniteImage
<1>7. ModulesOk(M)
  BY <1>4, <1>5, <1>6 DEF ModulesOk
<1> QED
  BY <1>7 DEF M

(* Some of the modules are modules. *)
LEMMA ModulesSubset ==
  ASSUME NEW M, ModulesOk(M), NEW N \in SUBSET M
  PROVE  ModulesOk(N)
BY FS_Subset DEF ModulesOk

-----------------------------------------------------------------------------
(* The sources of a module *)

SourcesOk(L, ds, id) ==
  /\ IsFiniteSet(ds) /\ id \in Nat \ {0}
  /\ \A s \in ds : /\ s.mod = id /\ s.rel \in Paths \ {<< >>} /\ s.target = MapTarget(L, s.rel)
                   /\ s.target \in Paths
                   /\ s.type \in Kinds /\ s.replace \in BOOLEAN
  /\ \A s, t \in ds : s.rel = t.rel => s = t
  /\ \A s, t \in ds : IsStrictPrefix(s.rel, t.rel) => s.type = "dir"
  /\ \A s \in ds : s.type # "dir" /\ s.mode # "ignore" => Len(s.rel) > 1
  /\ \A s \in ds : \A n \in (RootLen(L, s.rel) + 1)..Len(s.rel) :
       \E t \in ds : t.rel = SubSeq(s.rel, 1, n)

(* The sources a module contributes are where map_target puts them (process_module). *)
LEMMA DecisionsType ==
  ASSUME NEW L, LayoutOk(L), NEW rl, NEW m, ModuleOk(m)
  PROVE  /\ SourcesOk(L, Decisions(L, rl, m), m.id)
         /\ \A s \in Decisions(L, rl, m) :
              \E e \in {f \in m.entries : Mapped(L, f.rel)} :
                s = [mod |-> m.id, rel |-> e.rel, target |-> MapTarget(L, e.rel), type |-> e.type,
                     replace |-> e.replace, mode |-> ResolveMode(rl, e.rel)]
<1> DEFINE ds == Decisions(L, rl, m)
           source(e) == [mod |-> m.id, rel |-> e.rel, target |-> MapTarget(L, e.rel), type |-> e.type,
                         replace |-> e.replace, mode |-> ResolveMode(rl, e.rel)]
           blocked == Blocked(L, rl, m.entries)
           taken(e) == /\ \A p \in blocked : ~IsPrefix(p, e.rel)
                       /\ Mapped(L, e.rel)
                       /\ ~IsPromotedPartitionAlias(L, e)
                       /\ ~IsRedundantPartitionSelfAlias(L, e)
<1>0. ds = {source(e) : e \in {f \in m.entries : taken(f)}}
  BY DEF Decisions
<1>1. ASSUME NEW s \in ds
      PROVE  \E e \in m.entries : s = source(e) /\ Mapped(L, e.rel) /\ taken(e)
  BY <1>0
<1> HIDE DEF ds, blocked, taken
<1>2. EntriesOk(m.entries) /\ m.id \in Nat \ {0}
  BY DEF ModuleOk
<1>3. IsFiniteSet(ds)
  <2> DEFINE f == [e \in m.entries |-> source(e)]
  <2>1. \A s \in ds : \E e \in m.entries : s = f[e]
    BY <1>1
  <2> HIDE DEF f
  <2> QED
    BY <1>2, <2>1, FiniteImage DEF EntriesOk
<1>4. ASSUME NEW s \in ds
      PROVE  \E e \in m.entries :
               /\ e.rel = s.rel /\ s.type = e.type /\ s = source(e) /\ s.target = MapTarget(L, s.rel)
               /\ s.mod = m.id /\ s.replace = e.replace
  BY <1>1
<1>5. ASSUME NEW s \in ds
      PROVE  /\ s.mod = m.id /\ s.rel \in Paths \ {<< >>} /\ s.target = MapTarget(L, s.rel)
             /\ s.target \in Paths /\ s.type \in Kinds /\ s.replace \in BOOLEAN
  <2>1. /\ s.mod = m.id /\ s.rel \in Paths \ {<< >>} /\ s.target = MapTarget(L, s.rel)
        /\ s.type \in Kinds /\ s.replace \in BOOLEAN
    <3> HIDE DEF source
    <3> QED BY <1>2, <1>4 DEF EntriesOk
  <2> QED
    BY <2>1, MapTargetType
<1>6. ASSUME NEW s \in ds, NEW t \in ds
      PROVE  /\ s.rel = t.rel => s = t
             /\ IsStrictPrefix(s.rel, t.rel) => s.type = "dir"
  <2>1. PICK e \in m.entries : e.rel = s.rel /\ s.type = e.type /\ s = source(e)
    BY <1>4
  <2>2. PICK f \in m.entries : f.rel = t.rel /\ t.type = f.type /\ t = source(f)
    BY <1>4
  <2>3. e.rel = f.rel => e = f
    BY <1>2 DEF EntriesOk
  <2>4. IsStrictPrefix(e.rel, f.rel) => e.type = "dir"
    BY <1>2 DEF EntriesOk
  <2> HIDE DEF source
  <2> QED
    BY <2>1, <2>2, <2>3, <2>4
<1>7. ASSUME NEW s \in ds, s.type # "dir", s.mode # "ignore" PROVE Len(s.rel) > 1
  <2>1. PICK e \in m.entries : s = source(e) /\ Mapped(L, e.rel) /\ taken(e)
    BY <1>1
  <2>2. e.rel = s.rel /\ e.type = s.type /\ ResolveMode(rl, e.rel) = s.mode
    BY <2>1
  <2>3. e.rel \in Paths \ {<< >>} /\ (Len(e.rel) = 1 /\ e.type # "dir" => e.removed)
    BY <1>2 DEF EntriesOk
  <2> HIDE DEF source
  <2>4. SUFFICES ASSUME Len(e.rel) = 1 PROVE FALSE
    <3> DEFINE k == Len(e.rel)
    <3>1. k \in Nat /\ k # 0
      BY <2>3, LenType DEF Paths
    <3>2. k # 1 /\ k = Len(s.rel)
      BY <2>2, <2>4
    <3> HIDE DEF k
    <3>3. \A i \in Nat : i # 0 /\ i # 1 => i > 1
      OBVIOUS
    <3>4. k > 1
      BY <3>1, <3>2, <3>3
    <3> QED
      BY <3>2, <3>4
  <2>5. RootLen(L, e.rel) = 1
    BY <2>4 DEF RootLen, LogicalPartition
  <2>6. RootRemoval(L, e)
    BY <1>7, <2>2, <2>3, <2>4, <2>5 DEF RootRemoval
  <2>7. e.rel \in blocked
    BY <1>7, <2>1, <2>2, <2>6 DEF blocked, Blocked
  <2>8. IsPrefix(e.rel, e.rel)
    BY <2>3, PrefixSelf
  <2> QED
    BY <2>1, <2>7, <2>8 DEF taken
<1>8. ASSUME NEW s \in ds, NEW n \in (RootLen(L, s.rel) + 1)..Len(s.rel)
      PROVE  \E t \in ds : t.rel = SubSeq(s.rel, 1, n)
  <2>1. PICK e \in m.entries : s = source(e) /\ Mapped(L, e.rel) /\ taken(e)
    BY <1>1
  <2>2. e.rel = s.rel /\ e.rel \in Paths \ {<< >>}
    BY <1>2, <2>1 DEF EntriesOk
  <2> DEFINE p == e.rel
             q == SubSeq(p, 1, n)
             r == RootLen(L, p)
  <2>3. p \in Seq(Names) /\ Len(p) \in Nat /\ r \in 1..2 /\ n \in (r + 1)..Len(p)
    BY <2>2, PartitionType DEF Paths
  <2>4. PICK f \in m.entries : f.rel = q
    <3>1. n \in 2..Len(e.rel)
      BY <2>3
    <3> QED
      BY <1>2, <3>1 DEF EntriesOk
  <2>5. CASE n = Len(p)
    <3>1. q = p
      BY <2>3, <2>5
    <3> QED
      BY <2>2, <3>1
  <2>6. CASE n # Len(p)
    <3>1. q \in Paths /\ Len(q) = n /\ n < Len(p) /\ n > 1 /\ \A i \in 1..n : q[i] = p[i]
      BY <2>3, <2>6 DEF Paths
    <3>2. IsPrefix(q, p) /\ q # p
      <4>1. p \in Paths
        BY <2>2
      <4> HIDE DEF q, p
      <4>2. Len(q) <= Len(p) /\ Len(q) # Len(p)
        BY <2>3, <3>1
      <4> QED
        BY <3>1, <4>1, <4>2, PrefixElements
    <3>3. f.type = "dir"
      BY <1>2, <2>4, <3>2 DEF EntriesOk, IsStrictPrefix
    <3>4. LogicalPartition(L, q) = LogicalPartition(L, p)
      BY <2>3, <3>1 DEF LogicalPartition
    <3>5. Mapped(L, f.rel)
      BY <2>1, <2>4, <3>4 DEF Mapped
    <3>6. ASSUME NEW b \in blocked PROVE ~IsPrefix(b, f.rel)
      <4>1. b \in Paths
        BY <1>2 DEF blocked, Blocked, EntriesOk
      <4>2. ~IsPrefix(b, p)
        BY <2>1 DEF taken
      <4> QED
        BY <2>2, <2>4, <3>1, <3>2, <4>1, <4>2, PrefixTrans
    <3>7. taken(f)
      BY <3>3, <3>5, <3>6 DEF taken, IsPromotedPartitionAlias, IsRedundantPartitionSelfAlias
    <3>8. source(f) \in ds /\ source(f).rel = f.rel
      BY <1>0, <3>7
    <3> QED
      BY <2>2, <2>4, <3>8
  <2> QED
    BY <2>5, <2>6
<1>9. SourcesOk(L, ds, m.id)
  <2> HIDE DEF source
  <2> QED BY <1>2, <1>3, <1>5, <1>6, <1>7, <1>8 DEF SourcesOk
<1> QED
  BY <1>1, <1>9 DEF ds

-----------------------------------------------------------------------------
(* Overlay layers of a module *)

(* Where a source comes to lie. *)
LandsAt(L, T, s, p) == p = s.target \/ (Stray(L, T, s) /\ p = Named(L, s))
Placed(L, T, at, dest, mod, rel) ==
  /\ \E s \in Of(T, "overlay") : s.mod = mod /\ IsPrefix(rel, s.rel)
  /\ \A s \in Of(T, "overlay") :
       s.mod = mod /\ IsPrefix(rel, s.rel) => LandsAt(L, T, s, at \o (dest \o Tail0(s.rel, rel)))

(* What Stray says of a source. *)
LEMMA StrayMeans ==
  ASSUME NEW L, NEW T, NEW s
  PROVE  /\ Stray(L, T, s) <=> /\ Misled(L, s.rel)
                               /\ \/ Len(s.rel) = 2 /\ s.type # "dir"
                                  \/ \E t \in T : /\ t.mod = s.mod /\ t.rel = <<System>>
                                                  /\ {s.mode, t.mode} = {"overlay"}
         /\ Named(L, s) = ByName(L, s.rel)
BY DEF Stray, Misled, Named, ByName

(* A layer that holds a directory of a module puts each source where it belongs. *)
LEMMA PlacedLayer ==
  ASSUME NEW L, LayoutOk(L), NEW ds, NEW id, SourcesOk(L, ds, id), NEW rel \in Paths \ {<< >>},
         rel = <<System>> => \E d \in ds : d.rel = rel /\ d.mode = "overlay",
         \E d \in Of(ds, "overlay") : IsPrefix(rel, d.rel)
  PROVE  Placed(L, ds, MapTarget(L, rel), << >>, id, rel)
<1>0. \E d \in Of(ds, "overlay") : d.mod = id /\ IsPrefix(rel, d.rel)
  BY DEF Of, SourcesOk
<1> SUFFICES ASSUME NEW s \in Of(ds, "overlay"), s.mod = id, IsPrefix(rel, s.rel)
             PROVE  LandsAt(L, ds, s, MapTarget(L, rel) \o (<< >> \o Tail0(s.rel, rel)))
  BY <1>0 DEF Placed
<1>1. s \in ds /\ s.mode = "overlay" /\ s.rel \in Paths /\ s.target = MapTarget(L, s.rel)
  BY DEF Of, SourcesOk
<1>2. << >> \o Tail0(s.rel, rel) = Tail0(s.rel, rel)
  BY <1>1, PrefixSplit, EmptyConcat
<1>3. CASE MapTarget(L, s.rel) = MapTarget(L, rel) \o Tail0(s.rel, rel)
  BY <1>1, <1>2, <1>3 DEF LandsAt
<1>4. CASE /\ rel = <<System>> /\ Misled(L, s.rel)
           /\ MapTarget(L, rel) \o Tail0(s.rel, rel) = ByName(L, s.rel)
  <2>1. PICK d \in ds : d.rel = rel /\ d.mode = "overlay"
    BY <1>4
  <2>2. d.mod = s.mod
    BY DEF SourcesOk
  <2>3. {s.mode, d.mode} = {"overlay"}
    BY <1>1, <2>1
  <2>4. \E t \in ds : t.mod = s.mod /\ t.rel = <<System>> /\ {s.mode, t.mode} = {"overlay"}
    BY <1>4, <2>1, <2>2, <2>3
  <2>5. Stray(L, ds, s)
    BY <1>4, <2>4, StrayMeans
  <2> QED
    BY <1>2, <1>4, <2>5, StrayMeans DEF LandsAt
<1> QED
  BY <1>1, <1>3, <1>4, MapExtend

(* The directory of a path. *)
LEMMA FrontType ==
  ASSUME NEW p \in Paths, Len(p) > 1
  PROVE  /\ Front(p) \in Paths \ {<< >>} /\ IsPrefix(Front(p), p) /\ <<Last(p)>> \in Paths
         /\ Tail0(p, Front(p)) = <<Last(p)>> /\ Len(Front(p)) = Len(p) - 1
<1> DEFINE q == SubSeq(p, 1, Len(p) - 1)
<1>1. q \in Paths /\ Len(q) = Len(p) - 1 /\ \A i \in 1..(Len(p) - 1) : q[i] = p[i]
  BY DEF Paths
<1>2. Len(p) \in Nat
  BY LenType
<1>3. <<p[Len(p)]>> \in Paths
  BY <1>2 DEF Paths
<1> HIDE DEF q
<1>4. IsPrefix(q, p) /\ q # << >>
  BY <1>1, <1>2, PrefixElements
<1>5. Tail0(p, q) = <<p[Len(p)]>>
  <2>1. /\ Tail0(p, q) \in Paths /\ Len(Tail0(p, q)) = 1
        /\ Tail0(p, q)[1] = p[Len(p)]
    <3>1. Len(q) <= Len(p) /\ Len(p) - Len(q) = 1 /\ 1 \in 1..1 /\ Len(q) + 1 = Len(p)
      BY <1>1, <1>2
    <3>2. /\ Tail0(p, q) \in Paths /\ Len(Tail0(p, q)) = 1
          /\ \A i \in 1..1 : Tail0(p, q)[i] = p[Len(q) + i]
      <4>1. /\ Tail0(p, q) \in Paths /\ Len(Tail0(p, q)) = Len(p) - Len(q)
            /\ \A i \in 1..(Len(p) - Len(q)) : Tail0(p, q)[i] = p[Len(q) + i]
        BY <1>1, <3>1, Tail0Type
      <4> QED
        BY <3>1, <4>1
    <3> QED
      BY <3>1, <3>2
  <2>2. Tail0(p, q) \in Seq(Names) /\ <<p[Len(p)]>> \in Seq(Names)
    BY <1>3, <2>1 DEF Paths
  <2>3. \A i \in 1..1 : Tail0(p, q)[i] = <<p[Len(p)]>>[i]
    BY <2>1
  <2> QED
    BY <2>1, <2>2, <2>3, SeqEqual
<1> QED
  BY <1>1, <1>3, <1>4, <1>5 DEF Front, Last, q

(* So does a layer with a single file, at the directory of its target. *)
LEMMA PlacedFile ==
  ASSUME NEW L, LayoutOk(L), NEW ds, NEW id, SourcesOk(L, ds, id), 
         NEW d \in Of(ds, "overlay"), d.type # "dir", Len(d.rel) > 1
  PROVE  Placed(L, ds, MapTarget(L, Front(d.rel)), <<Last(d.rel)>>, id, d.rel)
<1>0. \E s \in Of(ds, "overlay") : s.mod = id /\ IsPrefix(d.rel, s.rel)
  <2>1. d.rel \in Paths /\ d.mod = id
    BY DEF Of, SourcesOk
  <2> QED
    BY <2>1, PrefixSelf
<1> SUFFICES ASSUME NEW s \in Of(ds, "overlay"), s.mod = id, IsPrefix(d.rel, s.rel)
             PROVE  LandsAt(L, ds, s, MapTarget(L, Front(d.rel)) \o (<<Last(d.rel)>> \o Tail0(s.rel, d.rel)))
  BY <1>0 DEF Placed
<1>1. s \in ds /\ d \in ds /\ d.rel \in Paths /\ d.target = MapTarget(L, d.rel)
  BY DEF Of, SourcesOk
<1>2. s = d
  <2>1. ~IsStrictPrefix(d.rel, s.rel)
    BY <1>1 DEF SourcesOk
  <2>2. d.rel = s.rel
    BY <2>1 DEF IsStrictPrefix
  <2> QED
    BY <1>1, <2>2 DEF SourcesOk
<1>3. /\ Front(d.rel) \in Paths \ {<< >>} /\ IsPrefix(Front(d.rel), d.rel) /\ <<Last(d.rel)>> \in Paths
      /\ Tail0(d.rel, Front(d.rel)) = <<Last(d.rel)>> /\ Len(Front(d.rel)) = Len(d.rel) - 1
  BY <1>1, FrontType
<1>4. <<Last(d.rel)>> \o Tail0(s.rel, d.rel) = <<Last(d.rel)>>
  <2>1. Tail0(d.rel, d.rel) = << >>
    BY <1>1 DEF Tail0, Paths
  <2> QED
    BY <1>2, <1>3, <2>1, EmptyConcat
<1>5. CASE MapTarget(L, d.rel) = MapTarget(L, Front(d.rel)) \o <<Last(d.rel)>>
  BY <1>1, <1>2, <1>4, <1>5 DEF LandsAt
<1>6. CASE /\ Front(d.rel) = <<System>> /\ Misled(L, d.rel)
           /\ MapTarget(L, Front(d.rel)) \o <<Last(d.rel)>> = ByName(L, d.rel)
  <2>1. Len(d.rel) = 2
    <3>1. Len(Front(d.rel)) = 1
      BY <1>6
    <3>2. Len(Front(d.rel)) = Len(d.rel) - 1 /\ Len(d.rel) \in Nat
      BY <1>1, <1>3, LenType
    <3> DEFINE n == Len(d.rel)
    <3>3. n \in Nat /\ n - 1 = 1
      BY <3>1, <3>2
    <3> HIDE DEF n
    <3>4. n = 2
      BY <3>3
    <3> QED
      BY <3>4 DEF n
  <2>2. Stray(L, ds, d)
    BY <1>6, <2>1, StrayMeans
  <2> QED
    BY <1>2, <1>4, <1>6, <2>2, StrayMeans DEF LandsAt
<1> QED
  <2> DEFINE front == Front(d.rel)
  <2>1. front \in Paths /\ front # << >> /\ IsPrefix(front, d.rel)
    BY <1>3
  <2>2. Tail0(d.rel, front) = <<Last(d.rel)>>
    BY <1>3
  <2> DEFINE far == d.rel
  <2>3. far \in Paths /\ IsPrefix(front, far)
    BY <1>1, <2>1
  <2> HIDE DEF front, far
  <2>4. \/ MapTarget(L, far) = MapTarget(L, front) \o Tail0(far, front)
        \/ /\ front = <<System>> /\ Misled(L, far)
           /\ MapTarget(L, front) \o Tail0(far, front) = ByName(L, far)
    BY <2>1, <2>3, MapExtend
  <2> QED
    BY <1>5, <1>6, <2>2, <2>4 DEF front, far

(* What a module contributes to the overlays. *)
LayersOk(L, ds, id, ls) ==
  /\ IsFiniteSet(ls)
  /\ \A l \in ls : /\ l.mod = id /\ l.rel \in Paths \ {<< >>} /\ l.target = MapTarget(L, l.rel)
                   /\ l.rel = <<System>> => \E d \in ds : d.rel = l.rel /\ d.mode = "overlay"
                   /\ \E d \in Of(ds, "overlay") : IsPrefix(l.rel, d.rel)
FilesOk(L, ds, id, fs) ==
  /\ IsFiniteSet(fs)
  /\ \A f \in fs : \E d \in Of(ds, "overlay") :
       /\ f.mod = id /\ f.rel = d.rel /\ d.type # "dir" /\ Len(d.rel) > 1
       /\ f.target = MapTarget(L, Front(d.rel))

(* A module that is an overlay as a whole (add_whole_overlay_layers). *)
LEMMA WholeOverlayType ==
  ASSUME NEW L, LayoutOk(L), NEW ds, NEW id, SourcesOk(L, ds, id), ds = Of(ds, "overlay")
  PROVE  /\ LayersOk(L, ds, id, WholeOverlay(L, ds).layers)
         /\ FilesOk(L, ds, id, WholeOverlay(L, ds).files)
<1> DEFINE rootLen(d) == RootLen(L, d.rel)
           replaced == {d.rel : d \in {c \in ds : c.replace /\ Len(c.rel) = rootLen(c)}}
           open == {d \in ds : ~HasAncestorIn(d.rel, replaced)}
           layer(d, n) == [target |-> MapTarget(L, SubSeq(d.rel, 1, n)), mod |-> d.mod,
                           rel |-> SubSeq(d.rel, 1, n)]
           file(d) == [target |-> MapTarget(L, Front(d.rel)), mod |-> d.mod, rel |-> d.rel]
           A == {layer(d, rootLen(d)) : d \in {c \in open : c.rel \in replaced}}
           B == {layer(d, rootLen(d) + 1) :
                   d \in {c \in open : \/ Len(c.rel) > rootLen(c) + 1
                                       \/ (c.type = "dir" /\ Len(c.rel) = rootLen(c) + 1)}}
           F == {file(d) : d \in {c \in open : c.type # "dir" /\ Len(c.rel) = rootLen(c) + 1}}
<1>1. WholeOverlay(L, ds).layers = A \cup B /\ WholeOverlay(L, ds).files = F
  BY DEF WholeOverlay
<1>2. IsFiniteSet(ds)
  BY DEF SourcesOk
<1>3. ASSUME NEW d \in ds
      PROVE  /\ d.rel \in Paths \ {<< >>} /\ d.mod = id /\ d.mode = "overlay"
             /\ Len(d.rel) \in Nat /\ rootLen(d) \in 1..2 /\ rootLen(d) <= Len(d.rel)
  <2>1. d.rel \in Paths \ {<< >>} /\ d.mod = id
    BY DEF SourcesOk
  <2>2. d.mode = "overlay"
    BY DEF Of
  <2> QED
    BY <2>1, <2>2, PartitionType
<1>4. ASSUME NEW d \in ds, NEW n \in Nat, n > 0, n <= Len(d.rel)
      PROVE  /\ SubSeq(d.rel, 1, n) \in Paths \ {<< >>} /\ Len(SubSeq(d.rel, 1, n)) = n
             /\ IsPrefix(SubSeq(d.rel, 1, n), d.rel)
  <2>1. /\ SubSeq(d.rel, 1, n) \in Seq(Names) /\ Len(SubSeq(d.rel, 1, n)) = n
        /\ \A i \in 1..n : SubSeq(d.rel, 1, n)[i] = d.rel[i]
    BY <1>3, <1>4 DEF Paths
  <2>2. SubSeq(d.rel, 1, n) \in Paths \ {<< >>}
    BY <1>4, <2>1 DEF Paths
  <2> QED
    BY <1>3, <1>4, <2>1, <2>2, PrefixElements
<1>5. ASSUME NEW l \in A
      PROVE  \E d \in ds : /\ l = layer(d, rootLen(d)) /\ Len(d.rel) = rootLen(d)
                           /\ SubSeq(d.rel, 1, rootLen(d)) = d.rel
  <2>1. PICK d \in open : d.rel \in replaced /\ l = layer(d, rootLen(d))
    OBVIOUS
  <2>2. Len(d.rel) = rootLen(d)
    <3>1. PICK c \in ds : c.rel = d.rel /\ Len(c.rel) = rootLen(c)
      BY <2>1
    <3> QED
      BY <3>1
  <2>3. SubSeq(d.rel, 1, Len(d.rel)) = d.rel
    BY <1>3 DEF Paths
  <2>4. d \in ds
    OBVIOUS
  <2> HIDE DEF layer, rootLen, open
  <2> QED
    BY <2>1, <2>2, <2>3, <2>4
<1>6. ASSUME NEW l \in B
      PROVE  \E d \in ds : l = layer(d, rootLen(d) + 1) /\ rootLen(d) + 1 <= Len(d.rel)
  <2>1. PICK d \in open : /\ Len(d.rel) > rootLen(d) + 1 \/ Len(d.rel) = rootLen(d) + 1
                          /\ l = layer(d, rootLen(d) + 1)
    OBVIOUS
  <2>2. d \in ds
    OBVIOUS
  <2>3. rootLen(d) + 1 <= Len(d.rel)
    BY <1>3, <2>1, <2>2
  <2> HIDE DEF layer, rootLen, open
  <2> QED
    BY <2>1, <2>2, <2>3
<1>7. ASSUME NEW f \in F
      PROVE  \E d \in ds : f = file(d) /\ d.type # "dir" /\ Len(d.rel) = rootLen(d) + 1
  OBVIOUS
<1>8. IsFiniteSet(A)
  <2> DEFINE g == [d \in ds |-> layer(d, rootLen(d))]
  <2>1. \A l \in A : \E d \in ds : l = g[d]
    BY <1>5
  <2> HIDE DEF A, g
  <2> QED BY <1>2, <2>1, FiniteImage
<1>9. IsFiniteSet(B)
  <2> DEFINE g == [d \in ds |-> layer(d, rootLen(d) + 1)]
  <2>1. \A l \in B : \E d \in ds : l = g[d]
    BY <1>6
  <2> HIDE DEF B, g
  <2> QED BY <1>2, <2>1, FiniteImage
<1>10. IsFiniteSet(F)
  <2> DEFINE g == [d \in ds |-> file(d)]
  <2>1. \A f \in F : \E d \in ds : f = g[d]
    BY <1>7
  <2> HIDE DEF F, g
  <2> QED BY <1>2, <2>1, FiniteImage
<1>11. IsFiniteSet(A \cup B)
  <2> HIDE DEF A, B
  <2> QED BY <1>8, <1>9, FS_Union
<1>12. ASSUME NEW d \in ds, NEW n \in Nat, n > 0, n <= Len(d.rel)
       PROVE  /\ layer(d, n).mod = id /\ layer(d, n).rel = SubSeq(d.rel, 1, n)
              /\ layer(d, n).rel \in Paths \ {<< >>} /\ Len(layer(d, n).rel) = n
              /\ IsPrefix(layer(d, n).rel, d.rel)
              /\ layer(d, n).target = MapTarget(L, layer(d, n).rel)
  BY <1>3, <1>4, <1>12
<1> HIDE DEF A, B, F, layer, rootLen
<1>13. ASSUME NEW l \in A \cup B
       PROVE  /\ l.mod = id /\ l.rel \in Paths \ {<< >>} /\ l.target = MapTarget(L, l.rel)
              /\ l.rel = <<System>> => \E d \in ds : d.rel = l.rel /\ d.mode = "overlay"
              /\ \E d \in Of(ds, "overlay") : IsPrefix(l.rel, d.rel)
  <2>1. CASE l \in A
    <3>1. PICK d \in ds : /\ l = layer(d, rootLen(d)) /\ Len(d.rel) = rootLen(d)
                          /\ SubSeq(d.rel, 1, rootLen(d)) = d.rel
      BY <1>5, <2>1
    <3>2. rootLen(d) \in Nat /\ rootLen(d) > 0 /\ rootLen(d) <= Len(d.rel)
      BY <1>3
    <3> QED
      BY <1>3, <1>12, <3>1, <3>2
  <2>2. CASE l \in B
    <3>1. PICK d \in ds : l = layer(d, rootLen(d) + 1) /\ rootLen(d) + 1 <= Len(d.rel)
      BY <1>6, <2>2
    <3>2. rootLen(d) + 1 \in Nat /\ rootLen(d) + 1 > 1
      BY <1>3
    <3>3. /\ l.mod = id /\ l.rel \in Paths \ {<< >>} /\ l.target = MapTarget(L, l.rel)
          /\ Len(l.rel) = rootLen(d) + 1 /\ IsPrefix(l.rel, d.rel)
      BY <1>12, <3>1, <3>2
    <3>4. l.rel # <<System>>
      <4> SUFFICES ASSUME l.rel = <<System>> PROVE FALSE
        OBVIOUS
      <4>1. Len(l.rel) = 1
        OBVIOUS
      <4>2. Len(l.rel) > 1
        BY <3>2, <3>3
      <4> QED
        BY <4>1, <4>2
    <3> QED
      BY <3>3, <3>4
  <2> QED
    BY <2>1, <2>2
<1>14. LayersOk(L, ds, id, A \cup B)
  BY <1>11, <1>13 DEF LayersOk
<1>15. FilesOk(L, ds, id, F)
  <2>1. ASSUME NEW f \in F
        PROVE  \E d \in Of(ds, "overlay") :
                 /\ f.mod = id /\ f.rel = d.rel /\ d.type # "dir" /\ Len(d.rel) > 1
                 /\ f.target = MapTarget(L, Front(d.rel))
    <3>1. PICK d \in ds : f = file(d) /\ d.type # "dir" /\ Len(d.rel) = rootLen(d) + 1
      BY <1>7
    <3>2. Len(d.rel) > 1
      BY <1>3, <3>1
    <3>3. f.mod = id /\ f.rel = d.rel /\ f.target = MapTarget(L, Front(d.rel))
      BY <1>3, <3>1
    <3> QED
      BY <3>1, <3>2, <3>3
  <2> QED
    BY <1>10, <2>1 DEF FilesOk
<1> QED
  BY <1>1, <1>14, <1>15

(* A module of which only some paths are overlays (process_module). *)
LEMMA PartialOverlayType ==
  ASSUME NEW L, LayoutOk(L), NEW ds, NEW id, SourcesOk(L, ds, id)
  PROVE  /\ LayersOk(L, ds, id, PartialOverlay(L, ds).layers)
         /\ FilesOk(L, ds, id, PartialOverlay(L, ds).files)
<1> DEFINE overlay == {d.rel : d \in Of(ds, "overlay")}
           tops == {d \in Of(ds, "overlay") : ~HasAncestorIn(d.rel, overlay)}
           layer(d) == [target |-> d.target, mod |-> d.mod, rel |-> d.rel]
           file(d) == [target |-> MapTarget(L, Front(d.rel)), mod |-> d.mod, rel |-> d.rel]
           A == {layer(d) : d \in {c \in tops : c.type = "dir"}}
           F == {file(d) : d \in {c \in tops : c.type # "dir" /\ Len(c.rel) > 1}}
<1>1. PartialOverlay(L, ds).layers = A /\ PartialOverlay(L, ds).files = F
  BY DEF PartialOverlay
<1>2. IsFiniteSet(ds)
  BY DEF SourcesOk
<1>3. ASSUME NEW d \in ds
      PROVE  d.rel \in Paths \ {<< >>} /\ d.mod = id /\ d.target = MapTarget(L, d.rel)
  BY DEF SourcesOk
<1>4. ASSUME NEW l \in A
      PROVE  \E d \in ds : l = layer(d) /\ d.mode = "overlay" /\ d \in Of(ds, "overlay")
  BY DEF Of
<1>5. ASSUME NEW f \in F
      PROVE  \E d \in Of(ds, "overlay") : d \in ds /\ f = file(d) /\ d.type # "dir" /\ Len(d.rel) > 1
  BY DEF Of
<1>6. IsFiniteSet(A)
  <2> DEFINE g == [d \in ds |-> layer(d)]
  <2>1. \A l \in A : \E d \in ds : l = g[d]
    BY <1>4
  <2> HIDE DEF A, g
  <2> QED BY <1>2, <2>1, FiniteImage
<1>7. IsFiniteSet(F)
  <2> DEFINE g == [d \in ds |-> file(d)]
  <2>1. \A f \in F : \E d \in ds : f = g[d]
    BY <1>5
  <2> HIDE DEF F, g
  <2> QED BY <1>2, <2>1, FiniteImage
<1>8. LayersOk(L, ds, id, A)
  <2>1. ASSUME NEW l \in A
        PROVE  /\ l.mod = id /\ l.rel \in Paths \ {<< >>} /\ l.target = MapTarget(L, l.rel)
               /\ l.rel = <<System>> => \E d \in ds : d.rel = l.rel /\ d.mode = "overlay"
               /\ \E d \in Of(ds, "overlay") : IsPrefix(l.rel, d.rel)
    <3>1. PICK d \in ds : l = layer(d) /\ d.mode = "overlay" /\ d \in Of(ds, "overlay")
      BY <1>4
    <3>2. l.mod = d.mod /\ l.rel = d.rel /\ l.target = d.target
      BY <3>1
    <3>3. IsPrefix(d.rel, d.rel)
      BY <1>3, PrefixSelf
    <3> QED
      BY <1>3, <3>1, <3>2, <3>3
  <2> HIDE DEF A
  <2> QED
    BY <1>6, <2>1 DEF LayersOk
<1>9. FilesOk(L, ds, id, F)
  <2>1. ASSUME NEW f \in F
        PROVE  \E d \in Of(ds, "overlay") :
                 /\ f.mod = id /\ f.rel = d.rel /\ d.type # "dir" /\ Len(d.rel) > 1
                 /\ f.target = MapTarget(L, Front(d.rel))
    <3>1. PICK d \in Of(ds, "overlay") : d \in ds /\ f = file(d) /\ d.type # "dir" /\ Len(d.rel) > 1
      BY <1>5
    <3>2. f.mod = d.mod /\ f.rel = d.rel /\ f.target = MapTarget(L, Front(d.rel))
      BY <3>1
    <3> QED
      BY <1>3, <3>1, <3>2
  <2> HIDE DEF F
  <2> QED
    BY <1>7, <2>1 DEF FilesOk
<1> QED
  BY <1>1, <1>8, <1>9

(* Either way (process_module). *)
LEMMA OverlayOfType ==
  ASSUME NEW L, LayoutOk(L), NEW rl, NEW ds, NEW id, SourcesOk(L, ds, id)
  PROVE  /\ LayersOk(L, ds, id, OverlayOf(L, rl, ds).layers)
         /\ FilesOk(L, ds, id, OverlayOf(L, rl, ds).files)
BY WholeOverlayType, PartialOverlayType DEF OverlayOf

(* A module has one layer at a target (PlanBuilder::add_overlay_layer). *)
LEMMA OneByTargetType ==
  ASSUME NEW L, NEW ds, NEW id, NEW ls, LayersOk(L, ds, id, ls)
  PROVE  /\ LayersOk(L, ds, id, OneByTarget(ls))
         /\ \A l, k \in OneByTarget(ls) : l.target = k.target => l = k
<1>1. OneByTarget(ls) \in SUBSET ls
  BY DEF OneByTarget
<1>2. IsFiniteSet(OneByTarget(ls))
  BY <1>1, FS_Subset DEF LayersOk
<1>3. LayersOk(L, ds, id, OneByTarget(ls))
  BY <1>1, <1>2 DEF LayersOk
<1>4. ASSUME NEW l \in OneByTarget(ls), NEW k \in OneByTarget(ls), l.target = k.target, l # k
      PROVE  FALSE
  <2>1. RelBefore(k.rel, l.rel) /\ RelBefore(l.rel, k.rel)
    BY <1>1, <1>4 DEF OneByTarget
  <2>2. l.rel \in Paths /\ k.rel \in Paths
    BY <1>1 DEF LayersOk
  <2> QED
    BY <2>1, <2>2, RelBeforeOrders
<1> QED
  BY <1>3, <1>4

-----------------------------------------------------------------------------
(* The plan *)

TreeOk(L, T) ==
  /\ Tree(T)
  /\ \A s \in T : s.mod # 0 /\ s.rel # << >> /\ s.target = MapTarget(L, s.rel)

PlanOk(L, pl) ==
  /\ TreeOk(L, pl.tree)
  /\ IsFiniteSet(pl.layers) /\ IsFiniteSet(pl.files)
  /\ \A l \in pl.layers : /\ l.mod \in Nat /\ l.rel \in Paths /\ l.target \in Paths
                          /\ Placed(L, pl.tree, l.target, << >>, l.mod, l.rel)
  /\ \A l, k \in pl.layers : l.target = k.target /\ l.mod = k.mod => l = k
  /\ \A f \in pl.files : /\ f.mod \in Nat /\ f.rel \in Paths /\ f.target \in Paths
                         /\ <<Last(f.rel)>> \in Paths
                         /\ Placed(L, pl.tree, f.target, <<Last(f.rel)>>, f.mod, f.rel)

(* What belongs where it is by the sources of its own module does so by all. *)
LEMMA PlacedMore ==
  ASSUME NEW L, NEW T, NEW ds \in SUBSET T, NEW id, \A s \in T : s.mod = id => s \in ds,
         NEW at, NEW dest, NEW rel, Placed(L, ds, at, dest, id, rel)
  PROVE  Placed(L, T, at, dest, id, rel)
<1>1. ASSUME NEW s, Stray(L, ds, s) PROVE Stray(L, T, s)
  BY <1>1 DEF Stray
<1>2. ASSUME NEW s, NEW p, LandsAt(L, ds, s, p) PROVE LandsAt(L, T, s, p)
  BY <1>1, <1>2 DEF LandsAt
<1>3. /\ \A s \in Of(T, "overlay") : s.mod = id => s \in Of(ds, "overlay")
      /\ Of(ds, "overlay") \subseteq Of(T, "overlay")
  BY DEF Of
<1> QED
  BY <1>2, <1>3 DEF Placed

(* The plan: its sources, layers and files are where they belong (build_plan). *)
LEMMA BuildPlanType ==
  ASSUME NEW L, LayoutOk(L), NEW cfg, NEW v, NEW M, ModulesOk(M)
  PROVE  /\ PlanOk(L, BuildPlan(cfg, v, L, M))
         /\ \A s \in BuildPlan(cfg, v, L, M).tree :
              \E m \in Planned(cfg, M) :
                /\ s.mod = m.id
                /\ \E e \in {f \in m.entries : Mapped(L, f.rel)} :
                     s = [mod |-> m.id, rel |-> e.rel, target |-> MapTarget(L, e.rel), type |-> e.type,
                          replace |-> e.replace,
                          mode |-> ResolveMode(ModuleRules(cfg, v, m.id), e.rel)]
<1> DEFINE planned == Planned(cfg, M)
           rl(m) == ModuleRules(cfg, v, m.id)
           ds(m) == Decisions(L, rl(m), m)
           over(m) == OverlayOf(L, rl(m), ds(m))
           lay(m) == OneByTarget(over(m).layers)
           pl == BuildPlan(cfg, v, L, M)
           T == UNION {ds(m) : m \in planned}
           Ls == UNION {lay(m) : m \in planned}
           Fs == UNION {over(m).files : m \in planned}
<1>1. pl.tree = T /\ pl.layers = Ls /\ pl.files = Fs
  BY DEF BuildPlan
<1>2. ModulesOk(planned)
  BY ModulesSubset DEF Planned
<1>3. ASSUME NEW m \in planned
      PROVE  /\ ModuleOk(m) /\ SourcesOk(L, ds(m), m.id)
             /\ LayersOk(L, ds(m), m.id, lay(m)) /\ FilesOk(L, ds(m), m.id, over(m).files)
             /\ \A l, k \in lay(m) : l.target = k.target => l = k
  <2>1. ModuleOk(m)
    BY <1>2 DEF ModulesOk
  <2>2. SourcesOk(L, ds(m), m.id)
    BY <2>1, DecisionsType
  <2>3. LayersOk(L, ds(m), m.id, over(m).layers) /\ FilesOk(L, ds(m), m.id, over(m).files)
    <3> HIDE DEF ds
    <3> QED BY <2>2, OverlayOfType
  <2> HIDE DEF ds, over
  <2> QED
    BY <2>1, <2>2, <2>3, OneByTargetType
<1>4. IsFiniteSet(planned) /\ \A m, n \in planned : m.id = n.id => m = n
  BY <1>2 DEF ModulesOk
<1>5. ASSUME NEW s \in T PROVE \E m \in planned : s \in ds(m)
  OBVIOUS
<1>6. ASSUME NEW l \in Ls PROVE \E m \in planned : l \in lay(m)
  OBVIOUS
<1>7. ASSUME NEW f \in Fs PROVE \E m \in planned : f \in over(m).files
  OBVIOUS
<1>8. IsFiniteSet(T)
  <2> DEFINE C == {ds(m) : m \in planned}
             g == [m \in planned |-> ds(m)]
  <2>1. \A S \in C : \E m \in planned : S = g[m]
    OBVIOUS
  <2>2. \A S \in C : IsFiniteSet(S)
    <3> HIDE DEF ds
    <3> QED BY <1>3 DEF SourcesOk
  <2> HIDE DEF C, g
  <2>3. IsFiniteSet(C)
    BY <1>4, <2>1, FiniteImage
  <2>4. IsFiniteSet(UNION C)
    BY <2>2, <2>3, FS_UNION
  <2> QED
    BY <2>4 DEF C
<1>9. IsFiniteSet(Ls)
  <2> DEFINE C == {lay(m) : m \in planned}
             g == [m \in planned |-> lay(m)]
  <2>1. \A S \in C : \E m \in planned : S = g[m]
    OBVIOUS
  <2>2. \A S \in C : IsFiniteSet(S)
    <3> HIDE DEF lay
    <3> QED BY <1>3 DEF LayersOk
  <2> HIDE DEF C, g
  <2>3. IsFiniteSet(C)
    BY <1>4, <2>1, FiniteImage
  <2>4. IsFiniteSet(UNION C)
    BY <2>2, <2>3, FS_UNION
  <2> QED
    BY <2>4 DEF C
<1>10. IsFiniteSet(Fs)
  <2> DEFINE C == {over(m).files : m \in planned}
             g == [m \in planned |-> over(m).files]
  <2>1. \A S \in C : \E m \in planned : S = g[m]
    OBVIOUS
  <2>2. \A S \in C : IsFiniteSet(S)
    <3> HIDE DEF over
    <3> QED BY <1>3 DEF FilesOk
  <2> HIDE DEF C, g
  <2>3. IsFiniteSet(C)
    BY <1>4, <2>1, FiniteImage
  <2>4. IsFiniteSet(UNION C)
    BY <2>2, <2>3, FS_UNION
  <2> QED
    BY <2>4 DEF C
<1>11. ASSUME NEW s \in T, NEW m \in planned, s.mod = m.id PROVE s \in ds(m)
  <2>1. PICK n \in planned : s \in ds(n)
    BY <1>5
  <2> HIDE DEF ds
  <2>2. s.mod = n.id
    BY <1>3, <2>1 DEF SourcesOk
  <2> QED
    BY <1>4, <1>11, <2>1, <2>2
<1>12. \A m \in planned : ds(m) \in SUBSET T
  OBVIOUS
<1>13. \A s \in T :
         \E m \in planned :
           /\ s.mod = m.id
           /\ \E e \in {f \in m.entries : Mapped(L, f.rel)} :
                s = [mod |-> m.id, rel |-> e.rel, target |-> MapTarget(L, e.rel), type |-> e.type,
                     replace |-> e.replace, mode |-> ResolveMode(rl(m), e.rel)]
  <2> TAKE s \in T
  <2>1. PICK m \in planned : s \in ds(m)
    BY <1>5
  <2>2. \E e \in {f \in m.entries : Mapped(L, f.rel)} :
          s = [mod |-> m.id, rel |-> e.rel, target |-> MapTarget(L, e.rel), type |-> e.type,
               replace |-> e.replace, mode |-> ResolveMode(rl(m), e.rel)]
    BY <1>3, <2>1, DecisionsType
  <2> HIDE DEF rl
  <2> QED
    BY <2>2
<1> HIDE DEF T, Ls, Fs, ds, over, lay
<1>14. TreeOk(L, T)
  <2>1. ASSUME NEW s \in T
        PROVE  /\ s.mod \in Nat \ {0} /\ s.rel \in Paths \ {<< >>} /\ s.target = MapTarget(L, s.rel)
               /\ s.target \in Paths /\ s.type \in Kinds /\ s.replace \in BOOLEAN
    BY <1>3, <1>5 DEF SourcesOk
  <2>2. ASSUME NEW s \in T, NEW t \in T, s.mod = t.mod, s.rel = t.rel PROVE s = t
    <3>1. PICK m \in planned : s \in ds(m)
      BY <1>5
    <3>2. s.mod = m.id
      BY <1>3, <3>1 DEF SourcesOk
    <3>3. t \in ds(m)
      BY <1>11, <2>2, <3>2
    <3> QED
      BY <1>3, <2>2, <3>1, <3>3 DEF SourcesOk
  <2>3. SourceSet(T)
    BY <1>8, <2>1, <2>2 DEF SourceSet
  <2> QED
    BY <2>1, <2>3 DEF TreeOk, Tree
<1>15. ASSUME NEW l \in Ls
       PROVE  /\ l.mod \in Nat /\ l.rel \in Paths /\ l.target \in Paths
              /\ Placed(L, T, l.target, << >>, l.mod, l.rel)
  <2>1. PICK m \in planned : l \in lay(m)
    BY <1>6
  <2>2. SourcesOk(L, ds(m), m.id) /\ LayersOk(L, ds(m), m.id, lay(m))
    BY <1>3
  <2>3. /\ l.mod = m.id /\ l.rel \in Paths \ {<< >>} /\ l.target = MapTarget(L, l.rel)
        /\ l.rel = <<System>> => \E d \in ds(m) : d.rel = l.rel /\ d.mode = "overlay"
        /\ \E d \in Of(ds(m), "overlay") : IsPrefix(l.rel, d.rel)
    BY <2>1, <2>2 DEF LayersOk
  <2>4. m.id \in Nat
    BY <2>2 DEF SourcesOk
  <2>5. l.target \in Paths
    BY <2>3, MapTargetType
  <2>6. Placed(L, ds(m), l.target, << >>, m.id, l.rel)
    BY <2>2, <2>3, PlacedLayer
  <2>7. Placed(L, T, l.target, << >>, m.id, l.rel)
    BY <1>11, <1>12, <2>6, PlacedMore
  <2> QED
    BY <2>3, <2>4, <2>5, <2>7
<1>16. ASSUME NEW l \in Ls, NEW k \in Ls, l.target = k.target, l.mod = k.mod PROVE l = k
  <2>1. PICK m \in planned : l \in lay(m)
    BY <1>6
  <2>2. PICK n \in planned : k \in lay(n)
    BY <1>6
  <2>3. l.mod = m.id /\ k.mod = n.id
    BY <1>3, <2>1, <2>2 DEF LayersOk
  <2>4. m = n
    BY <1>4, <1>16, <2>3
  <2> QED
    BY <1>3, <1>16, <2>1, <2>2, <2>4
<1>17. ASSUME NEW f \in Fs
       PROVE  /\ f.mod \in Nat /\ f.rel \in Paths /\ f.target \in Paths /\ <<Last(f.rel)>> \in Paths
              /\ Placed(L, T, f.target, <<Last(f.rel)>>, f.mod, f.rel)
  <2>1. PICK m \in planned : f \in over(m).files
    BY <1>7
  <2>2. SourcesOk(L, ds(m), m.id) /\ FilesOk(L, ds(m), m.id, over(m).files)
    BY <1>3
  <2>3. PICK d \in Of(ds(m), "overlay") :
               /\ f.mod = m.id /\ f.rel = d.rel /\ d.type # "dir" /\ Len(d.rel) > 1
               /\ f.target = MapTarget(L, Front(d.rel))
    BY <2>1, <2>2 DEF FilesOk
  <2>4. m.id \in Nat /\ d.rel \in Paths
    BY <2>2 DEF SourcesOk, Of
  <2>5. Front(d.rel) \in Paths \ {<< >>} /\ <<Last(d.rel)>> \in Paths
    BY <2>3, <2>4, FrontType
  <2>6. f.target \in Paths
    BY <2>3, <2>5, MapTargetType
  <2>7. Placed(L, ds(m), f.target, <<Last(f.rel)>>, m.id, f.rel)
    BY <2>2, <2>3, PlacedFile
  <2>8. Placed(L, T, f.target, <<Last(f.rel)>>, m.id, f.rel)
    BY <1>11, <1>12, <2>7, PlacedMore
  <2> QED
    BY <2>3, <2>4, <2>5, <2>6, <2>8
<1>18. PlanOk(L, pl)
  <2> HIDE DEF pl
  <2> QED BY <1>1, <1>9, <1>10, <1>14, <1>15, <1>16, <1>17 DEF PlanOk
<1> HIDE DEF planned
<1> QED
  BY <1>1, <1>13, <1>18 DEF planned

-----------------------------------------------------------------------------
(* The layout of a device *)

ProbesOk(snap) == \A p \in DOMAIN snap.paths : snap.paths[p].canonical \in Paths

(* Probes of a device give paths (capture_layout_snapshot). *)
LEMMA SnapshotType ==
  ASSUME NEW in, IsDevice(in.device), NEW names
  PROVE  ProbesOk(CaptureSnapshot(in.device.mounts, There(in.device), in.device.failing, names))
<1> DEFINE d == in.device
           snap == CaptureSnapshot(d.mounts, There(d), d.failing, names)
<1>1. ASSUME NEW p \in DOMAIN There(d) PROVE There(d)[p].canonical \in Paths
  <2>1. p \in DOMAIN d.stock \cup {<< >>} /\ There(d)[p] = Probe(d, p)
    BY DEF There
  <2>2. p \in Paths
    <3>1. << >> \in Paths
      BY DEF Paths
    <3> QED
      BY <2>1, <3>1 DEF IsDevice
  <2>3. Probe(d, p).canonical = Canonical(d, p)
    BY DEF Probe
  <2> QED
    BY <2>1, <2>2, <2>3 DEF Canonical, IsDevice
<1>2. \A p \in DOMAIN snap.paths : p \in DOMAIN There(d) /\ snap.paths[p] = There(d)[p]
  BY DEF CaptureSnapshot
<1> HIDE DEF snap
<1> QED
  BY <1>1, <1>2 DEF ProbesOk, snap

(* A partition's root is one of the probed paths (choose_root). *)
LEMMA ChooseRootType ==
  ASSUME NEW snap, NEW n, NEW system, NEW a \in ChooseRoot(snap, n, system)
  PROVE  \E p \in DOMAIN snap.paths : a = snap.paths[p]
<1> DEFINE top    == <<n>>
           nested == <<System, n>>
           known  == {top, nested} \cap DOMAIN snap.paths
<1> HIDE DEF top, nested
<1>1. CASE known = {top, nested}
  <2>1. a = snap.paths[top] \/ a = snap.paths[nested]
    BY <1>1 DEF ChooseRoot, top, nested
  <2>2. top \in DOMAIN snap.paths /\ nested \in DOMAIN snap.paths
    BY <1>1
  <2> QED
    BY <2>1, <2>2
<1>2. CASE known = {nested} /\ known # {top, nested}
  <2>1. a = snap.paths[nested]
    BY <1>2 DEF ChooseRoot, top, nested
  <2> QED
    BY <1>2, <2>1
<1>3. CASE known # {nested} /\ known # {top, nested}
  <2>1. \E p \in known : a = snap.paths[p]
    BY <1>3 DEF ChooseRoot, top, nested
  <2> QED
    BY <2>1
<1> QED
  BY <1>1, <1>2, <1>3

(* A discovered layout has a root of system, and paths for roots (discover_layout). *)
LEMMA DiscoverType ==
  ASSUME NEW snap, ProbesOk(snap), NEW managed, NEW extras
  PROVE  LayoutOk(DiscoverLayout(snap, managed, extras))
<1> DEFINE sysAt  == <<System>> \in DOMAIN snap.paths
           system == IF sysAt THEN snap.paths[<<System>>].canonical ELSE <<System>>
           rooted == {n \in managed :
                        \E p \in ChooseRoot(snap, n, system) : ~IdentityFails(snap, p)}
           extra  == {n \in extras : <<n>> \in DOMAIN snap.paths}
           goodX  == {n \in extra : ~IdentityFails(snap, snap.paths[<<n>>])}
           probe(n) == IF n \in goodX THEN snap.paths[<<n>>]
                       ELSE CHOOSE p \in ChooseRoot(snap, n, system) : TRUE
           named  == rooted \cup goodX
           L == DiscoverLayout(snap, managed, extras)
<1>1. L.roots = [n \in named \cup {System} |-> IF n = System THEN system ELSE probe(n).canonical]
  BY DEF DiscoverLayout
<1>2. system \in Paths
  <2>1. <<System>> \in Paths
    BY NameRankAssumption DEF Paths
  <2> QED
    BY <2>1 DEF ProbesOk
<1>3. ASSUME NEW n \in named PROVE probe(n).canonical \in Paths
  <2>1. CASE n \in goodX
    <3>1. <<n>> \in DOMAIN snap.paths /\ probe(n) = snap.paths[<<n>>]
      BY <2>1
    <3> QED
      BY <3>1 DEF ProbesOk
  <2>2. CASE n \notin goodX
    <3>1. n \in rooted /\ probe(n) = CHOOSE p \in ChooseRoot(snap, n, system) : TRUE
      BY <2>2
    <3> HIDE DEF system, goodX, probe
    <3>2. probe(n) \in ChooseRoot(snap, n, system)
      BY <3>1
    <3>3. PICK p \in DOMAIN snap.paths : probe(n) = snap.paths[p]
      BY <3>2, ChooseRootType
    <3> QED
      BY <3>3 DEF ProbesOk
  <2> QED
    BY <2>1, <2>2
<1> HIDE DEF L, system, named, probe
<1> QED
  BY <1>1, <1>2, <1>3 DEF LayoutOk, L

(* The layout of a boot. *)
LEMMA LayoutType ==
  ASSUME NEW in, IsDevice(in.device)
  PROVE  LayoutOk(LayoutOf(in))
BY SnapshotType, DiscoverType DEF LayoutOf

(* The plan of a boot, and that its sources are what the modules offered. *)
LEMMA PlanType ==
  ASSUME NEW in, IsDevice(in.device), AreDirectories(in.dirs)
  PROVE  /\ LayoutOk(LayoutOf(in)) /\ PlanOk(LayoutOf(in), PlanOf(in))
         /\ PlanOf(in).tree \subseteq Offered(in)
<1> DEFINE L == LayoutOf(in)
           M == ListModules(in.dirs, ScanNames(L))
           rl(m) == ModuleRules(in.cfg, in.vfs, m.id)
           offers(m) == {[mod |-> m.id, rel |-> e.rel, target |-> MapTarget(L, e.rel), type |-> e.type,
                          replace |-> e.replace, mode |-> ResolveMode(rl(m), e.rel)] :
                           e \in {f \in m.entries : Mapped(L, f.rel)}}
<1>1. LayoutOk(L)
  BY LayoutType
<1>2. PlanOf(in) = BuildPlan(in.cfg, in.vfs, L, M)
  BY DEF PlanOf
<1>3. ModulesOk(M)
  <2> HIDE DEF L
  <2> QED BY ModulesType
<1>4. Offered(in) = UNION {offers(m) : m \in Planned(in.cfg, M)}
  BY DEF Offered
<1> HIDE DEF L, M
<1>5. PlanOk(L, BuildPlan(in.cfg, in.vfs, L, M))
  BY <1>1, <1>3, BuildPlanType
<1>6. ASSUME NEW s \in BuildPlan(in.cfg, in.vfs, L, M).tree PROVE s \in Offered(in)
  <2>1. PICK m \in Planned(in.cfg, M) :
          \E e \in {f \in m.entries : Mapped(L, f.rel)} :
            s = [mod |-> m.id, rel |-> e.rel, target |-> MapTarget(L, e.rel), type |-> e.type,
                 replace |-> e.replace, mode |-> ResolveMode(ModuleRules(in.cfg, in.vfs, m.id), e.rel)]
    BY <1>1, <1>3, BuildPlanType
  <2>2. s \in offers(m)
    BY <2>1
  <2> HIDE DEF offers
  <2> QED
    BY <1>4, <2>2
<1> QED
  BY <1>1, <1>2, <1>5, <1>6 DEF L

(* The device's own nodes are of no module. *)
LEMMA StockType ==
  ASSUME NEW d, IsDevice(d)
  PROVE  Stock(d) \in Views /\ \A p \in DOMAIN Stock(d) : Stock(d)[p].from.mod = 0
<1> DEFINE v == Stock(d)
           own(p) == [mod |-> 0, rel |-> p]
<1>1. v = [p \in DOMAIN d.stock |-> [kind |-> d.stock[p], opaque |-> FALSE, from |-> own(p)]]
  BY DEF Stock
<1>2. DOMAIN v = DOMAIN d.stock /\ v = [p \in DOMAIN v |-> v[p]]
  BY <1>1
<1>3. ASSUME NEW p \in DOMAIN d.stock
      PROVE  /\ p \in Paths \ {<< >>} /\ v[p] = [kind |-> d.stock[p], opaque |-> FALSE, from |-> own(p)]
             /\ d.stock[p] \in Kinds /\ own(p) \in [mod : Nat, rel : Paths] /\ own(p).mod = 0
  <2>1. p \in Paths \ {<< >>} /\ d.stock[p] \in NodeKinds
    BY DEF IsDevice
  <2>2. d.stock[p] \in Kinds
    BY <2>1 DEF NodeKinds, Kinds
  <2> QED
    BY <1>1, <2>1, <2>2
<1> HIDE DEF v, own
<1>4. \A p \in DOMAIN v : v[p] \in Nodes /\ v[p].from.mod = 0
  <2>1. \A k \in Kinds, o \in [mod : Nat, rel : Paths] :
          /\ [kind |-> k, opaque |-> FALSE, from |-> o] \in Nodes
          /\ [kind |-> k, opaque |-> FALSE, from |-> o].from = o
    BY DEF Nodes
  <2> SUFFICES ASSUME NEW p \in DOMAIN v PROVE v[p] \in Nodes /\ v[p].from.mod = 0
    OBVIOUS
  <2> DEFINE k == d.stock[p]
             o == own(p)
  <2>2. k \in Kinds /\ o \in [mod : Nat, rel : Paths] /\ o.mod = 0
    BY <1>2, <1>3
  <2>3. v[p] = [kind |-> k, opaque |-> FALSE, from |-> o]
    BY <1>2, <1>3
  <2> HIDE DEF k, o
  <2> QED
    BY <2>1, <2>2, <2>3
<1>5. v \in Views
  BY <1>2, <1>3, <1>4, ViewIntro
<1> QED
  BY <1>4, <1>5 DEF v

-----------------------------------------------------------------------------
(* What may be seen *)

(* Of a module only what it was planned to show, where it comes to lie. *)
Honest(L, T) ==
  {q \in Paths \X Nodes :
     \/ q[2].kind = "dir" \/ q[2].from.mod = 0
     \/ \E s \in T : /\ s.mode # "ignore" /\ q[2].from = [mod |-> s.mod, rel |-> s.rel]
                     /\ LandsAt(L, T, s, q[1])}

(* Honest allows what the lemmas about layers ask for. *)
LEMMA HonestType ==
  ASSUME NEW L, NEW T, TreeOk(L, T)
  PROVE  /\ Lasting(Honest(L, T)) /\ Leading(Honest(L, T))
         /\ \A p \in Paths, s \in T :
              s.mode # "ignore" /\ LandsAt(L, T, s, p) => <<p, SourceNode(s)>> \in Honest(L, T)
<1>1. Lasting(Honest(L, T))
  <2> SUFFICES ASSUME NEW p \in Paths, NEW n \in Nodes, <<p, n>> \in Honest(L, T)
               PROVE  <<p, [n EXCEPT !.opaque = FALSE]>> \in Honest(L, T)
    BY DEF Lasting
  <2> DEFINE m == [n EXCEPT !.opaque = FALSE]
  <2>1. m \in Nodes /\ m.kind = n.kind /\ m.from = n.from
    BY NodeTypes DEF Nodes
  <2> HIDE DEF m
  <2>2. <<p, m>> \in Honest(L, T)
    BY <2>1 DEF Honest
  <2> QED
    BY <2>2 DEF m
<1>2. Leading(Honest(L, T))
  <2>1. Dir.kind = "dir"
    BY DEF Dir
  <2> QED
    BY <2>1, NodeTypes DEF Leading, Honest
<1>3. ASSUME NEW p \in Paths, NEW s \in T, s.mode # "ignore", LandsAt(L, T, s, p)
      PROVE  <<p, SourceNode(s)>> \in Honest(L, T)
  <2>1. SourceNode(s) \in Nodes
    BY SourceNodeType DEF TreeOk
  <2>2. SourceNode(s).from = [mod |-> s.mod, rel |-> s.rel]
    BY DEF SourceNode
  <2> QED
    BY <1>3, <2>1, <2>2 DEF Honest
<1> QED
  BY <1>1, <1>2, <1>3

(* A layer that was placed. *)
LEMMA PlacedFits ==
  ASSUME NEW L, NEW T, TreeOk(L, T), NEW mod, NEW rel \in Paths, NEW dest \in Paths, NEW at \in Paths,
         Placed(L, T, at, dest, mod, rel)
  PROVE  Layer(T, mod, rel, dest) \in Fitting(at, Honest(L, T))
<1>1. ASSUME NEW s \in Of(T, "overlay"), s.mod = mod, IsPrefix(rel, s.rel)
      PROVE  <<at \o (dest \o Tail0(s.rel, rel)), SourceNode(s)>> \in Honest(L, T)
  <2>1. s \in T /\ s.mode # "ignore" /\ s.rel \in Paths
    BY DEF Of, TreeOk, Tree, SourceSet
  <2>2. Tail0(s.rel, rel) \in Paths
    BY <1>1, <2>1, PrefixSplit
  <2>3. dest \o Tail0(s.rel, rel) \in Paths
    BY <2>2, ConcatType
  <2>4. at \o (dest \o Tail0(s.rel, rel)) \in Paths
    BY <2>3, ConcatType
  <2>5. LandsAt(L, T, s, at \o (dest \o Tail0(s.rel, rel)))
    BY <1>1 DEF Placed
  <2> QED
    BY <2>1, <2>4, <2>5, HonestType
<1>2. Tree(T) /\ Leading(Honest(L, T))
  BY HonestType DEF TreeOk
<1> QED
  BY <1>1, <1>2, LayerFits

(* The layers of an overlay with a target of its own are honest (PlanBuilder::finish). *)
LEMMA DirectFits ==
  ASSUME NEW L, NEW pl, PlanOk(L, pl), NEW at \in Paths
  PROVE  DirectLayers(pl, at) \in Seq(Fitting(at, Honest(L, pl.tree)))
<1>1. IsFiniteSet(pl.layers) /\ TreeOk(L, pl.tree)
  BY DEF PlanOk
<1>2. \A l \in pl.layers : l.mod \in Nat
  BY DEF PlanOk
<1>3. \A l, k \in pl.layers : l.target = k.target /\ l.mod = k.mod => l = k
  BY DEF PlanOk
<1>4. ASSUME NEW l \in pl.layers, l.target = at
      PROVE  Layer(pl.tree, l.mod, l.rel, << >>) \in Fitting(at, Honest(L, pl.tree))
  <2>1. l.rel \in Paths /\ Placed(L, pl.tree, at, << >>, l.mod, l.rel)
    BY <1>4 DEF PlanOk
  <2>2. << >> \in Paths
    BY DEF Paths
  <2> QED
    BY <1>1, <2>1, <2>2, PlacedFits
<1> QED
  BY <1>1, <1>2, <1>3, <1>4, DirectLayersType

-----------------------------------------------------------------------------
(* Overlays that needed a place *)

(* The place of a target is above it (resolve_overlay_directory_target). *)
LEMMA PlaceType ==
  ASSUME NEW seen, NEW target \in Paths, Place(seen, target) # {}
  PROVE  /\ PlaceOf(seen, target).at \in Paths \ {<< >>} /\ PlaceOf(seen, target).rest \in Paths
         /\ PlaceOf(seen, target).at \o PlaceOf(seen, target).rest = target
         /\ PlaceOf(seen, target).rest = Tail0(target, PlaceOf(seen, target).at)
         /\ IsPrefix(PlaceOf(seen, target).at, target)
<1> DEFINE dirs == {p \in Steps(target) : IsDir(seen, p)}
           at == Deepest(dirs)
<1>1. dirs # {} /\ Place(seen, target) = {[at |-> at, rest |-> Tail0(target, at)]}
  BY DEF Place
<1>2. PlaceOf(seen, target) = [at |-> at, rest |-> Tail0(target, at)]
  BY <1>1 DEF PlaceOf
<1>3. dirs \in SUBSET Paths /\ \A p \in dirs : Len(p) <= Len(target)
  BY StepsType
<1>4. at \in dirs
  <2> HIDE DEF dirs
  <2> QED BY <1>1, <1>3, DeepestType, LenType
<1>5. at \in Paths \ {<< >>} /\ IsPrefix(at, target)
  BY <1>4, StepsType
<1> HIDE DEF at
<1> QED
  BY <1>2, <1>5, PrefixSplit

ShallowOk(L, T, E) ==
  /\ IsFiniteSet(E)
  /\ \A e \in E : /\ e.at \in Paths \ {<< >>} /\ e.mod \in Nat /\ e.rel \in Paths /\ e.dest \in Paths
                  /\ Placed(L, T, e.at, e.dest, e.mod, e.rel)
  /\ \A e, f \in E : e.at = f.at /\ e.mod = f.mod /\ e.rel = f.rel /\ e.dest = f.dest => e = f

(* A layer that is put further up, with the rest of the path in it, is the same. *)
LEMMA PlacedDeeper ==
  ASSUME NEW L, NEW T, NEW at \in Paths, NEW rest \in Paths, NEW dest \in Paths, NEW rel \in Paths,
         NEW mod, TreeOk(L, T), Placed(L, T, at \o rest, dest, mod, rel)
  PROVE  Placed(L, T, at, rest \o dest, mod, rel)
<1>0. \E s \in Of(T, "overlay") : s.mod = mod /\ IsPrefix(rel, s.rel)
  BY DEF Placed
<1> SUFFICES ASSUME NEW s \in Of(T, "overlay"), s.mod = mod, IsPrefix(rel, s.rel)
             PROVE  LandsAt(L, T, s, at \o ((rest \o dest) \o Tail0(s.rel, rel)))
  BY <1>0 DEF Placed
<1> DEFINE q == Tail0(s.rel, rel)
<1>1. s.rel \in Paths
  BY DEF Of, TreeOk, Tree, SourceSet
<1>2. q \in Paths
  BY <1>1, PrefixSplit
<1>3. LandsAt(L, T, s, (at \o rest) \o (dest \o q))
  BY DEF Placed
<1> HIDE DEF q
<1>4. (at \o rest) \o (dest \o q) = at \o ((rest \o dest) \o q)
  <2>1. SameCuts(at, rest, dest, q)
    BY <1>2, ConcatFour
  <2> QED
    BY <2>1 DEF SameCuts
<1>6. LandsAt(L, T, s, at \o ((rest \o dest) \o q))
  BY <1>3, <1>4
<1> QED
  BY <1>6 DEF q

(* So are the entries that needed a place (build_overlay_execution_plan). *)
LEMMA ShallowType ==
  ASSUME NEW L, NEW pl, PlanOk(L, pl), NEW seen, Placeable(pl, seen)
  PROVE  ShallowOk(L, pl.tree, ShallowEntries(pl, seen))
<1> DEFINE at(l) == PlaceOf(seen, l.target).at
           rest(l) == PlaceOf(seen, l.target).rest
           of(l) == [at |-> at(l), mod |-> l.mod, rel |-> l.rel, dest |-> rest(l)]
           single(f) == [at |-> at(f), mod |-> f.mod, rel |-> f.rel, dest |-> Append(rest(f), Last(f.rel))]
           A == {of(l) : l \in {k \in pl.layers : PlaceOf(seen, k.target).rest # << >>}}
           F == {single(f) : f \in pl.files}
           E == ShallowEntries(pl, seen)
<1>1. E = A \cup F
  BY DEF ShallowEntries
<1>2. TreeOk(L, pl.tree) /\ IsFiniteSet(pl.layers) /\ IsFiniteSet(pl.files)
  BY DEF PlanOk
<1>3. ASSUME NEW l \in pl.layers \cup pl.files
      PROVE  /\ l.target \in Paths /\ at(l) \in Paths \ {<< >>} /\ rest(l) \in Paths
             /\ at(l) \o rest(l) = l.target
  <2>1. l.target \in Paths
    BY DEF PlanOk
  <2>2. Place(seen, l.target) # {}
    BY DEF Placeable
  <2> QED
    BY <2>1, <2>2, PlaceType
<1> HIDE DEF at, rest, E
<1>4. ASSUME NEW e \in A PROVE \E l \in pl.layers : e = of(l)
  OBVIOUS
<1>5. ASSUME NEW e \in F PROVE \E f \in pl.files : e = single(f)
  OBVIOUS
<1>6. IsFiniteSet(A)
  <2> DEFINE g == [l \in pl.layers |-> of(l)]
  <2>1. \A e \in A : \E l \in pl.layers : e = g[l]
    BY <1>4
  <2> HIDE DEF A, g
  <2> QED BY <1>2, <2>1, FiniteImage
<1>7. IsFiniteSet(F)
  <2> DEFINE g == [f \in pl.files |-> single(f)]
  <2>1. \A e \in F : \E f \in pl.files : e = g[f]
    BY <1>5
  <2> HIDE DEF F, g
  <2> QED BY <1>2, <2>1, FiniteImage
<1>8. IsFiniteSet(E)
  <2> HIDE DEF A, F
  <2> QED BY <1>1, <1>6, <1>7, FS_Union
<1>9. ASSUME NEW l \in pl.layers
      PROVE  /\ at(l) \in Paths \ {<< >>} /\ l.mod \in Nat /\ l.rel \in Paths /\ rest(l) \in Paths
             /\ Placed(L, pl.tree, at(l), rest(l), l.mod, l.rel)
  <2>1. l.mod \in Nat /\ l.rel \in Paths /\ Placed(L, pl.tree, l.target, << >>, l.mod, l.rel)
    BY DEF PlanOk
  <2>2. at(l) \in Paths \ {<< >>} /\ rest(l) \in Paths /\ at(l) \o rest(l) = l.target
    BY <1>3
  <2>3. << >> \in Paths
    BY DEF Paths
  <2>4. Placed(L, pl.tree, at(l) \o rest(l), << >>, l.mod, l.rel)
    BY <2>1, <2>2
  <2>5. Placed(L, pl.tree, at(l), rest(l) \o << >>, l.mod, l.rel)
    BY <1>2, <2>1, <2>2, <2>3, <2>4, PlacedDeeper
  <2> QED
    BY <2>1, <2>2, <2>5, EmptyConcat
<1>10. ASSUME NEW f \in pl.files
       PROVE  /\ at(f) \in Paths \ {<< >>} /\ f.mod \in Nat /\ f.rel \in Paths
              /\ Append(rest(f), Last(f.rel)) \in Paths
              /\ Placed(L, pl.tree, at(f), Append(rest(f), Last(f.rel)), f.mod, f.rel)
  <2>1. /\ f.mod \in Nat /\ f.rel \in Paths /\ <<Last(f.rel)>> \in Paths
        /\ Placed(L, pl.tree, f.target, <<Last(f.rel)>>, f.mod, f.rel)
    BY DEF PlanOk
  <2>2. at(f) \in Paths \ {<< >>} /\ rest(f) \in Paths /\ at(f) \o rest(f) = f.target
    BY <1>3
  <2>3. Placed(L, pl.tree, at(f) \o rest(f), <<Last(f.rel)>>, f.mod, f.rel)
    BY <2>1, <2>2
  <2>4. Placed(L, pl.tree, at(f), rest(f) \o <<Last(f.rel)>>, f.mod, f.rel)
    BY <1>2, <2>1, <2>2, <2>3, PlacedDeeper
  <2>5. rest(f) \o <<Last(f.rel)>> \in Paths
    BY <2>1, <2>2, ConcatType
  <2>6. rest(f) \o <<Last(f.rel)>> = Append(rest(f), Last(f.rel))
    <3> DEFINE r == rest(f)
               n == Last(f.rel)
    <3>1. r \in Paths /\ <<n>> \in Paths
      BY <2>1, <2>2
    <3> HIDE DEF r, n
    <3>2. n \in Names /\ r \in Seq(Names)
      <4>1. <<n>>[1] \in Names
        BY <3>1 DEF Paths
      <4> QED
        BY <3>1, <4>1 DEF Paths
    <3>3. r \o <<n>> = Append(r, n)
      BY <3>2
    <3> QED
      BY <3>3 DEF r, n
  <2> QED
    BY <2>1, <2>2, <2>4, <2>5, <2>6
<1>11. ASSUME NEW e \in E
       PROVE  /\ e.at \in Paths \ {<< >>} /\ e.mod \in Nat /\ e.rel \in Paths /\ e.dest \in Paths
              /\ Placed(L, pl.tree, e.at, e.dest, e.mod, e.rel)
              /\ e = [at |-> e.at, mod |-> e.mod, rel |-> e.rel, dest |-> e.dest]
  <2>1. CASE e \in A
    <3>1. PICK l \in pl.layers : e = of(l)
      BY <1>4, <2>1
    <3>2. /\ e.at = at(l) /\ e.mod = l.mod /\ e.rel = l.rel /\ e.dest = rest(l)
      BY <3>1
    <3> QED
      BY <1>9, <3>1, <3>2
  <2>2. CASE e \in F
    <3>1. PICK f \in pl.files : e = single(f)
      BY <1>5, <2>2
    <3>2. /\ e.at = at(f) /\ e.mod = f.mod /\ e.rel = f.rel /\ e.dest = Append(rest(f), Last(f.rel))
      BY <3>1
    <3> QED
      BY <1>10, <3>1, <3>2
  <2> QED
    BY <1>1, <2>1, <2>2
<1>12. \A e, f \in E : e.at = f.at /\ e.mod = f.mod /\ e.rel = f.rel /\ e.dest = f.dest => e = f
  BY <1>11
<1>13. ShallowOk(L, pl.tree, E)
  BY <1>8, <1>11, <1>12 DEF ShallowOk
<1> QED
  BY <1>13 DEF E

(* Their layers are honest (mount_overlay_files). *)
LEMMA ShallowFits ==
  ASSUME NEW L, NEW pl, PlanOk(L, pl), NEW E, ShallowOk(L, pl.tree, E), NEW at \in Paths,
         \A e \in E : e.at = at
  PROVE  ShallowLayers(pl, E) \in Seq(Fitting(at, Honest(L, pl.tree)))
<1>1. EntrySet(E)
  BY DEF ShallowOk, EntrySet
<1>2. ASSUME NEW e \in E
      PROVE  Layer(pl.tree, e.mod, e.rel, e.dest) \in Fitting(at, Honest(L, pl.tree))
  <2>1. e.rel \in Paths /\ e.dest \in Paths /\ Placed(L, pl.tree, at, e.dest, e.mod, e.rel)
    BY DEF ShallowOk
  <2> QED
    BY <2>1, PlacedFits DEF PlanOk
<1> QED
  BY <1>1, <1>2, ShallowLayersType

-----------------------------------------------------------------------------
(* Magic mounts and rules *)

(* What an honest view is. *)
LEMMA SeenElim ==
  ASSUME NEW G, NEW seen \in Fitting(<< >>, G)
  PROVE  /\ seen \in Views
         /\ \A p \in DOMAIN seen : p \in Paths \ {<< >>} /\ seen[p] \in Nodes /\ <<p, seen[p]>> \in G
<1>1. seen \in Views /\ \A p \in DOMAIN seen : <<<< >> \o p, seen[p]>> \in G
  BY DEF Fitting
<1> QED
  BY <1>1, EmptyConcat, ViewElim

(* When a view is honest. *)
LEMMA SeenIntro ==
  ASSUME NEW G, NEW seen, seen = [p \in DOMAIN seen |-> seen[p]],
         \A p \in DOMAIN seen : p \in Paths \ {<< >>} /\ seen[p] \in Nodes /\ <<p, seen[p]>> \in G
  PROVE  seen \in Fitting(<< >>, G)
<1>1. seen \in Views
  BY ViewIntro
<1>2. \A p \in DOMAIN seen : <<<< >> \o p, seen[p]>> \in G
  BY EmptyConcat
<1> QED
  BY <1>1, <1>2 DEF Fitting

(* A node that the Magic walk reaches shows one of its sources (do_mount). *)
LEMMA MagicNodesType ==
  ASSUME NEW L, NEW T, TreeOk(L, T), NEW p \in MagicNodes(T)
  PROVE  /\ p \in Paths \ {<< >>} /\ HasBackend(T, "magic", p)
         /\ FileTypeFor(T, "magic", p) # "dir" =>
              \E s \in T : MagicNode(T, p) = SourceNode(s) /\ s.target = p /\ s.mode = "magic"
<1>1. PICK s \in Of(T, "magic") : p \in Steps(s.target)
  BY DEF MagicNodes
<1>2. s.target \in Paths
  BY DEF Of, TreeOk, Tree
<1>3. p \in Paths \ {<< >>} /\ IsPrefix(p, s.target)
  BY <1>1, <1>2, StepsType
<1>4. HasBackend(T, "magic", p)
  BY <1>3 DEF HasBackend
<1>5. ASSUME FileTypeFor(T, "magic", p) # "dir"
      PROVE  \E t \in T : MagicNode(T, p) = SourceNode(t) /\ t.target = p /\ t.mode = "magic"
  <2> DEFINE own == Of(At(T, p), "magic")
  <2>1. own # {}
    BY <1>4, <1>5 DEF FileTypeFor, SourceFor
  <2>2. SourceSet(own)
    <3>1. own \in SUBSET T
      BY DEF Of, At
    <3> HIDE DEF own
    <3> QED
      BY <3>1, SourceSubset DEF TreeOk, Tree
  <2>3. Topmost(own) \in own
    <3> HIDE DEF own
    <3> QED BY <2>1, <2>2, TopmostType
  <2>4. MagicNode(T, p) = SourceNode(Topmost(own))
    BY <1>5 DEF MagicNode
  <2>5. Topmost(own) \in T /\ Topmost(own).target = p /\ Topmost(own).mode = "magic"
    BY <2>3 DEF Of, At
  <2> HIDE DEF own
  <2> QED
    BY <2>4, <2>5
<1> QED
  BY <1>3, <1>4, <1>5

(* What Magic mounts leave is honest (magic_mount). *)
LEMMA MagicFits ==
  ASSUME NEW L, NEW T, TreeOk(L, T), NEW seen \in Fitting(<< >>, Honest(L, T))
  PROVE  MagicView(T, seen) \in Fitting(<< >>, Honest(L, T))
<1> DEFINE nodes    == MagicNodes(T)
           type(p)  == FileTypeFor(T, "magic", p)
           built(p) == InTmpfs(T, seen, Front(p))
           paths    == {p \in nodes : IF built(p) THEN type(p) # "whiteout" ELSE p \in DOMAIN seen} \cup
                       {p \in DOMAIN seen \ nodes : Mirrored(T, p)}
           v == MagicView(T, seen)
<1>1. v = [p \in paths |-> IF p \notin nodes \/ (~built(p) /\ type(p) # "file") THEN seen[p]
                           ELSE MagicNode(T, p)]
  BY DEF MagicView
<1>2. ASSUME NEW p \in paths
      PROVE  p \in Paths \ {<< >>} /\ v[p] \in Nodes /\ <<p, v[p]>> \in Honest(L, T)
  <2>1. CASE p \notin nodes \/ (~built(p) /\ type(p) # "file")
    <3>1. p \in DOMAIN seen /\ v[p] = seen[p]
      BY <1>1, <2>1
    <3> QED
      BY <3>1, SeenElim
  <2>2. CASE ~(p \notin nodes \/ (~built(p) /\ type(p) # "file"))
    <3>1. p \in nodes /\ v[p] = MagicNode(T, p)
      BY <1>1, <2>2
    <3>2. p \in Paths \ {<< >>}
      BY <3>1, MagicNodesType
    <3>3. CASE type(p) = "dir"
      <4>1. v[p] = Dir
        BY <3>1, <3>3 DEF MagicNode
      <4> QED
        BY <3>2, <4>1, HonestType, NodeTypes DEF Leading
    <3>4. CASE type(p) # "dir"
      <4>1. PICK s \in T : MagicNode(T, p) = SourceNode(s) /\ s.target = p /\ s.mode = "magic"
        BY <3>1, <3>4, MagicNodesType
      <4>2. SourceNode(s) \in Nodes
        BY SourceNodeType DEF TreeOk
      <4>3. LandsAt(L, T, s, p) /\ s.mode # "ignore"
        BY <4>1 DEF LandsAt
      <4> QED
        BY <3>1, <3>2, <4>1, <4>2, <4>3, HonestType
    <3> QED
      BY <3>3, <3>4
  <2> QED
    BY <2>1, <2>2
<1>3. DOMAIN v = paths /\ v = [p \in DOMAIN v |-> v[p]]
  BY <1>1
<1> HIDE DEF v, paths
<1>4. v \in Fitting(<< >>, Honest(L, T))
  BY <1>2, <1>3, SeenIntro
<1> QED
  BY <1>4 DEF v

(* The parent of a path. *)
LEMMA ParentType ==
  ASSUME NEW p \in Paths \ {<< >>}
  PROVE  Front(p) \in Paths /\ IsPrefix(Front(p), p) /\ Len(Front(p)) = Len(p) - 1
<1> DEFINE q == SubSeq(p, 1, Len(p) - 1)
<1>1. Len(p) \in Nat /\ Len(p) > 0
  BY DEF Paths
<1>2. q \in Paths /\ Len(q) = Len(p) - 1 /\ \A i \in 1..(Len(p) - 1) : q[i] = p[i]
  <2> DEFINE n == Len(p)
  <2>1. p \in Seq(Names) /\ n \in Nat /\ n > 0
    BY <1>1 DEF Paths
  <2>2. \A i \in 1..n : p[i] \in Names
    BY <2>1
  <2>3. n - 1 \in Int /\ 1 \in Int /\ \A i \in 1..(n - 1) : i \in 1..n
    BY <2>1
  <2>7. \A i \in 1..(n - 1) : p[i] \in Names
    BY <2>2, <2>3
  <2>8. /\ q \in Seq(Names)
        /\ Len(q) = IF 1 <= n - 1 THEN n - 1 - 1 + 1 ELSE 0
        /\ \A i \in 1..(n - 1 - 1 + 1) : q[i] = p[1 + i - 1]
    BY <2>3, <2>7, SubSeqProperties
  <2>4. q \in Seq(Names)
    BY <2>8
  <2> HIDE DEF q, n
  <2>5. Len(q) = n - 1
    BY <2>1, <2>8
  <2>6. ASSUME NEW i \in 1..(n - 1)
        PROVE  q[i] = p[i]
    <3>1. i \in 1..(n - 1 - 1 + 1) /\ 1 + i - 1 = i
      BY <2>1
    <3> QED
      BY <2>8, <3>1
  <2> USE DEF n
  <2> QED
    BY <2>4, <2>5, <2>6 DEF Paths
<1> HIDE DEF q
<1>3. IsPrefix(q, p)
  BY <1>1, <1>2, PrefixElements
<1> QED
  BY <1>2, <1>3 DEF Front, q

(* The rules of a batch show nodes where they are. *)
RulesFit(R, G) == \A r \in R : r.at \in Paths \ {<< >>} /\ r.node \in Nodes /\ <<r.at, r.node>> \in G

(* What such rules leave is honest (__hybridmount_get_rule_info). *)
LEMMA RuledFits ==
  ASSUME NEW G, Leading(G), NEW R, RulesFit(R, G), NEW seen \in Fitting(<< >>, G)
  PROVE  RuledView(R, seen) \in Fitting(<< >>, G)
<1> DEFINE put     == {r \in R : r.action # "whiteout"}
           gone(p) == \E r \in R : \/ IsStrictPrefix(r.at, p)
                                   \/ (r.at = p /\ r.action = "whiteout")
           led     == (UNION {Steps(Front(r.at)) : r \in put}) \ {r.at : r \in put}
           kept    == {p \in DOMAIN seen : ~gone(p)}
           paths   == kept \cup led \cup {r.at : r \in put}
           v == RuledView(R, seen)
<1>1. v = [p \in paths |->
             IF \E r \in put : r.at = p THEN (CHOOSE r \in put : r.at = p).node
             ELSE IF p \in kept THEN seen[p] ELSE Dir]
  BY DEF RuledView
<1>2. ASSUME NEW p \in paths
      PROVE  p \in Paths \ {<< >>} /\ v[p] \in Nodes /\ <<p, v[p]>> \in G
  <2>1. CASE \E r \in put : r.at = p
    <3> DEFINE r == CHOOSE o \in put : o.at = p
    <3>1. r \in put /\ r.at = p
      BY <2>1
    <3>2. v[p] = r.node
      BY <1>1, <2>1
    <3> HIDE DEF r
    <3> QED
      BY <3>1, <3>2 DEF RulesFit
  <2>2. CASE ~(\E r \in put : r.at = p) /\ p \in kept
    <3>1. v[p] = seen[p] /\ p \in DOMAIN seen
      BY <1>1, <2>2
    <3> QED
      BY <3>1, SeenElim
  <2>3. CASE ~(\E r \in put : r.at = p) /\ p \notin kept
    <3>1. v[p] = Dir
      BY <1>1, <2>3
    <3>2. p \in led
      BY <2>3
    <3>3. PICK r \in put : p \in Steps(Front(r.at))
      BY <3>2
    <3>4. Front(r.at) \in Paths
      BY ParentType DEF RulesFit
    <3>5. p \in Paths \ {<< >>}
      BY <3>3, <3>4, StepsType
    <3> QED
      BY <3>1, <3>5, NodeTypes DEF Leading
  <2> QED
    BY <2>1, <2>2, <2>3
<1>3. DOMAIN v = paths /\ v = [p \in DOMAIN v |-> v[p]]
  BY <1>1
<1> HIDE DEF v, paths
<1>4. v \in Fitting(<< >>, G)
  BY <1>2, <1>3, SeenIntro
<1> QED
  BY <1>4 DEF v

(* Every rule of a plan is a directory of its own or shows a source. *)
LEMMA VfsRulesType ==
  ASSUME NEW L, NEW T, TreeOk(L, T), NEW r \in VfsRules(T)
  PROVE  /\ r.at \in Paths \ {<< >>}
         /\ \/ r.action = "opaque" /\ r.node = Dir
            \/ \E s \in T : /\ r.node = SourceNode(s) /\ s.target = r.at /\ s.mode = "vfs"
                            /\ r.mod = s.mod /\ r.action \in {"whiteout", "inject"}
                            /\ r.action = "whiteout" <=> s.type = "whiteout"
<1> DEFINE nodes == UNION {Steps(s.target) : s \in Of(T, "vfs")}
           plain(n) == {s \in Of(At(T, n), "vfs") : s.type # "dir"}
           opaque(n) == [action |-> "opaque", at |-> n, mod |-> VfsOwner(T, n), node |-> Dir]
           other(n) == [action |-> IF Lowest(plain(n)).type = "whiteout" THEN "whiteout" ELSE "inject",
                        at |-> n, mod |-> Lowest(plain(n)).mod, node |-> SourceNode(Lowest(plain(n)))]
<1>1. \/ \E n \in nodes : r = opaque(n)
      \/ \E n \in nodes : plain(n) # {} /\ r = other(n)
  BY DEF VfsRules
<1>2. ASSUME NEW n \in nodes PROVE n \in Paths \ {<< >>}
  <2>1. PICK s \in Of(T, "vfs") : n \in Steps(s.target)
    OBVIOUS
  <2>2. s.target \in Paths
    BY DEF Of, TreeOk, Tree
  <2> QED
    BY <2>1, <2>2, StepsType
<1>3. CASE \E n \in nodes : r = opaque(n)
  BY <1>2, <1>3
<1>4. ASSUME NEW n \in nodes, plain(n) # {}, r = other(n)
      PROVE  /\ r.at \in Paths \ {<< >>}
             /\ \E s \in T : /\ r.node = SourceNode(s) /\ s.target = r.at /\ s.mode = "vfs"
                             /\ r.mod = s.mod /\ r.action \in {"whiteout", "inject"}
                             /\ r.action = "whiteout" <=> s.type = "whiteout"
  <2> DEFINE s == Lowest(plain(n))
  <2>1. plain(n) \in SUBSET T
    BY DEF Of, At
  <2>2. SourceSet(plain(n))
    <3> HIDE DEF plain
    <3> QED BY <2>1, SourceSubset DEF TreeOk, Tree
  <2>3. s \in plain(n)
    <3> HIDE DEF plain
    <3> QED BY <1>4, <2>2, LowestType
  <2>4. s \in T /\ s.target = n /\ s.mode = "vfs"
    BY <2>3 DEF Of, At
  <2>5. /\ r.at = n /\ r.node = SourceNode(s) /\ r.mod = s.mod
        /\ r.action = IF s.type = "whiteout" THEN "whiteout" ELSE "inject"
    BY <1>4
  <2> HIDE DEF s
  <2> QED
    BY <1>2, <2>4, <2>5
<1> HIDE DEF nodes, plain, opaque, other
<1> QED
  BY <1>1, <1>3, <1>4

(* The rules of a plan do (build_vfs_rules). *)
LEMMA VfsRulesFit ==
  ASSUME NEW L, NEW T, TreeOk(L, T)
  PROVE  RulesFit(VfsRules(T), Honest(L, T))
<1> SUFFICES ASSUME NEW r \in VfsRules(T)
             PROVE  /\ r.at \in Paths \ {<< >>} /\ r.node \in Nodes
                    /\ <<r.at, r.node>> \in Honest(L, T)
  BY DEF RulesFit
<1>1. r.at \in Paths \ {<< >>}
  BY VfsRulesType
<1>2. CASE r.node = Dir
  BY <1>1, <1>2, HonestType, NodeTypes DEF Leading
<1>3. ASSUME NEW s \in T, r.node = SourceNode(s), s.target = r.at, s.mode = "vfs"
      PROVE  r.node \in Nodes /\ <<r.at, r.node>> \in Honest(L, T)
  <2>1. SourceNode(s) \in Nodes
    BY SourceNodeType DEF TreeOk
  <2>2. LandsAt(L, T, s, r.at) /\ s.mode # "ignore"
    BY <1>3 DEF LandsAt
  <2> QED
    BY <1>1, <1>3, <2>1, <2>2, HonestType
<1> QED
  BY <1>1, <1>2, <1>3, VfsRulesType

(* The least path of a finite set, by the planner's order. *)
LEMMA FirstPath ==
  ASSUME NEW S \in SUBSET Paths, IsFiniteSet(S), S # {}
  PROVE  (CHOOSE t \in S : \A u \in S \ {t} : RelBefore(t, u)) \in S
<1> DEFINE R == {p \in S \X S : RelBefore(p[1], p[2])}
<1>1. Orders(R, S)
  BY RelBeforeOrders DEF Orders
<1>2. \A s, t \in S : <<s, t>> \in R => RelBefore(s, t)
  OBVIOUS
<1> HIDE DEF R
<1>3. \E t \in S : \A u \in S \ {t} : RelBefore(t, u)
  <2>1. PICK t \in S : \A u \in S \ {t} : <<t, u>> \in R
    BY <1>1, First
  <2>2. \A u \in S \ {t} : RelBefore(t, u)
    BY <1>2, <2>1
  <2> QED
    BY <2>2
<1> QED
  BY <1>3

(* What is shown at each step of a boot is honest, by the plan that was made of what
   it found, and what remains to be mounted is where it belongs. *)
HonestNow == Fitting(<< >>, Honest(LayoutOf(input), plan.tree))
ViewInv ==
  /\ IsDevice(input.device) /\ AreDirectories(input.dirs)
  /\ mounted \in SUBSET Paths
  /\ pc \in {"plan", "mount", "inject", "done", "ready", "failed"}
  /\ pc = "plan" => view = Stock(input.device)
  /\ pc \in {"mount", "inject", "done"} => plan = PlanOf(input) /\ view \in HonestNow
  /\ pc = "inject" => base = view
  /\ pc = "mount" => /\ IsFiniteSet(direct) /\ direct \subseteq Paths
                     /\ ShallowOk(LayoutOf(input), plan.tree, shallow)

(* A boot starts honest. *)
LEMMA ViewInit == HotInit => ViewInv
<1> SUFFICES ASSUME HotInit PROVE ViewInv
  OBVIOUS
<1>1. PICK in \in Inputs, loads \in BOOLEAN :
        input = [device |-> in.device, dirs |-> in.dirs, cfg |-> in.cfg,
                 vfs |-> loads /\ WantsVfs(in.cfg)]
  BY DEF HotInit, Init
<1>2. IsDevice(input.device) /\ AreDirectories(input.dirs)
  BY <1>1, InputsAssumption
<1>3. mounted \in SUBSET Paths
  BY <1>2 DEF HotInit, Init, IsDevice
<1>4. pc = "plan" /\ view = Stock(input.device)
  BY DEF HotInit, Init
<1> QED
  BY <1>2, <1>3, <1>4 DEF ViewInv

(* The device alone is honest. *)
LEMMA StockHonest ==
  ASSUME NEW L, NEW T, NEW d, IsDevice(d)
  PROVE  Stock(d) \in Fitting(<< >>, Honest(L, T))
<1> DEFINE v == Stock(d)
<1>1. v \in Views /\ \A p \in DOMAIN v : v[p].from.mod = 0
  BY StockType
<1> HIDE DEF v
<1>2. ASSUME NEW p \in DOMAIN v
      PROVE  p \in Paths /\ v[p] \in Nodes /\ <<<< >> \o p, v[p]>> \in Honest(L, T)
  <2>1. p \in Paths \ {<< >>} /\ v[p] \in Nodes
    BY <1>1 DEF Views
  <2>2. << >> \o p = p
    BY <2>1, EmptyConcat
  <2> QED
    BY <1>1, <2>1, <2>2 DEF Honest
<1> QED
  BY <1>1, <1>2 DEF Fitting, v

(* The plan of a boot is made of what it found (run_mount_pipeline_impl). *)
LEMMA MakePlanHonest == ViewInv /\ MakePlan => ViewInv'
<1> SUFFICES ASSUME ViewInv, MakePlan PROVE ViewInv'
  OBVIOUS
<1> DEFINE p == PlanOf(input)
           L == LayoutOf(input)
<1>1. IsDevice(input.device) /\ AreDirectories(input.dirs) /\ view = Stock(input.device)
  BY DEF ViewInv, MakePlan
<1>2. PlanOk(L, p)
  BY <1>1, PlanType
<1>3. view \in Fitting(<< >>, Honest(L, p.tree))
  BY <1>1, StockHonest
<1>4. input' = input /\ view' = view /\ mounted' = mounted /\ plan' = p
  BY DEF MakePlan
<1>5. pc' \in {"mount", "failed"}
  BY DEF MakePlan
<1>6. ASSUME pc' = "mount"
      PROVE  /\ IsFiniteSet(direct') /\ direct' \subseteq Paths
             /\ ShallowOk(L, p.tree, shallow')
  <2>1. Placeable(p, view) /\ direct' = DirectTargets(p, view) /\ shallow' = ShallowEntries(p, view)
    BY <1>6 DEF MakePlan
  <2>2. ShallowOk(L, p.tree, shallow')
    BY <1>2, <2>1, ShallowType
  <2>3. IsFiniteSet(p.layers) /\ \A l \in p.layers : l.target \in Paths
    BY <1>2 DEF PlanOk
  <2>4. direct' \subseteq Paths
    BY <2>1, <2>3 DEF DirectTargets
  <2>5. IsFiniteSet(direct')
    <3> DEFINE f == [l \in p.layers |-> l.target]
    <3>1. \A t \in direct' : \E l \in p.layers : t = f[l]
      BY <2>1 DEF DirectTargets
    <3> HIDE DEF f
    <3> QED
      BY <2>3, <3>1, FiniteImage
  <2> QED
    BY <2>2, <2>4, <2>5
<1> QED
  BY <1>1, <1>3, <1>4, <1>5, <1>6 DEF ViewInv, HonestNow

(* A failed boot leaves the device alone. *)
LEMMA FailHonest == ViewInv /\ Fail => ViewInv'
<1> SUFFICES ASSUME ViewInv, Fail PROVE ViewInv'
  OBVIOUS
<1>1. IsDevice(input.device) /\ AreDirectories(input.dirs)
  BY DEF ViewInv
<1>2. mounted' \in SUBSET Paths
  BY <1>1 DEF Fail, IsDevice
<1>3. pc' = "failed" /\ input' = input
  BY DEF Fail
<1> QED
  BY <1>1, <1>2, <1>3 DEF ViewInv

(* An overlay at its target (mount_overlay_phase). *)
LEMMA MountDirectHonest == ViewInv /\ MountDirect => ViewInv'
<1> SUFFICES ASSUME ViewInv, MountDirect PROVE ViewInv'
  OBVIOUS
<1> DEFINE at == CHOOSE t \in direct : \A u \in direct \ {t} : RelBefore(t, u)
           layers == DirectLayers(plan, at)
           L == LayoutOf(input)
           G == Honest(L, plan.tree)
<1>1. /\ pc = "mount" /\ IsDevice(input.device) /\ AreDirectories(input.dirs)
      /\ plan = PlanOf(input) /\ view \in Fitting(<< >>, G) /\ mounted \in SUBSET Paths
      /\ IsFiniteSet(direct) /\ direct \subseteq Paths /\ direct # {}
      /\ ShallowOk(L, plan.tree, shallow)
  BY DEF ViewInv, HonestNow, MountDirect
<1>2. PlanOk(L, plan)
  BY <1>1, PlanType
<1>3. Lasting(G)
  BY <1>2, HonestType DEF PlanOk
<1>4. at \in direct
  BY <1>1, FirstPath
<1>5. at \in Paths
  BY <1>1, <1>4
<1>6. \/ ChildrenSurvive(layers, at, mounted, view) /\ MountOverlay(at, layers)
           /\ direct' = direct \ {at} /\ UNCHANGED shallow
      \/ Fail
  BY DEF MountDirect
<1> HIDE DEF at
<1>7. layers \in Seq(Fitting(at, G))
  BY <1>2, <1>5, DirectFits
<1> HIDE DEF layers, G
<1>8. CASE /\ ChildrenSurvive(layers, at, mounted, view) /\ MountOverlay(at, layers)
           /\ direct' = direct \ {at} /\ UNCHANGED shallow
  <2>1. view' \in Fitting(<< >>, G)
    BY <1>1, <1>3, <1>5, <1>7, <1>8, OverlaidFits DEF MountOverlay
  <2>2. /\ mounted' = mounted \cup {at} /\ input' = input /\ plan' = plan /\ pc' = pc
        /\ shallow' = shallow /\ direct' = direct \ {at}
    BY <1>8 DEF MountOverlay
  <2>3. IsFiniteSet(direct') /\ direct' \subseteq Paths
    BY <1>1, <2>2, FS_Subset
  <2> QED
    BY <1>1, <1>5, <2>1, <2>2, <2>3 DEF ViewInv, HonestNow, G
<1> QED
  BY <1>6, <1>8, FailHonest

(* An overlay that needed a place (mount_overlay_files). *)
LEMMA MountShallowHonest == ViewInv /\ MountShallow => ViewInv'
<1> SUFFICES ASSUME ViewInv, MountShallow PROVE ViewInv'
  OBVIOUS
<1> DEFINE ats == {e.at : e \in shallow}
           at == CHOOSE t \in ats : \A u \in ats \ {t} : RelBefore(t, u)
           own == {e \in shallow : e.at = at}
           layers == ShallowLayers(plan, own)
           L == LayoutOf(input)
           G == Honest(L, plan.tree)
<1>1. /\ pc = "mount" /\ IsDevice(input.device) /\ AreDirectories(input.dirs)
      /\ plan = PlanOf(input) /\ view \in Fitting(<< >>, G) /\ mounted \in SUBSET Paths
      /\ IsFiniteSet(direct) /\ direct \subseteq Paths /\ shallow # {}
      /\ ShallowOk(L, plan.tree, shallow)
  BY DEF ViewInv, HonestNow, MountShallow
<1>2. PlanOk(L, plan)
  BY <1>1, PlanType
<1>3. Lasting(G)
  BY <1>2, HonestType DEF PlanOk
<1>4. ats \in SUBSET Paths /\ ats # {}
  BY <1>1 DEF ShallowOk
<1>5. IsFiniteSet(ats)
  <2> DEFINE f == [e \in shallow |-> e.at]
  <2>1. \A t \in ats : \E e \in shallow : t = f[e]
    OBVIOUS
  <2>2. IsFiniteSet(shallow)
    BY <1>1 DEF ShallowOk
  <2> HIDE DEF f, ats
  <2> QED
    BY <2>1, <2>2, FiniteImage
<1> HIDE DEF ats
<1>6. at \in Paths
  BY <1>4, <1>5, FirstPath
<1>7. \/ ChildrenSurvive(layers, at, mounted, view) /\ MountOverlay(at, layers)
           /\ shallow' = shallow \ own /\ UNCHANGED direct
      \/ Fail
  BY DEF MountShallow, ats
<1> HIDE DEF at
<1>8. ASSUME NEW E \in SUBSET shallow PROVE ShallowOk(L, plan.tree, E)
  BY <1>1, <1>8, FS_Subset DEF ShallowOk
<1>9. layers \in Seq(Fitting(at, G))
  <2>1. ShallowOk(L, plan.tree, own) /\ \A e \in own : e.at = at
    BY <1>8
  <2> HIDE DEF own
  <2> QED
    BY <1>2, <1>6, <2>1, ShallowFits
<1> HIDE DEF layers, G
<1>10. CASE /\ ChildrenSurvive(layers, at, mounted, view) /\ MountOverlay(at, layers)
            /\ shallow' = shallow \ own /\ UNCHANGED direct
  <2>1. view' \in Fitting(<< >>, G)
    BY <1>1, <1>3, <1>6, <1>9, <1>10, OverlaidFits DEF MountOverlay
  <2>2. /\ mounted' = mounted \cup {at} /\ input' = input /\ plan' = plan /\ pc' = pc
        /\ shallow' = shallow \ own /\ direct' = direct
    BY <1>10 DEF MountOverlay
  <2>3. ShallowOk(L, plan.tree, shallow')
    BY <1>8, <2>2
  <2> QED
    BY <1>1, <1>6, <2>1, <2>2, <2>3 DEF ViewInv, HonestNow, G
<1> QED
  BY <1>7, <1>10, FailHonest

(* Magic mounts (magic_mount). *)
LEMMA MountMagicHonest == ViewInv /\ MountMagic => ViewInv'
<1> SUFFICES ASSUME ViewInv, MountMagic PROVE ViewInv'
  OBVIOUS
<1> DEFINE L == LayoutOf(input)
           G == Honest(L, plan.tree)
<1>1. /\ pc = "mount" /\ IsDevice(input.device) /\ AreDirectories(input.dirs)
      /\ plan = PlanOf(input) /\ view \in Fitting(<< >>, G) /\ mounted \in SUBSET Paths
  BY DEF ViewInv, HonestNow, MountMagic
<1>2. TreeOk(L, plan.tree)
  BY <1>1, PlanType DEF PlanOk
<1>3. MagicView(plan.tree, view) \in Fitting(<< >>, G)
  BY <1>1, <1>2, MagicFits
<1> HIDE DEF G
<1>4. \/ /\ view' = MagicView(plan.tree, view) /\ base' = view' /\ pc' = "inject"
         /\ input' = input /\ plan' = plan /\ mounted' = mounted
      \/ Fail
  BY DEF MountMagic
<1>5. CASE /\ view' = MagicView(plan.tree, view) /\ base' = view' /\ pc' = "inject"
           /\ input' = input /\ plan' = plan /\ mounted' = mounted
  BY <1>1, <1>3, <1>5 DEF ViewInv, HonestNow, G
<1> QED
  BY <1>4, <1>5, FailHonest

(* The provider with or without its rules (apply_vfs_phase). *)
LEMMA ApplyRulesHonest == ViewInv /\ ApplyRules => ViewInv'
<1> SUFFICES ASSUME ViewInv, ApplyRules PROVE ViewInv'
  OBVIOUS
<1> DEFINE L == LayoutOf(input)
           G == Honest(L, plan.tree)
           batch == VfsRules(plan.tree)
<1>1. /\ pc = "inject" /\ IsDevice(input.device) /\ AreDirectories(input.dirs)
      /\ plan = PlanOf(input) /\ view \in Fitting(<< >>, G) /\ mounted \in SUBSET Paths
      /\ base = view
  BY DEF ViewInv, HonestNow, ApplyRules
<1>2. TreeOk(L, plan.tree)
  BY <1>1, PlanType DEF PlanOk
<1>3. RuledView(batch, base) \in Fitting(<< >>, G)
  <2>1. Leading(G)
    BY <1>2, HonestType
  <2>2. RulesFit(batch, G)
    BY <1>2, VfsRulesFit
  <2> HIDE DEF batch, G
  <2> QED
    BY <1>1, <2>1, <2>2, RuledFits
<1> HIDE DEF G
<1>4. \/ /\ pc' = "done" /\ view' \in {view, RuledView(batch, base)}
         /\ input' = input /\ plan' = plan /\ mounted' = mounted
      \/ Fail
  BY DEF ApplyRules, RulesTaken, ProviderLeftOut
<1>5. CASE /\ pc' = "done" /\ view' \in {view, RuledView(batch, base)}
           /\ input' = input /\ plan' = plan /\ mounted' = mounted
  BY <1>1, <1>3, <1>5 DEF ViewInv, HonestNow, G
<1> QED
  BY <1>4, <1>5, FailHonest

(* Once the boot is committed nothing of this is asked. *)
LEMMA LaterHonest ==
  ViewInv /\ (Commit \/ Load \/ Reload \/ Unload \/ Change) => ViewInv'
<1> SUFFICES ASSUME ViewInv, Commit \/ Load \/ Reload \/ Unload \/ Change PROVE ViewInv'
  OBVIOUS
<1>1. pc' = "ready" /\ input' = input /\ mounted' = mounted
  <2>1. CASE Commit
    BY <2>1 DEF Commit
  <2>2. ASSUME NEW b, NEW a, NEW rows, pc = "ready", Reconcile(b, a, rows)
        PROVE  pc' = "ready" /\ input' = input /\ mounted' = mounted
    BY <2>2 DEF Reconcile
  <2>3. CASE Load \/ Reload
    <3>1. pc = "ready" /\ \E m, l : Install(m, l)
      BY <2>3 DEF Load, Reload, HotReady
    <3> QED
      BY <2>2, <3>1 DEF Install
  <2>4. CASE Unload
    BY <2>2, <2>4 DEF Unload, HotReady
  <2>5. CASE Change
    BY <2>5 DEF Change, vars
  <2> QED
    BY <2>1, <2>3, <2>4, <2>5
<1> QED
  BY <1>1 DEF ViewInv

(* Every step of a boot, and of what follows, keeps the invariant. *)
LEMMA HotInductive == ViewInv /\ [HotNext]_hotVars => ViewInv'
<1> SUFFICES ASSUME ViewInv, [HotNext]_hotVars PROVE ViewInv'
  OBVIOUS
<1>1. CASE UNCHANGED hotVars
  BY <1>1 DEF hotVars, vars, overlays, provider, ViewInv, HonestNow
<1>2. CASE Next
  BY <1>2, MakePlanHonest, MountDirectHonest, MountShallowHonest, MountMagicHonest,
     ApplyRulesHonest DEF Next
<1>3. CASE Commit \/ Load \/ Reload \/ Unload \/ Change
  BY <1>3, LaterHonest
<1> QED
  BY <1>1, <1>2, <1>3 DEF HotNext

(* At each step of a boot (execute_mount_phases) what is seen of a module is a source of
   the plan, not left out, where the planner or its peculiar overlay layers put it. *)
THEOREM ViewIsHonest == HotSpec => []ViewInv
<1> QED
  BY ViewInit, HotInductive, PTL DEF HotSpec

(* What the invariant says of a boot that has ended. *)
LEMMA HonestMeansNoLeak == ViewInv => NothingLeaks
<1> SUFFICES ASSUME ViewInv, pc = "done", NEW p \in DOMAIN view,
                    view[p].from.mod # 0, view[p].kind # "dir"
             PROVE  \E o \in Offered(input) :
                      /\ o.mod = view[p].from.mod /\ o.rel = view[p].from.rel /\ o.mode # "ignore"
                      /\ \/ p = o.target
                         \/ p = Named(LayoutOf(input), o) /\ Stray(LayoutOf(input), Offered(input), o)
  BY DEF NothingLeaks
<1> DEFINE L == LayoutOf(input)
           T == plan.tree
<1>1. T \subseteq Offered(input)
  BY PlanType DEF ViewInv
<1>2. view \in Fitting(<< >>, Honest(L, T))
  BY DEF ViewInv, HonestNow
<1>3. <<p, view[p]>> \in Honest(L, T)
  BY <1>2, SeenElim
<1>4. PICK s \in T : /\ s.mode # "ignore" /\ view[p].from = [mod |-> s.mod, rel |-> s.rel]
                     /\ LandsAt(L, T, s, p)
  BY <1>3 DEF Honest
<1>5. Stray(L, T, s) => Stray(L, Offered(input), s)
  BY <1>1 DEF Stray
<1> QED
  BY <1>1, <1>4, <1>5 DEF LandsAt

(* Whatever of a module is seen after a boot is seen where the module put it, and no rule
   of the configuration says to leave it out: the staging of sys/fs.rs keeps Magic and
   ignored subtrees out of a lowerdir, for every device, tree and configuration. *)
THEOREM ViewNothingLeaks == HotSpec => []NothingLeaks
<1> QED
  BY ViewIsHonest, HonestMeansNoLeak, PTL

-----------------------------------------------------------------------------
(* Whose a rule is *)

(* The rules of some modules, one at a path; what a rule shows is of its module. *)
RuleSet(ids, R) ==
  /\ \A r \in R : r.at \in Paths \ {<< >>} /\ r.mod \in ids /\ r.node.from.mod \in {0, r.mod}
  /\ \A r, q \in R : r.at = q.at => r = q

(* The owner of an opaque rule has a source in the plan. *)
LEMMA VfsOwnerType ==
  ASSUME NEW L, NEW T, TreeOk(L, T), NEW n \in Paths, VfsOwned(T, n)
  PROVE  \E s \in Of(T, "vfs") : VfsOwner(T, n) = s.mod
<1> DEFINE S == {q \in Steps(n) : ReplaceFor(T, "vfs", q)}
           d == Deepest(S)
           own == Of(At(T, d), "vfs")
<1>1. S \in SUBSET Paths /\ (\A q \in S : Len(q) <= Len(n)) /\ Len(n) \in Nat
  BY StepsType, LenType
<1>2. S # {}
  BY DEF VfsOwned
<1>3. VfsOwner(T, n) = Topmost(own).mod
  BY DEF VfsOwner
<1>4. d \in S
  <2> HIDE DEF S
  <2> QED BY <1>1, <1>2, DeepestType
<1>5. ReplaceFor(T, "vfs", d)
  BY <1>4
<1> HIDE DEF d
<1>6. own # {}
  BY <1>5 DEF ReplaceFor, SourceFor
<1>7. own \in SUBSET T /\ own \subseteq Of(T, "vfs")
  BY DEF Of, At
<1> HIDE DEF own
<1>8. Topmost(own) \in own
  BY <1>6, <1>7, SourceSubset, TopmostType DEF TreeOk, Tree
<1> QED
  BY <1>3, <1>7, <1>8

(* The rules of a plan are of the modules of its sources for the provider, and no two
   at one path (collect_node). *)
LEMMA VfsRuleOwners ==
  ASSUME NEW L, NEW T, TreeOk(L, T), NEW ids, \A s \in Of(T, "vfs") : s.mod \in ids
  PROVE  RuleSet(ids, VfsRules(T))
<1> DEFINE nodes == UNION {Steps(s.target) : s \in Of(T, "vfs")}
           plain(n) == {s \in Of(At(T, n), "vfs") : s.type # "dir"}
           opaque(n) == [action |-> "opaque", at |-> n, mod |-> VfsOwner(T, n), node |-> Dir]
           other(n) == [action |-> IF Lowest(plain(n)).type = "whiteout" THEN "whiteout" ELSE "inject",
                        at |-> n, mod |-> Lowest(plain(n)).mod, node |-> SourceNode(Lowest(plain(n)))]
<1>1. ASSUME NEW r \in VfsRules(T)
      PROVE  \/ r.at \in nodes /\ VfsDir(T, r.at) /\ VfsOwned(T, r.at) /\ r = opaque(r.at)
             \/ r.at \in nodes /\ ~VfsDir(T, r.at) /\ r = other(r.at)
  <2>1. \/ \E n \in nodes : VfsDir(T, n) /\ VfsOwned(T, n) /\ r = opaque(n)
        \/ \E n \in nodes : ~VfsDir(T, n) /\ r = other(n)
    BY DEF VfsRules
  <2>2. ASSUME NEW n, r = opaque(n) PROVE r.at = n
    BY <2>2
  <2>3. ASSUME NEW n, r = other(n) PROVE r.at = n
    BY <2>3
  <2> HIDE DEF nodes, plain, opaque, other
  <2> QED
    BY <2>1, <2>2, <2>3
<1>2. ASSUME NEW r \in VfsRules(T), NEW q \in VfsRules(T), r.at = q.at
      PROVE  r = q
  <2> HIDE DEF nodes, opaque, other
  <2> QED
    BY <1>1, <1>2
<1>3. ASSUME NEW r \in VfsRules(T)
      PROVE  r.at \in Paths \ {<< >>} /\ r.mod \in ids /\ r.node.from.mod \in {0, r.mod}
  <2>1. r.at \in Paths \ {<< >>}
    BY VfsRulesType
  <2>2. CASE r.at \in nodes /\ VfsOwned(T, r.at) /\ r = opaque(r.at)
    <3>1. r.mod = VfsOwner(T, r.at) /\ r.node.from.mod = 0
      BY <2>2 DEF Dir
    <3>2. r.mod \in ids
      BY <2>1, <2>2, <3>1, VfsOwnerType
    <3> QED
      BY <2>1, <3>1, <3>2
  <2>3. CASE r.action # "opaque"
    <3>1. PICK s \in Of(T, "vfs") : r.node = SourceNode(s) /\ r.mod = s.mod
      BY <2>3, VfsRulesType DEF Of
    <3>2. r.node.from.mod = s.mod
      BY <3>1 DEF SourceNode
    <3> QED
      BY <2>1, <3>1, <3>2
  <2>4. r = other(r.at) => r.action # "opaque"
    <3> SUFFICES ASSUME r = other(r.at) PROVE r.action # "opaque"
      OBVIOUS
    <3> DEFINE t == Lowest(plain(r.at)).type
    <3>1. r.action = IF t = "whiteout" THEN "whiteout" ELSE "inject"
      OBVIOUS
    <3> QED
      BY <3>1
  <2> QED
    BY <1>1, <2>2, <2>3, <2>4
<1> QED
  BY <1>2, <1>3 DEF RuleSet

(* Of those of all its sources, then. *)
LEMMA VfsRuleSet ==
  ASSUME NEW L, NEW T, TreeOk(L, T), NEW ids, \A s \in T : s.mod \in ids
  PROVE  RuleSet(ids, VfsRules(T))
BY VfsRuleOwners DEF Of

-----------------------------------------------------------------------------
(* Where mounts are *)

(* What is of a module is at or below a mount of the boot. *)
Covered(M) ==
  {q \in Paths \X Nodes : q[2].from.mod # 0 => \E t \in M : IsPrefix(t, q[1])}

(* A copy of an opaque directory is of the same module. *)
LEMMA CoveredLasts == ASSUME NEW M PROVE Lasting(Covered(M))
<1> SUFFICES ASSUME NEW p \in Paths, NEW n \in Nodes, <<p, n>> \in Covered(M)
             PROVE  <<p, [n EXCEPT !.opaque = FALSE]>> \in Covered(M)
  BY DEF Lasting
<1>1. [n EXCEPT !.opaque = FALSE] \in Nodes /\ [n EXCEPT !.opaque = FALSE].from = n.from
  BY DEF Nodes
<1> QED
  BY <1>1 DEF Covered

(* More mounts cover more. *)
LEMMA CoveredMore ==
  ASSUME NEW M, NEW N, M \subseteq N, NEW at, NEW v \in Fitting(at, Covered(M))
  PROVE  v \in Fitting(at, Covered(N))
BY DEF Fitting, Covered

(* A mount covers its layers. *)
LEMMA LayersCovered ==
  ASSUME NEW M, NEW at \in Paths, at \in M, NEW G, NEW layers \in Seq(Fitting(at, G))
  PROVE  layers \in Seq(Fitting(at, Covered(M)))
<1>1. ASSUME NEW v \in Fitting(at, G) PROVE v \in Fitting(at, Covered(M))
  <2>1. v \in Views
    BY DEF Fitting
  <2>2. ASSUME NEW p \in DOMAIN v PROVE <<at \o p, v[p]>> \in Covered(M)
    <3>1. p \in Paths /\ v[p] \in Nodes
      BY <2>1, ViewElim
    <3>2. at \o p \in Paths /\ IsPrefix(at, at \o p)
      BY <3>1, PrefixConcat
    <3> HIDE DEF Covered
    <3> QED
      BY <3>1, <3>2 DEF Covered
  <2> QED
    BY <2>1, <2>2 DEF Fitting
<1>2. Fitting(at, G) \subseteq Fitting(at, Covered(M))
  BY <1>1
<1> DEFINE A == Fitting(at, G)
           B == Fitting(at, Covered(M))
<1> HIDE DEF A, B
<1>3. ASSUME A \subseteq B PROVE Seq(A) \subseteq Seq(B)
  BY <1>3
<1> QED
  BY <1>2, <1>3 DEF A, B

(* A directory that is built anew is in one that is moved into place, or is it. *)
LEMMA MovedAbove ==
  ASSUME NEW L, NEW T, TreeOk(L, T), NEW seen, NEW p \in Paths, InTmpfs(T, seen, p)
  PROVE  \E d \in MagicMoved(T, seen) : d \in Paths /\ IsPrefix(d, p)
<1> DEFINE S == {d \in MagicDirs(T) : IsPrefix(d, p) /\ Rebuilt(T, seen, d)}
           N == {Len(d) : d \in S}
<1>1. S \in SUBSET Paths
  <2>1. \A d \in MagicNodes(T) : d \in Paths
    BY MagicNodesType
  <2>2. << >> \in Paths
    BY PrefixSelf
  <2> QED
    BY <2>1, <2>2 DEF MagicDirs
<1>2. S # {}
  BY DEF InTmpfs
<1>3. N \in SUBSET Nat /\ N # {}
  BY <1>1, <1>2, LenType
<1>4. PICK d \in S : \A e \in S : Len(d) <= Len(e)
  <2>1. PICK n \in N : \A m \in N : n <= m
    <3> HIDE DEF N
    <3> QED BY <1>3, Least
  <2> QED
    BY <2>1
<1>5. ASSUME NEW e \in MagicDirs(T), IsStrictPrefix(e, d), Rebuilt(T, seen, e)
      PROVE  FALSE
  <2>1. e \in Paths
    BY MagicNodesType, PrefixSelf DEF MagicDirs
  <2>2. d \in Paths /\ IsPrefix(d, p)
    BY <1>1, <1>4
  <2>3. IsPrefix(e, d) /\ Len(e) < Len(d)
    BY <1>5, <2>1, <2>2, StrictPrefixLess
  <2>4. IsPrefix(e, p)
    BY <2>1, <2>2, <2>3, PrefixTrans
  <2>5. e \in S
    BY <1>5, <2>4
  <2>6. Len(d) <= Len(e)
    BY <1>4, <2>5
  <2> QED
    BY <2>1, <2>2, <2>3, <2>6, LenType
<1>6. d \in MagicMoved(T, seen)
  BY <1>4, <1>5 DEF MagicMoved
<1> QED
  BY <1>1, <1>4, <1>6

(* What Magic mounts leave is covered by them and by what was mounted before. *)
LEMMA MagicCovered ==
  ASSUME NEW L, NEW T, TreeOk(L, T), NEW M, NEW seen \in Fitting(<< >>, Covered(M))
  PROVE  MagicView(T, seen) \in Fitting(<< >>, Covered(M \cup MagicTargets(T, seen)))
<1> DEFINE nodes    == MagicNodes(T)
           type(p)  == FileTypeFor(T, "magic", p)
           built(p) == InTmpfs(T, seen, Front(p))
           paths    == {p \in nodes : IF built(p) THEN type(p) # "whiteout" ELSE p \in DOMAIN seen} \cup
                       {p \in DOMAIN seen \ nodes : Mirrored(T, p)}
           v == MagicView(T, seen)
           N == M \cup MagicTargets(T, seen)
<1>1. v = [p \in paths |-> IF p \notin nodes \/ (~built(p) /\ type(p) # "file") THEN seen[p]
                           ELSE MagicNode(T, p)]
  BY DEF MagicView
<1>2. ASSUME NEW p \in paths
      PROVE  p \in Paths \ {<< >>} /\ v[p] \in Nodes /\ <<p, v[p]>> \in Covered(N)
  <2>1. CASE p \notin nodes \/ (~built(p) /\ type(p) # "file")
    <3>1. p \in DOMAIN seen /\ v[p] = seen[p]
      BY <1>1, <2>1
    <3>2. p \in Paths \ {<< >>} /\ seen[p] \in Nodes /\ <<p, seen[p]>> \in Covered(M)
      BY <3>1, SeenElim
    <3> QED
      BY <3>1, <3>2 DEF Covered
  <2>2. CASE p \in nodes /\ (built(p) \/ type(p) = "file")
    <3>1. v[p] = MagicNode(T, p)
      BY <1>1, <2>2
    <3>2. p \in Paths \ {<< >>}
      BY <2>2, MagicNodesType
    <3>3. \E t \in N : IsPrefix(t, p)
      <4>1. CASE type(p) = "file"
        BY <2>2, <3>2, <4>1, PrefixSelf DEF MagicTargets
      <4>2. CASE built(p)
        <5>1. Front(p) \in Paths /\ IsPrefix(Front(p), p)
          BY <3>2, ParentType
        <5>2. PICK d \in MagicMoved(T, seen) : d \in Paths /\ IsPrefix(d, Front(p))
          BY <4>2, <5>1, MovedAbove
        <5>3. IsPrefix(d, p) /\ d \in N
          <6> DEFINE q == Front(p)
          <6>1. q \in Paths /\ IsPrefix(q, p) /\ IsPrefix(d, q)
            BY <5>1, <5>2
          <6> HIDE DEF q
          <6>2. IsPrefix(d, p)
            BY <3>2, <5>2, <6>1, PrefixTrans
          <6> QED
            BY <5>2, <6>2 DEF MagicTargets
        <5> QED
          BY <5>3
      <4> QED
        BY <2>2, <4>1, <4>2
    <3>4. v[p] \in Nodes
      <4>1. CASE type(p) = "dir"
        BY <3>1, <4>1, NodeTypes DEF MagicNode
      <4>2. CASE type(p) # "dir"
        <5>1. PICK s \in T : MagicNode(T, p) = SourceNode(s)
          BY <2>2, <4>2, MagicNodesType
        <5> QED
          BY <3>1, <5>1, SourceNodeType DEF TreeOk
      <4> QED
        BY <4>1, <4>2
    <3> QED
      BY <3>2, <3>3, <3>4 DEF Covered
  <2> QED
    BY <2>1, <2>2
<1>3. DOMAIN v = paths /\ v = [p \in DOMAIN v |-> v[p]]
  BY <1>1
<1> HIDE DEF v, paths
<1>4. v \in Fitting(<< >>, Covered(N))
  BY <1>2, <1>3, SeenIntro
<1> QED
  BY <1>4 DEF v

-----------------------------------------------------------------------------
(* One module's rules are exchanged *)

(* Without rules the view is what it was. *)
LEMMA RuledEmpty == ASSUME NEW seen \in Views PROVE RuledView({}, seen) = seen
<1>1. seen = [p \in DOMAIN seen |-> seen[p]]
  BY ViewElim
<1>2. RuledView({}, seen) = [p \in DOMAIN seen |-> seen[p]]
  BY DEF RuledView
<1> QED
  BY <1>1, <1>2

(* The table without a module's rules, and with new ones of it that meet no other. *)
Exchanged(R, id, after) == (R \ {r \in R : r.mod = id}) \cup after
Apart(R, id, after) ==
  \A o \in R \ {r \in R : r.mod = id}, r \in after : ~Overlap(o.at, r.at)

(* It is a table again (preflight_vfs_rules). *)
LEMMA ExchangeType ==
  ASSUME NEW ids, NEW R, RuleSet(ids, R), NEW id \in ids, NEW after, RuleSet({id}, after),
         Apart(R, id, after)
  PROVE  RuleSet(ids, Exchanged(R, id, after))
<1> DEFINE rest == R \ {r \in R : r.mod = id}
<1>1. ASSUME NEW o \in rest, NEW r \in after PROVE o.at # r.at
  <2>1. r.at \in Paths
    BY DEF RuleSet
  <2>2. IsPrefix(r.at, r.at)
    BY <2>1, PrefixSelf
  <2> QED
    BY <1>1, <2>2 DEF Apart, Overlap
<1>2. ASSUME NEW r \in rest \cup after
      PROVE  r.at \in Paths \ {<< >>} /\ r.mod \in ids /\ r.node.from.mod \in {0, r.mod}
  BY DEF RuleSet
<1>3. ASSUME NEW r \in rest \cup after, NEW q \in rest \cup after, r.at = q.at PROVE r = q
  <2>1. CASE r \in rest /\ q \in rest
    BY <1>3, <2>1 DEF RuleSet
  <2>2. CASE r \in after /\ q \in after
    BY <1>3, <2>2 DEF RuleSet
  <2> QED
    BY <1>1, <1>3, <2>1, <2>2
<1>4. Exchanged(R, id, after) = rest \cup after
  BY DEF Exchanged
<1> HIDE DEF rest
<1> QED
  BY <1>2, <1>3, <1>4 DEF RuleSet

(* What another module shows stays: a rule of its own is untouched, and what it mounted
   has a mount above, which no new rule is above or below (plan_hot_module). *)
LEMMA ExchangeKeeps ==
  ASSUME NEW ids, NEW R, RuleSet(ids, R), NEW id \in ids, NEW after, RuleSet({id}, after),
         Apart(R, id, after), NEW M \in SUBSET Paths, NEW seen \in Fitting(<< >>, Covered(M)),
         \A r \in after, t \in M : ~Overlap(r.at, t),
         NEW p \in DOMAIN RuledView(R, seen),
         RuledView(R, seen)[p].from.mod \notin {0, id}
  PROVE  /\ p \in DOMAIN RuledView(Exchanged(R, id, after), seen)
         /\ RuledView(Exchanged(R, id, after), seen)[p] = RuledView(R, seen)[p]
<1> DEFINE rest == R \ {r \in R : r.mod = id}
           S == Exchanged(R, id, after)
           put(Q)     == {r \in Q : r.action # "whiteout"}
           gone(Q, q) == \E r \in Q : \/ IsStrictPrefix(r.at, q)
                                      \/ (r.at = q /\ r.action = "whiteout")
           led(Q)     == (UNION {Steps(Front(r.at)) : r \in put(Q)}) \ {r.at : r \in put(Q)}
           kept(Q)    == {q \in DOMAIN seen : ~gone(Q, q)}
           paths(Q)   == kept(Q) \cup led(Q) \cup {r.at : r \in put(Q)}
           shown(Q, q) == IF \E r \in put(Q) : r.at = q THEN (CHOOSE r \in put(Q) : r.at = q).node
                          ELSE IF q \in kept(Q) THEN seen[q] ELSE Dir
<1>1. \A Q : RuledView(Q, seen) = [q \in paths(Q) |-> shown(Q, q)]
  BY DEF RuledView
<1>2. \A Q : /\ DOMAIN RuledView(Q, seen) = paths(Q)
             /\ \A q \in paths(Q) : RuledView(Q, seen)[q] = shown(Q, q)
  <2> HIDE DEF paths, shown
  <2> QED
    BY <1>1
<1>3. p \in paths(R) /\ RuledView(R, seen)[p] = shown(R, p)
  <2> HIDE DEF paths, shown
  <2> QED
    BY <1>2
<1>4. S = rest \cup after
  BY DEF Exchanged
<1>5. RuleSet(ids, S)
  BY ExchangeType
<1> HIDE DEF S
<1>6. CASE \E r \in put(R) : r.at = p
  <2> DEFINE o == CHOOSE r \in put(R) : r.at = p
  <2>1. o \in put(R) /\ o.at = p
    BY <1>6
  <2>2. RuledView(R, seen)[p] = o.node
    BY <1>6, <1>3
  <2> HIDE DEF o
  <2>3. o.mod # id
    BY <2>1, <2>2 DEF RuleSet
  <2>4. o \in put(S)
    BY <1>4, <2>1, <2>3
  <2>5. \A r \in put(S) : r.at = p => r = o
    BY <1>5, <2>1, <2>4 DEF RuleSet
  <2>6. (CHOOSE r \in put(S) : r.at = p) = o
    BY <2>1, <2>4, <2>5
  <2>7. p \in paths(S) /\ shown(S, p) = o.node
    <3> HIDE DEF put
    <3> QED
      BY <2>1, <2>4, <2>6
  <2> HIDE DEF paths, shown
  <2> QED
    BY <1>2, <2>2, <2>7 DEF S
<1>7. CASE ~(\E r \in put(R) : r.at = p) /\ p \in kept(R)
  <2>1. RuledView(R, seen)[p] = seen[p] /\ p \in DOMAIN seen
    BY <1>7, <1>3
  <2>2. p \in Paths \ {<< >>} /\ <<p, seen[p]>> \in Covered(M)
    BY <2>1, SeenElim
  <2>3. PICK t \in M : IsPrefix(t, p)
    BY <2>1, <2>2 DEF Covered
  <2>4. ASSUME NEW r \in S PROVE r.at # p /\ ~IsStrictPrefix(r.at, p)
    <3>1. CASE r \in rest
      BY <1>7, <3>1
    <3>2. CASE r \in after
      <4>1. ~IsPrefix(r.at, t) /\ ~IsPrefix(t, r.at)
        BY <3>2 DEF Overlap
      <4>2. r.at \in Paths /\ t \in Paths
        BY <1>5 DEF RuleSet
      <4>3. ~IsPrefix(r.at, p)
        BY <2>2, <2>3, <4>1, <4>2, PrefixCompare
      <4> QED
        BY <2>2, <4>2, <4>3, PrefixSelf, StrictPrefixLess
    <3> QED
      BY <1>4, <3>1, <3>2
  <2>5. p \in kept(S) /\ ~\E r \in put(S) : r.at = p
    BY <2>1, <2>4
  <2>6. p \in paths(S) /\ shown(S, p) = seen[p]
    <3> HIDE DEF put, kept
    <3> QED
      BY <2>5
  <2> HIDE DEF paths, shown
  <2> QED
    BY <1>2, <2>1, <2>6 DEF S
<1>8. CASE ~(\E r \in put(R) : r.at = p) /\ p \notin kept(R)
  <2>1. RuledView(R, seen)[p] = Dir
    BY <1>8, <1>3
  <2> QED
    BY <2>1 DEF Dir
<1> HIDE DEF put, kept
<1> QED
  BY <1>6, <1>7, <1>8

-----------------------------------------------------------------------------
(* Boots and the operations after them *)

(* The modules that directories hold. *)
Ids(dirs) == {d.id : d \in dirs}

(* The states are records; the user leaves the names of the directories. *)
InputsInv ==
  /\ input = [device |-> input.device, dirs |-> input.dirs, cfg |-> input.cfg, vfs |-> input.vfs]
  /\ now = [dirs |-> now.dirs, cfg |-> now.cfg, moved |-> now.moved, changes |-> now.changes]
  /\ AreDirectories(now.dirs) /\ Ids(now.dirs) \subseteq Ids(input.dirs)
  /\ now.moved \subseteq Managed

(* What the boot mounted covers what is seen of modules without rules; what is seen then
   is what the rules make of it, each the one rule of its path and of its module. *)
MadeInv ==
  /\ made = [overlay |-> made.overlay, magic |-> made.magic, mounts |-> made.mounts, ids |-> made.ids]
  /\ made.mounts \in SUBSET Paths
  /\ pc \in {"plan", "mount"} => view \in Fitting(<< >>, Covered(made.mounts))
  /\ pc \in {"inject", "done", "ready"} => base \in Fitting(<< >>, Covered(made.mounts))
  /\ pc \notin {"done", "ready"} => rules = {}
  /\ pc \in {"done", "ready"} => RuleSet(Ids(input.dirs), rules) /\ view = RuledView(rules, base)
  /\ ledger = [non_vfs |-> ledger.non_vfs, mounts |-> ledger.mounts, modules |-> ledger.modules,
               generation |-> ledger.generation]
  /\ pc = "ready" => ledger.mounts = made.mounts

OwnersInv == ViewInv /\ InputsInv /\ MadeInv

(* A boot starts with nothing mounted and no rules. *)
LEMMA OwnersInit == HotInit => OwnersInv
<1> SUFFICES ASSUME HotInit PROVE OwnersInv
  OBVIOUS
<1>1. ViewInv
  BY ViewInit
<1>2. InputsInv
  <2>1. PICK in \in Inputs, loads \in BOOLEAN :
          input = [device |-> in.device, dirs |-> in.dirs, cfg |-> in.cfg,
                   vfs |-> loads /\ WantsVfs(in.cfg)]
    BY DEF HotInit, Init
  <2>2. input = [device |-> input.device, dirs |-> input.dirs, cfg |-> input.cfg, vfs |-> input.vfs]
    BY <2>1
  <2>3. now = [dirs |-> input.dirs, cfg |-> input.cfg, moved |-> {}, changes |-> 0]
    BY DEF HotInit
  <2>4. AreDirectories(input.dirs)
    BY <1>1 DEF ViewInv
  <2> QED
    BY <2>2, <2>3, <2>4 DEF InputsInv
<1>3. MadeInv
  <2>1. pc = "plan" /\ rules = {} /\ made = NothingMade /\ view = Stock(input.device)
    BY DEF HotInit, Init
  <2>2. ledger = [non_vfs |-> {}, mounts |-> {}, modules |-> {}, generation |-> 0]
    BY DEF HotInit
  <2>3. view \in Fitting(<< >>, Covered({}))
    <3> DEFINE v == Stock(input.device)
    <3>1. v \in Views /\ \A p \in DOMAIN v : v[p].from.mod = 0
      BY <1>1, StockType DEF ViewInv
    <3> HIDE DEF v
    <3>2. ASSUME NEW p \in DOMAIN v
          PROVE  p \in Paths \ {<< >>} /\ v[p] \in Nodes /\ <<p, v[p]>> \in Covered({})
      BY <3>1, ViewElim DEF Covered
    <3>3. v = [p \in DOMAIN v |-> v[p]]
      BY <3>1, ViewElim
    <3>4. v \in Fitting(<< >>, Covered({}))
      BY <3>2, <3>3, SeenIntro
    <3> QED
      BY <2>1, <3>4 DEF v
  <2> QED
    BY <2>1, <2>2, <2>3 DEF MadeInv, NothingMade
<1> QED
  BY <1>1, <1>2, <1>3 DEF OwnersInv

(* A boot leaves its input. *)
LEMMA BootInputs == OwnersInv /\ Next /\ UNCHANGED <<now, ledger>> => InputsInv'
<1> SUFFICES ASSUME OwnersInv, Next, UNCHANGED <<now, ledger>> PROVE InputsInv'
  OBVIOUS
<1>1. input' = input /\ now' = now
  BY DEF Next, MakePlan, MountDirect, MountShallow, MountMagic, ApplyRules, RulesTaken, ProviderLeftOut,
         MountOverlay, Fail
<1> QED
  BY <1>1 DEF OwnersInv, InputsInv

(* Planning mounts nothing. *)
LEMMA MakePlanOwners == OwnersInv /\ MakePlan /\ UNCHANGED <<now, ledger>> => MadeInv'
<1> SUFFICES ASSUME OwnersInv, MakePlan, UNCHANGED <<now, ledger>> PROVE MadeInv'
  OBVIOUS
<1>1. pc = "plan" /\ pc' \in {"mount", "failed"}
  BY DEF MakePlan
<1> QED
  BY <1>1 DEF MakePlan, OwnersInv, MadeInv, provider

(* A failed boot owns nothing. *)
LEMMA FailOwners ==
  OwnersInv /\ pc \in {"mount", "inject"} /\ Fail /\ UNCHANGED <<now, ledger>> => MadeInv'
BY DEF Fail, OwnersInv, MadeInv, provider, NothingMade

(* An overlay covers what it shows. *)
LEMMA MountOverlayOwners ==
  ASSUME OwnersInv, pc = "mount", UNCHANGED ledger, NEW at \in Paths, NEW G,
         NEW layers \in Seq(Fitting(at, G)), ChildrenSurvive(layers, at, mounted, view),
         MountOverlay(at, layers)
  PROVE  MadeInv'
<1> DEFINE M == made.mounts
           N == M \cup {at} \cup Within(at, mounted)
<1>1. mounted \in SUBSET Paths /\ M \in SUBSET Paths /\ view \in Fitting(<< >>, Covered(M))
  BY DEF OwnersInv, ViewInv, MadeInv
<1>2. N \in SUBSET Paths
  BY <1>1 DEF Within
<1>3. made' = [made EXCEPT !.overlay = @ \cup {at}, !.mounts = N] /\ pc' = pc /\ rules' = rules
  BY DEF MountOverlay, provider
<1>4. /\ made' = [overlay |-> made'.overlay, magic |-> made'.magic, mounts |-> made'.mounts, ids |-> made'.ids]
      /\ made'.mounts = N
  BY <1>3 DEF OwnersInv, MadeInv
<1>5. view' \in Fitting(<< >>, Covered(N))
  <2>1. at \in N /\ M \subseteq N
    OBVIOUS
  <2> HIDE DEF N, M
  <2>2. layers \in Seq(Fitting(at, Covered(N)))
    BY <2>1, LayersCovered
  <2>3. view \in Fitting(<< >>, Covered(N))
    BY <1>1, <2>1, CoveredMore
  <2>4. Overlaid(layers, at, mounted, view) \in Fitting(<< >>, Covered(N))
    BY <1>1, <2>2, <2>3, CoveredLasts, OverlaidFits
  <2> QED
    BY <2>4 DEF MountOverlay
<1> HIDE DEF N
<1> QED
  BY <1>2, <1>3, <1>4, <1>5 DEF OwnersInv, MadeInv

(* An overlay at its target. *)
LEMMA MountDirectOwners == OwnersInv /\ MountDirect /\ UNCHANGED <<now, ledger>> => MadeInv'
<1> SUFFICES ASSUME OwnersInv, MountDirect, UNCHANGED <<now, ledger>> PROVE MadeInv'
  OBVIOUS
<1> DEFINE at == CHOOSE t \in direct : \A u \in direct \ {t} : RelBefore(t, u)
           layers == DirectLayers(plan, at)
           L == LayoutOf(input)
           G == Honest(L, plan.tree)
<1>1. /\ pc = "mount" /\ IsDevice(input.device) /\ AreDirectories(input.dirs)
      /\ plan = PlanOf(input) /\ IsFiniteSet(direct) /\ direct \subseteq Paths /\ direct # {}
  BY DEF OwnersInv, ViewInv, MountDirect
<1>2. PlanOk(L, plan)
  BY <1>1, PlanType
<1>3. at \in Paths
  BY <1>1, FirstPath
<1>4. \/ ChildrenSurvive(layers, at, mounted, view) /\ MountOverlay(at, layers)
      \/ Fail
  BY DEF MountDirect
<1> HIDE DEF at
<1>5. layers \in Seq(Fitting(at, G))
  BY <1>2, <1>3, DirectFits
<1> HIDE DEF layers, G
<1>6. CASE ChildrenSurvive(layers, at, mounted, view) /\ MountOverlay(at, layers)
  BY <1>1, <1>3, <1>5, <1>6, MountOverlayOwners
<1> QED
  BY <1>1, <1>4, <1>6, FailOwners

(* An overlay that needed a place. *)
LEMMA MountShallowOwners == OwnersInv /\ MountShallow /\ UNCHANGED <<now, ledger>> => MadeInv'
<1> SUFFICES ASSUME OwnersInv, MountShallow, UNCHANGED <<now, ledger>> PROVE MadeInv'
  OBVIOUS
<1> DEFINE ats == {e.at : e \in shallow}
           at == CHOOSE t \in ats : \A u \in ats \ {t} : RelBefore(t, u)
           own == {e \in shallow : e.at = at}
           layers == ShallowLayers(plan, own)
           L == LayoutOf(input)
           G == Honest(L, plan.tree)
<1>1. /\ pc = "mount" /\ IsDevice(input.device) /\ AreDirectories(input.dirs)
      /\ plan = PlanOf(input) /\ shallow # {} /\ ShallowOk(L, plan.tree, shallow)
  BY DEF OwnersInv, ViewInv, MountShallow
<1>2. PlanOk(L, plan)
  BY <1>1, PlanType
<1>3. ats \in SUBSET Paths /\ ats # {}
  BY <1>1 DEF ShallowOk
<1>4. IsFiniteSet(ats)
  <2> DEFINE f == [e \in shallow |-> e.at]
  <2>1. \A t \in ats : \E e \in shallow : t = f[e]
    OBVIOUS
  <2>2. IsFiniteSet(shallow)
    BY <1>1 DEF ShallowOk
  <2> HIDE DEF f, ats
  <2> QED
    BY <2>1, <2>2, FiniteImage
<1> HIDE DEF ats
<1>5. at \in Paths
  BY <1>3, <1>4, FirstPath
<1>6. \/ ChildrenSurvive(layers, at, mounted, view) /\ MountOverlay(at, layers)
      \/ Fail
  BY DEF MountShallow, ats
<1> HIDE DEF at
<1>7. layers \in Seq(Fitting(at, G))
  <2>1. ShallowOk(L, plan.tree, own) /\ \A e \in own : e.at = at
    BY <1>1, FS_Subset DEF ShallowOk
  <2> HIDE DEF own
  <2> QED
    BY <1>2, <1>5, <2>1, ShallowFits
<1> HIDE DEF layers, G
<1>8. CASE ChildrenSurvive(layers, at, mounted, view) /\ MountOverlay(at, layers)
  BY <1>1, <1>5, <1>7, <1>8, MountOverlayOwners
<1> QED
  BY <1>1, <1>6, <1>8, FailOwners

(* Magic mounts cover what they show. *)
LEMMA MountMagicOwners == OwnersInv /\ MountMagic /\ UNCHANGED <<now, ledger>> => MadeInv'
<1> SUFFICES ASSUME OwnersInv, MountMagic, UNCHANGED <<now, ledger>> PROVE MadeInv'
  OBVIOUS
<1> DEFINE L == LayoutOf(input)
           T == plan.tree
           M == made.mounts
           N == M \cup MagicTargets(T, view)
<1>1. /\ pc = "mount" /\ IsDevice(input.device) /\ AreDirectories(input.dirs)
      /\ plan = PlanOf(input) /\ M \in SUBSET Paths /\ view \in Fitting(<< >>, Covered(M))
  BY DEF OwnersInv, ViewInv, MadeInv, MountMagic
<1>2. TreeOk(L, T)
  BY <1>1, PlanType DEF PlanOk
<1>3. MagicTargets(T, view) \subseteq Paths
  <2>1. << >> \in Paths
    BY DEF Paths
  <2>2. \A n \in MagicNodes(T) : n \in Paths
    BY <1>2, MagicNodesType
  <2> QED
    BY <2>1, <2>2 DEF MagicTargets, MagicMoved, MagicDirs
<1>4. MagicView(T, view) \in Fitting(<< >>, Covered(N))
  BY <1>1, <1>2, MagicCovered
<1> HIDE DEF N
<1>5. CASE /\ view' = MagicView(T, view) /\ base' = view' /\ pc' = "inject"
           /\ made' = [made EXCEPT !.magic = MagicTargets(T, view), !.mounts = N,
                                   !.ids = MagicSuccesses(T, view)]
           /\ UNCHANGED <<input, plan, mounted, overlays, rules>>
  <2>1. N \in SUBSET Paths
    BY <1>1, <1>3 DEF N
  <2>2. /\ made' = [overlay |-> made'.overlay, magic |-> made'.magic, mounts |-> made'.mounts,
                    ids |-> made'.ids]
        /\ made'.mounts = N
    BY <1>5 DEF OwnersInv, MadeInv
  <2> QED
    BY <1>1, <1>4, <1>5, <2>1, <2>2 DEF OwnersInv, MadeInv
<1>6. \/ /\ view' = MagicView(T, view) /\ base' = view' /\ pc' = "inject"
         /\ made' = [made EXCEPT !.magic = MagicTargets(T, view), !.mounts = N,
                                 !.ids = MagicSuccesses(T, view)]
         /\ UNCHANGED <<input, plan, mounted, overlays, rules>>
      \/ Fail
  BY DEF MountMagic, N
<1> QED
  BY <1>1, <1>5, <1>6, FailOwners

(* A module that is listed has a directory. *)
LEMMA ListedIds ==
  ASSUME NEW dirs, NEW extra, NEW m \in ListModules(dirs, extra)
  PROVE  /\ m.id \in Ids(dirs)
         /\ m = [id |-> m.id, disabled |-> m.disabled, skip |-> m.skip, has_files |-> m.has_files,
                 entries |-> m.entries]
BY DEF ListModules, Ids

(* The rules of a boot are of the modules it found. *)
LEMMA PlannedRules ==
  ASSUME IsDevice(input.device), AreDirectories(input.dirs), plan = PlanOf(input)
  PROVE  RuleSet(Ids(input.dirs), VfsRules(plan.tree))
<1> DEFINE L == LayoutOf(input)
           M == ListModules(input.dirs, ScanNames(L))
           T == plan.tree
           ids == Ids(input.dirs)
<1>1. LayoutOk(L) /\ TreeOk(L, T)
  BY PlanType DEF PlanOk
<1>2. T = BuildPlan(input.cfg, input.vfs, L, M).tree
  BY DEF PlanOf
<1>3. ModulesOk(M)
  <2> HIDE DEF L
  <2> QED BY ModulesType
<1>4. \A m \in M : m.id \in ids
  BY ListedIds
<1> HIDE DEF L, M, T, ids
<1>5. ASSUME NEW s \in T PROVE s.mod \in ids
  <2>1. PICK m \in Planned(input.cfg, M) : s.mod = m.id
    BY <1>1, <1>2, <1>3, BuildPlanType
  <2> QED
    BY <1>4, <2>1 DEF Planned
<1>6. RuleSet(ids, VfsRules(T))
  BY <1>1, <1>5, VfsRuleSet
<1> QED
  BY <1>6 DEF T, ids

(* The rules that are left in the kernel are those of the batch, or none. *)
LEMMA ApplyRulesOwners == OwnersInv /\ ApplyRules /\ UNCHANGED <<now, ledger>> => MadeInv'
<1> SUFFICES ASSUME OwnersInv, ApplyRules, UNCHANGED <<now, ledger>> PROVE MadeInv'
  OBVIOUS
<1> DEFINE batch == VfsRules(plan.tree)
           ids == Ids(input.dirs)
<1>1. /\ pc = "inject" /\ IsDevice(input.device) /\ AreDirectories(input.dirs)
      /\ plan = PlanOf(input) /\ base = view /\ rules = {}
      /\ base \in Fitting(<< >>, Covered(made.mounts))
  BY DEF OwnersInv, ViewInv, MadeInv, ApplyRules
<1>2. RuleSet(ids, batch)
  BY <1>1, PlannedRules
<1>3. RuledView({}, base) = base
  BY <1>1, RuledEmpty DEF Fitting
<1>4. RuleSet(ids, {})
  BY DEF RuleSet
<1> HIDE DEF batch
<1>5. CASE RulesTaken
  <2>1. /\ made' = [made EXCEPT !.ids = @ \cup ModulesOf(plan, "vfs")]
        /\ pc' = "done" /\ rules' = batch /\ view' = RuledView(batch, base)
        /\ input' = input /\ base' = base
    BY <1>5 DEF RulesTaken, batch
  <2>2. /\ made' = [overlay |-> made'.overlay, magic |-> made'.magic, mounts |-> made'.mounts,
                    ids |-> made'.ids]
        /\ made'.mounts = made.mounts
    BY <2>1 DEF OwnersInv, MadeInv
  <2> QED
    BY <1>1, <1>2, <2>1, <2>2 DEF OwnersInv, MadeInv
<1>6. CASE ProviderLeftOut
  <2>1. pc' = "done" /\ UNCHANGED <<input, view, made, base, rules>>
    BY <1>6 DEF ProviderLeftOut, provider
  <2> QED
    BY <1>1, <1>3, <1>4, <2>1 DEF OwnersInv, MadeInv
<1>7. CASE Fail
  BY <1>1, <1>7, FailOwners
<1> QED
  BY <1>5, <1>6, <1>7 DEF ApplyRules

(* The ledger takes over what the boot mounted. *)
LEMMA CommitOwners == OwnersInv /\ Commit => OwnersInv'
<1> SUFFICES ASSUME OwnersInv, Commit PROVE OwnersInv'
  OBVIOUS
<1>1. ViewInv'
  BY LaterHonest DEF OwnersInv
<1>2. InputsInv'
  BY DEF Commit, OwnersInv, InputsInv
<1>3. MadeInv'
  BY DEF Commit, OwnersInv, MadeInv, provider
<1> QED
  BY <1>1, <1>2, <1>3 DEF OwnersInv

(* A directory that is altered keeps its name, and is a module's. *)
LEMMA AlteredType ==
  ASSUME NEW d, IsDirectory(d), NEW e \in Altered(d)
  PROVE  IsDirectory(e) /\ e.id = d.id /\ e.name = d.name
<1>1. /\ DOMAIN d = {"name", "id", "prop", "disable", "remove", "skip", "tree"}
      /\ d.id \in Nat \ {0} /\ IsTree(d.tree)
  BY DEF IsDirectory
<1>2. ASSUME NEW t \in LaterTrees, e = [d EXCEPT !.tree = t]
      PROVE  IsDirectory(e) /\ e.id = d.id /\ e.name = d.name
  BY <1>1, <1>2, LaterTreesAssumption DEF IsDirectory
<1>3. CASE e \in {[d EXCEPT !.disable = TRUE], [d EXCEPT !.remove = TRUE], [d EXCEPT !.skip = TRUE]}
  BY <1>1, <1>3 DEF IsDirectory
<1> QED
  BY <1>2, <1>3 DEF Altered

(* What the user does leaves the names of the directories. *)
LEMMA ChangeOwners == OwnersInv /\ Change => OwnersInv'
<1> SUFFICES ASSUME OwnersInv, Change PROVE OwnersInv'
  OBVIOUS
<1>1. ViewInv'
  BY LaterHonest DEF OwnersInv
<1>2. MadeInv'
  BY DEF Change, OwnersInv, MadeInv, vars, provider
<1>3. /\ input' = input /\ AreDirectories(now.dirs) /\ Ids(now.dirs) \subseteq Ids(input.dirs)
      /\ now.moved \subseteq Managed
      /\ now = [dirs |-> now.dirs, cfg |-> now.cfg, moved |-> now.moved, changes |-> now.changes]
      /\ input = [device |-> input.device, dirs |-> input.dirs, cfg |-> input.cfg, vfs |-> input.vfs]
  BY DEF OwnersInv, InputsInv, Change, vars
<1>4. ASSUME NEW d \in now.dirs, NEW to \in {{}} \cup {{e} : e \in Altered(d)},
             now' = [now EXCEPT !.dirs = (@ \ {d}) \cup to, !.changes = @ + 1]
      PROVE  InputsInv'
  <2> DEFINE D == (now.dirs \ {d}) \cup to
  <2>1. /\ now' = [dirs |-> now'.dirs, cfg |-> now'.cfg, moved |-> now'.moved, changes |-> now'.changes]
        /\ now'.dirs = D /\ now'.moved = now.moved
    BY <1>3, <1>4
  <2>2. \A e \in to : IsDirectory(e) /\ e.id = d.id /\ e.name = d.name
    BY <1>3, AlteredType DEF AreDirectories
  <2>3. IsFiniteSet(to) /\ \A e, f \in to : e = f
    BY FS_EmptySet, FS_Singleton
  <2>4. AreDirectories(D)
    <3>1. IsFiniteSet(D)
      <4>1. IsFiniteSet(now.dirs \ {d})
        BY <1>3, FS_Subset DEF AreDirectories
      <4> QED
        BY <2>3, <4>1, FS_Union
    <3>2. \A e \in D : IsDirectory(e)
      BY <1>3, <2>2 DEF AreDirectories
    <3>3. \A e, f \in D : e.name = f.name => e = f
      BY <1>3, <2>2, <2>3 DEF AreDirectories
    <3> QED
      BY <3>1, <3>2, <3>3 DEF AreDirectories
  <2>5. Ids(D) \subseteq Ids(now.dirs)
    BY <2>2 DEF Ids
  <2> HIDE DEF D
  <2> QED
    BY <1>3, <2>1, <2>4, <2>5 DEF InputsInv
<1>5. ASSUME NEW c, now' = [now EXCEPT !.cfg = c, !.changes = @ + 1]
      PROVE  InputsInv'
  BY <1>3, <1>5 DEF InputsInv
<1>6. ASSUME NEW n \in Managed, now' = [now EXCEPT !.moved = {n}, !.changes = @ + 1]
      PROVE  InputsInv'
  BY <1>3, <1>6 DEF InputsInv
<1>7. InputsInv'
  BY <1>4, <1>5, <1>6 DEF Change
<1> QED
  BY <1>1, <1>2, <1>7 DEF OwnersInv

(* A layout is a record. *)
LEMMA LayoutShape ==
  ASSUME NEW snap, NEW managed, NEW extras
  PROVE  \E roots, identities, errors, points :
           DiscoverLayout(snap, managed, extras) =
             [roots |-> roots, identities |-> identities, errors |-> errors, mount_points |-> points]
BY Zenon DEF DiscoverLayout

(* The layout that is detected after the boot has the root of system still. *)
LEMMA LaterLayout == OwnersInv => LayoutOk(LayoutNow)
<1> SUFFICES ASSUME OwnersInv PROVE LayoutOk(LayoutNow)
  OBVIOUS
<1> DEFINE in == [input EXCEPT !.cfg = now.cfg]
           l == LayoutOf(in)
           kept(f) == [n \in DOMAIN f \ now.moved |-> f[n]]
<1>1. in.device = input.device
  BY DEF OwnersInv, InputsInv
<1>2. LayoutOk(l)
  <2>1. IsDevice(in.device)
    BY <1>1 DEF OwnersInv, ViewInv
  <2> HIDE DEF in
  <2> QED
    BY <2>1, LayoutType
<1>3. l = [roots |-> l.roots, identities |-> l.identities, errors |-> l.errors,
           mount_points |-> l.mount_points]
  <2> HIDE DEF in
  <2> DEFINE there  == There(in.device)
             extras == ExtraPartitions(there, in.device.failing, in.cfg.extra)
             snap   == CaptureSnapshot(in.device.mounts, there, in.device.failing, Managed \cup extras)
  <2>1. l = DiscoverLayout(snap, Managed, extras)
    BY DEF LayoutOf
  <2> HIDE DEF l, snap, extras
  <2>2. PICK r, i, e, p : l = [roots |-> r, identities |-> i, errors |-> e, mount_points |-> p]
    BY <2>1, LayoutShape
  <2> QED
    BY <2>2
<1>4. LayoutNow = [l EXCEPT !.roots = kept(@), !.identities = kept(@),
                            !.errors = [n \in now.moved |-> "layout_unavailable"] @@ @]
  BY DEF LayoutNow
<1> HIDE DEF l
<1>5. LayoutNow.roots = kept(l.roots)
  BY <1>3, <1>4
<1>6. System \notin now.moved
  BY ManagedAssumption DEF OwnersInv, InputsInv
<1> QED
  BY <1>2, <1>5, <1>6 DEF LayoutOk

(* The rules that an operation loads are of the module it is about. *)
LEMMA HotRules ==
  ASSUME OwnersInv, NEW m \in InstalledIn(now.dirs, LayoutNow)
  PROVE  /\ m.id \in Ids(input.dirs)
         /\ RuleSet({m.id}, VfsRules(HotPlan(LayoutNow, m).tree))
<1> DEFINE L == LayoutNow
           q == Requested(m)
           T == HotPlan(L, m).tree
<1>1. LayoutOk(L)
  BY LaterLayout
<1>2. m \in ListModules(now.dirs, ScanNames(L))
  BY DEF InstalledIn
<1> HIDE DEF L
<1>3. /\ m.id \in Ids(now.dirs)
      /\ m = [id |-> m.id, disabled |-> m.disabled, skip |-> m.skip, has_files |-> m.has_files,
              entries |-> m.entries]
  BY <1>2, ListedIds
<1>4. q.id = m.id /\ q.entries = m.entries
  BY <1>3 DEF Requested
<1>5. ModulesOk({q})
  <2>1. AreDirectories(now.dirs)
    BY DEF OwnersInv, InputsInv
  <2>2. ModuleOk(m)
    BY <1>2, <2>1, ModulesType DEF ModulesOk
  <2>3. ModuleOk(q)
    BY <1>4, <2>2 DEF ModuleOk
  <2>4. IsFiniteSet({q})
    BY FS_Singleton
  <2> HIDE DEF q
  <2> QED
    BY <2>3, <2>4 DEF ModulesOk
<1>6. T = BuildPlan(now.cfg, TRUE, L, {q}).tree
  BY DEF HotPlan
<1>7. TreeOk(L, T)
  <2> HIDE DEF q, T
  <2> QED BY <1>1, <1>5, <1>6, BuildPlanType DEF PlanOk
<1>8. ASSUME NEW s \in T PROVE s.mod \in {m.id}
  <2> DEFINE M == {q}
             there == TRUE
  <2> HIDE DEF q, T
  <2>1. ModulesOk(M) /\ T = BuildPlan(now.cfg, there, L, M).tree /\ \A n \in M : n = q
    BY <1>5, <1>6
  <2> HIDE DEF M, there
  <2>2. PICK n \in Planned(now.cfg, M) : s.mod = n.id
    BY <1>1, <1>8, <2>1, BuildPlanType
  <2> QED
    BY <1>4, <2>1, <2>2 DEF Planned
<1>9. RuleSet({m.id}, VfsRules(T))
  <2> HIDE DEF T
  <2> QED BY <1>7, <1>8, VfsRuleSet
<1>10. m.id \in Ids(input.dirs)
  BY <1>3 DEF OwnersInv, InputsInv
<1> QED
  BY <1>9, <1>10 DEF L

(* What is asked of an operation on a module, and what it promises. *)
Exchanges(id, after) ==
  /\ pc = "ready" /\ id \in Ids(input.dirs) /\ RuleSet({id}, after)
  /\ \A r \in after, t \in ledger.mounts : ~Overlap(r.at, t)
  /\ \E rows : Reconcile(RulesOf(id), after, rows)

KeepsOthers(id) ==
  /\ \A r \in (rules \ rules') \cup (rules' \ rules) : r.mod = id
  /\ \A p \in DOMAIN view :
       view[p].from.mod \notin {0, id} => p \in DOMAIN view' /\ view'[p] = view[p]

(* The rules of one module are exchanged, and no other's (reconcile_vfs_rules). *)
LEMMA ReconcileOwners ==
  ASSUME OwnersInv, NEW id, NEW after, Exchanges(id, after)
  PROVE  OwnersInv' /\ KeepsOthers(id)
<1> DEFINE ids == Ids(input.dirs)
           M == made.mounts
           S == Exchanged(rules, id, after)
<1>1. /\ RuleSet(ids, rules) /\ id \in ids /\ RuleSet({id}, after) /\ M \in SUBSET Paths
      /\ base \in Fitting(<< >>, Covered(M)) /\ view = RuledView(rules, base)
      /\ \A r \in after, t \in M : ~Overlap(r.at, t)
  BY DEF OwnersInv, MadeInv, Exchanges
<1>2. PICK rows : Reconcile(RulesOf(id), after, rows)
  BY DEF Exchanges
<1>3. /\ rules' = S /\ view' = RuledView(S, base)
      /\ UNCHANGED <<input, pc, plan, mounted, overlays, made, base, now>>
      /\ ledger' = [ledger EXCEPT !.generation = @ + 1,
                                  !.modules = Refreshed(rows, S)]
  BY <1>2 DEF Reconcile, RulesOf, Exchanged
<1>4. Apart(rules, id, after)
  BY <1>2 DEF Reconcile, Preflight, RulesOf, Apart
<1>5. RuleSet(ids, S)
  BY <1>1, <1>4, ExchangeType
<1> HIDE DEF S
<1>6. MadeInv'
  <2>1. /\ ledger' = [non_vfs |-> ledger'.non_vfs, mounts |-> ledger'.mounts,
                      modules |-> ledger'.modules, generation |-> ledger'.generation]
        /\ ledger'.mounts = ledger.mounts
    BY <1>3 DEF OwnersInv, MadeInv
  <2>2. pc = "ready"
    BY DEF Exchanges
  <2> QED
    BY <1>3, <1>5, <2>1, <2>2 DEF OwnersInv, MadeInv
<1>7. InputsInv'
  BY <1>3 DEF OwnersInv, InputsInv
<1>8. ViewInv'
  <2>1. pc' = "ready" /\ input' = input /\ mounted' = mounted /\ pc = "ready"
    BY <1>3 DEF Exchanges
  <2> QED
    BY <2>1 DEF OwnersInv, ViewInv
<1>9. ASSUME NEW r \in (rules \ rules') \cup (rules' \ rules) PROVE r.mod = id
  BY <1>1, <1>3, <1>9 DEF S, Exchanged, RuleSet
<1>10. ASSUME NEW p \in DOMAIN view, view[p].from.mod \notin {0, id}
       PROVE  p \in DOMAIN view' /\ view'[p] = view[p]
  <2>1. p \in DOMAIN RuledView(rules, base) /\ RuledView(rules, base)[p].from.mod \notin {0, id}
    BY <1>1, <1>10
  <2>2. /\ p \in DOMAIN RuledView(Exchanged(rules, id, after), base)
        /\ RuledView(Exchanged(rules, id, after), base)[p] = RuledView(rules, base)[p]
    BY <1>1, <1>4, <2>1, ExchangeKeeps
  <2> QED
    BY <1>1, <1>3, <2>2 DEF S
<1> QED
  BY <1>6, <1>7, <1>8, <1>9, <1>10 DEF OwnersInv, KeepsOthers

(* Load and reload put rules of one module in place of those it had. *)
LEMMA InstallOwners ==
  OwnersInv /\ (Load \/ Reload) => OwnersInv' /\ \E id \in Ids(input.dirs) : KeepsOthers(id)
<1> SUFFICES ASSUME OwnersInv, Load \/ Reload
             PROVE  OwnersInv' /\ \E id \in Ids(input.dirs) : KeepsOthers(id)
  OBVIOUS
<1>1. pc = "ready"
  BY DEF Load, Reload, HotReady
<1>2. PICK m \in InstalledIn(now.dirs, LayoutNow) : Install(m, LayoutNow)
  BY DEF Load, Reload
<1> DEFINE after == VfsRules(HotPlan(LayoutNow, m).tree)
<1>3. m.id \in Ids(input.dirs) /\ RuleSet({m.id}, after)
  BY HotRules
<1>4. /\ \A r \in after, t \in ledger.mounts : ~Overlap(r.at, t)
      /\ \E rows : Reconcile(RulesOf(m.id), after, rows)
  BY <1>2 DEF Install, PlanHotModule
<1>5. Exchanges(m.id, after)
  <2> HIDE DEF after
  <2> QED BY <1>1, <1>3, <1>4 DEF Exchanges
<1> HIDE DEF after
<1> QED
  BY <1>3, <1>5, ReconcileOwners

(* Unload takes those of one module. *)
LEMMA UnloadOwners ==
  OwnersInv /\ Unload => OwnersInv' /\ \E id \in Ids(input.dirs) : KeepsOthers(id)
<1> SUFFICES ASSUME OwnersInv, Unload
             PROVE  OwnersInv' /\ \E id \in Ids(input.dirs) : KeepsOthers(id)
  OBVIOUS
<1>1. pc = "ready" /\ RuleSet(Ids(input.dirs), rules)
  BY DEF Unload, HotReady, OwnersInv, MadeInv
<1>2. PICK id \in {r.mod : r \in rules} \ ledger.non_vfs : Reconcile(RulesOf(id), {}, ledger.modules)
  BY DEF Unload
<1>3. id \in Ids(input.dirs)
  BY <1>1, <1>2 DEF RuleSet
<1>4. RuleSet({id}, {})
  BY DEF RuleSet
<1>5. Exchanges(id, {})
  BY <1>1, <1>2, <1>3, <1>4 DEF Exchanges
<1> QED
  BY <1>3, <1>5, ReconcileOwners

(* Every step keeps the invariant. *)
LEMMA OwnersInductive == OwnersInv /\ [HotNext]_hotVars => OwnersInv'
<1> SUFFICES ASSUME OwnersInv, [HotNext]_hotVars PROVE OwnersInv'
  OBVIOUS
<1>1. ViewInv'
  BY HotInductive DEF OwnersInv
<1>2. CASE UNCHANGED hotVars
  <2>1. InputsInv' /\ MadeInv'
    BY <1>2 DEF hotVars, vars, provider, OwnersInv, InputsInv, MadeInv
  <2> QED
    BY <1>1, <2>1 DEF OwnersInv
<1>3. CASE Next /\ UNCHANGED <<now, ledger>>
  <2>1. InputsInv'
    BY <1>3, BootInputs
  <2>2. MadeInv'
    BY <1>3, MakePlanOwners, MountDirectOwners, MountShallowOwners, MountMagicOwners,
       ApplyRulesOwners DEF Next
  <2> QED
    BY <1>1, <2>1, <2>2 DEF OwnersInv
<1>4. CASE Commit
  BY <1>4, CommitOwners
<1>5. CASE Load \/ Reload \/ Unload
  BY <1>5, InstallOwners, UnloadOwners
<1>6. CASE Change
  BY <1>6, ChangeOwners
<1> QED
  BY <1>2, <1>3, <1>4, <1>5, <1>6 DEF HotNext

(* A step of a committed boot touches at most one module. *)
LEMMA HotStepKeeps ==
  OwnersInv /\ [HotNext]_hotVars =>
    (pc = "ready" => \E id \in {0} \cup {d.id : d \in input.dirs} : KeepsOthers(id))
<1> SUFFICES ASSUME OwnersInv, [HotNext]_hotVars, pc = "ready"
             PROVE  \E id \in {0} \cup {d.id : d \in input.dirs} : KeepsOthers(id)
  OBVIOUS
<1>1. CASE Load \/ Reload \/ Unload
  BY <1>1, InstallOwners, UnloadOwners DEF Ids
<1>2. CASE rules' = rules /\ view' = view
  <2>1. KeepsOthers(0)
    BY <1>2 DEF KeepsOthers
  <2> QED
    BY <2>1
<1>3. CASE UNCHANGED hotVars
  BY <1>2, <1>3 DEF hotVars, vars, provider
<1>4. CASE Change
  BY <1>2, <1>4 DEF Change, vars, provider
<1>5. ~Next /\ ~Commit
  BY DEF Next, MakePlan, MountDirect, MountShallow, MountMagic, ApplyRules, Commit
<1> QED
  BY <1>1, <1>3, <1>4, <1>5 DEF HotNext

(* A hot load, unload or reload (runtime/hot.rs) changes rules of one module only, and
   every file that another module shows, by whatever backend, is still there, for every
   device, configuration and history of changes by the user. *)
THEOREM HotNeverHurtsOthers == HotSpec => HotKeepsOthers
<1>1. OwnersInv /\ [HotNext]_hotVars =>
        [pc = "ready" =>
           \E id \in {0} \cup {d.id : d \in input.dirs} :
             /\ \A r \in (rules \ rules') \cup (rules' \ rules) : r.mod = id
             /\ \A p \in DOMAIN view :
                  view[p].from.mod \notin {0, id} => p \in DOMAIN view' /\ view'[p] = view[p]]_hotVars
  BY HotStepKeeps DEF KeepsOthers
<1> QED
  BY <1>1, OwnersInit, OwnersInductive, PTL DEF HotSpec, HotKeepsOthers

-----------------------------------------------------------------------------
(* What an overlay leaves alone *)

(* A node that one can see, and that is no directory. *)
Solid(n) == n \in Nodes /\ n.kind # "dir" /\ n.kind # "whiteout" /\ ~n.opaque
Has(v, p, n) == p \in DOMAIN v /\ v[p] = n

(* What layers may have that leave n at p alone: n itself there, and directories that
   are merged with what is below them above it. *)
Only(p, n) ==
  {q \in Paths \X Nodes :
     /\ q[1] = p => q[2] = n
     /\ IsStrictPrefix(q[1], p) => q[2].kind = "dir" /\ ~q[2].opaque}

(* Layers of which all but the last leave n at p alone, and of which one has it there. *)
Keeping(at, p, n, stack) ==
  /\ \A k \in 1..(Len(stack) - 1) : stack[k] \in Fitting(at, Only(at \o p, n))
  /\ \E k \in 1..Len(stack) : Has(stack[k], p, n)

(* A path that is put further down stays above what it was above. *)
LEMMA ConcatStrict ==
  ASSUME NEW at \in Paths, NEW q \in Paths, NEW p \in Paths, IsStrictPrefix(q, p)
  PROVE  IsStrictPrefix(at \o q, at \o p)
<1> DEFINE a == at \o q
           t == Tail0(p, q)
<1>1. a \in Paths /\ t \in Paths /\ t # << >> /\ p = q \o t
  BY ConcatType, StrictPrefixLess, PrefixSplit
<1> HIDE DEF t
<1>2. at \o p = a \o t
  <2>1. SameCut(at, q, t)
    BY <1>1, ConcatThree
  <2>2. (at \o q) \o t = at \o (q \o t)
    BY <2>1 DEF SameCut
  <2> QED
    BY <1>1, <2>2
<1> HIDE DEF a
<1>3. IsPrefix(a, a \o t) /\ a \o t # a
  BY <1>1, PrefixConcat
<1> QED
  BY <1>2, <1>3 DEF IsStrictPrefix, a

(* One overlay mount of such layers shows n. *)
LEMMA OnceKeeps ==
  ASSUME NEW at \in Paths, NEW p \in Paths \ {<< >>}, NEW n, Solid(n), NEW stack \in Seq(Views),
         Keeping(at, p, n, stack)
  PROVE  Has(OverlayOnce(stack), p, n)
<1> DEFINE S == {k \in 1..Len(stack) : p \in DOMAIN stack[k]}
<1>1. Len(stack) \in Nat /\ DOMAIN stack = 1..Len(stack)
  OBVIOUS
<1>2. PICK k \in S : \A m \in S : k <= m
  <2>1. S # {} /\ S \in SUBSET Nat
    BY <1>1 DEF Keeping, Has
  <2> HIDE DEF S
  <2> QED
    BY <2>1, Least
<1>3. k \in 1..Len(stack) /\ p \in DOMAIN stack[k]
  OBVIOUS
<1>4. ASSUME NEW j \in 1..(Len(stack) - 1), NEW q \in DOMAIN stack[j], IsPrefix(q, p)
      PROVE  /\ q = p => stack[j][q] = n
             /\ q # p => stack[j][q].kind = "dir" /\ ~stack[j][q].opaque
  <2>1. stack[j] \in Fitting(at, Only(at \o p, n))
    BY DEF Keeping
  <2>2. <<at \o q, stack[j][q]>> \in Only(at \o p, n) /\ q \in Paths
    BY <2>1, ViewElim DEF Fitting
  <2>3. q # p => IsStrictPrefix(at \o q, at \o p)
    <3>1. SUFFICES ASSUME q # p PROVE IsStrictPrefix(at \o q, at \o p)
      OBVIOUS
    <3>2. IsStrictPrefix(q, p)
      BY <1>4, <3>1 DEF IsStrictPrefix
    <3> QED
      BY <2>2, <3>2, ConcatStrict
  <2> QED
    BY <2>2, <2>3 DEF Only
<1>5. ASSUME NEW j \in 1..(k - 1) PROVE ~Hides(stack[j], p)
  <2>1. j \in 1..(Len(stack) - 1) /\ j < k /\ j \in 1..Len(stack)
    BY <1>1, <1>3
  <2>2. j \notin S
    BY <1>1, <1>2, <2>1
  <2>3. p \notin DOMAIN stack[j]
    BY <2>1, <2>2
  <2>4. ASSUME NEW q \in Steps(p), q \in DOMAIN stack[j]
        PROVE  stack[j][q].kind = "dir" /\ ~stack[j][q].opaque
    BY <1>4, <2>1, <2>3, <2>4, StepsType
  <2> QED
    BY <2>4 DEF Hides
<1>6. k \in Shown(stack, p) /\ \A m \in Shown(stack, p) : m \in S
  BY <1>1, <1>3, <1>5 DEF Shown
<1>7. Min(Shown(stack, p)) = k
  <2>1. \A m \in Shown(stack, p) : k <= m /\ m \in Nat
    BY <1>1, <1>2, <1>6
  <2>2. \A m \in Shown(stack, p) : (\A j \in Shown(stack, p) : m <= j) => m = k
    BY <1>1, <1>3, <1>6, <2>1
  <2> QED
    BY <1>6, <2>1, <2>2 DEF Min
<1>8. stack[k][p] = n
  <2>1. CASE k <= Len(stack) - 1
    BY <1>1, <1>3, <1>4, <2>1, PrefixSelf
  <2>2. CASE k = Len(stack)
    <3>1. PICK j \in 1..Len(stack) : p \in DOMAIN stack[j] /\ stack[j][p] = n
      BY DEF Keeping, Has
    <3>2. j \in S
      BY <3>1
    <3>3. j >= k /\ j <= Len(stack) /\ j \in Nat
      BY <1>1, <1>2, <3>1, <3>2
    <3>4. j = k
      BY <1>1, <2>2, <3>3
    <3> QED
      BY <3>1, <3>4
  <2>3. k <= Len(stack) - 1 \/ k = Len(stack)
    <3> DEFINE N == Len(stack)
    <3>1. N \in Nat /\ k \in 1..N
      BY <1>1, <1>3
    <3> HIDE DEF N
    <3>2. k <= N - 1 \/ k = N
      BY <3>1
    <3> QED
      BY <3>2 DEF N
  <2> QED
    BY <2>1, <2>2, <2>3
<1>9. [n EXCEPT !.opaque = FALSE] = n
  BY DEF Solid, Nodes
<1> HIDE DEF S
<1>10. p \in DOMAIN OverlayOnce(stack)
  BY <1>1, <1>3, <1>6, <1>7, <1>8 DEF OverlayOnce, Solid
<1>11. OverlayOnce(stack)[p] = [stack[Min(Shown(stack, p))][p] EXCEPT !.opaque = FALSE]
  BY <1>10 DEF OverlayOnce
<1> QED
  BY <1>7, <1>8, <1>9, <1>10, <1>11 DEF Has

(* The first step that stacks surplus layers keeps n. *)
LEMMA StepKeeps ==
  ASSUME NEW at \in Paths, NEW p \in Paths \ {<< >>}, NEW n, Solid(n), NEW stack \in Seq(Views),
         Keeping(at, p, n, stack)
  PROVE  CollapseStep(stack) \in Seq(Views) /\ Keeping(at, p, n, CollapseStep(stack))
<1> DEFINE N == Len(stack)
           split == N - (MaxLayers - 1)
           high == SubSeq(stack, 1, split)
           rest == SubSeq(stack, split + 1, N)
           low == OverlayOnce(rest)
<1>1. N \in Nat
  OBVIOUS
<1>2. CASE N <= MaxLayers
  BY <1>2 DEF CollapseStep
<1>3. CASE ~(N <= MaxLayers)
  <2>1. split \in 1..(N - 1) /\ MaxLayers \in Nat
    BY <1>1, <1>3, MaxLayersAssumption
  <2>2. CollapseStep(stack) = Append(high, low)
    BY <1>3 DEF CollapseStep
  <2> HIDE DEF split
  <2>3. /\ high \in Seq(Views) /\ Len(high) = split
        /\ \A k \in 1..split : high[k] = stack[k]
    BY <1>1, <2>1
  <2>4. /\ rest \in Seq(Views) /\ Len(rest) = N - split
        /\ \A k \in 1..(N - split) : rest[k] = stack[split + k]
    BY <1>1, <2>1
  <2>5. low \in Views
    <3>1. rest \in Seq(Fitting(at, Paths \X Nodes))
      <4>1. \A v \in Views : v \in Fitting(at, Paths \X Nodes)
        BY ConcatType, ViewElim DEF Fitting
      <4> DEFINE X == Fitting(at, Paths \X Nodes)
      <4>2. \A v \in Views : v \in X
        BY <4>1
      <4>3. rest \in Seq(Views)
        BY <2>4
      <4> HIDE DEF rest, X
      <4>4. rest \in Seq(X)
        BY <4>2, <4>3
      <4> QED
        BY <4>4 DEF X
    <3>2. Lasting(Paths \X Nodes)
      BY NodeTypes DEF Lasting
    <3>3. low \in Fitting(at, Paths \X Nodes)
      BY <3>1, <3>2, OverlayOnceFits
    <3> QED
      BY <3>3 DEF Fitting
  <2> DEFINE next == Append(high, low)
  <2> HIDE DEF high, low
  <2>6. /\ next \in Seq(Views) /\ Len(next) = split + 1 /\ next[split + 1] = low
        /\ \A k \in 1..split : next[k] = high[k]
    BY <1>1, <2>1, <2>3, <2>5
  <2>7. ASSUME NEW k \in 1..(N - 1)
        PROVE  stack[k] \in Fitting(at, Only(at \o p, n))
    BY DEF Keeping
  <2> HIDE DEF next, rest
  <2>8. \A k \in 1..(Len(next) - 1) : next[k] \in Fitting(at, Only(at \o p, n))
    BY <1>1, <2>1, <2>3, <2>6, <2>7
  <2>9. \E k \in 1..Len(next) : Has(next[k], p, n)
    <3>1. PICK j \in 1..N : Has(stack[j], p, n)
      BY DEF Keeping
    <3>2. CASE j <= split
      <4>1. j \in 1..split /\ j \in 1..Len(next) /\ next[j] = stack[j]
        BY <1>1, <2>1, <2>3, <2>6, <3>2
      <4> QED
        BY <3>1, <4>1
    <3>3. CASE ~(j <= split)
      <4>1. j - split \in 1..(N - split) /\ split + (j - split) = j
        BY <1>1, <2>1, <3>1, <3>3
      <4>2. rest[j - split] = stack[j]
        BY <2>4, <4>1
      <4>3. \A k \in 1..(Len(rest) - 1) : rest[k] \in Fitting(at, Only(at \o p, n))
        <5> TAKE k \in 1..(Len(rest) - 1)
        <5>1. k \in 1..(N - split) /\ split + k \in 1..(N - 1)
          BY <1>1, <2>1, <2>4
        <5> QED
          BY <2>4, <2>7, <5>1
      <4>4. Keeping(at, p, n, rest)
        BY <2>4, <3>1, <4>1, <4>2, <4>3 DEF Keeping
      <4>5. Has(low, p, n)
        BY <2>4, <4>4, OnceKeeps DEF low
      <4>6. split + 1 \in 1..Len(next)
        BY <2>1, <2>6
      <4> QED
        BY <2>6, <4>5, <4>6
    <3> QED
      BY <3>2, <3>3
  <2>10. Keeping(at, p, n, next)
    BY <2>8, <2>9 DEF Keeping
  <2> QED
    BY <2>2, <2>6, <2>10 DEF next
<1> QED
  BY <1>2, <1>3

(* Surplus layers are stacked without hiding n. *)
LEMMA CollapsedKeeps ==
  ASSUME NEW at \in Paths, NEW p \in Paths \ {<< >>}, NEW n, Solid(n), NEW stack \in Seq(Views),
         Keeping(at, p, n, stack)
  PROVE  Collapsed(stack) \in Seq(Views) /\ Keeping(at, p, n, Collapsed(stack))
<1> DEFINE N == Len(stack)
           f == CHOOSE g : g = [k \in 0..N |-> IF k = 0 THEN stack ELSE CollapseStep(g[k - 1])]
           Good(s) == s \in Seq(Views) /\ Keeping(at, p, n, s)
<1>1. N \in Nat
  OBVIOUS
<1>2. Collapsed(stack) = f[N]
  BY DEF Collapsed
<1>3. f = [k \in 0..N |-> IF k = 0 THEN stack ELSE CollapseStep(f[k - 1])]
  BY <1>1, CollapsedDef
<1>4. ASSUME NEW s, Good(s) PROVE Good(CollapseStep(s))
  BY <1>4, StepKeeps
<1>5. Good(stack)
  OBVIOUS
<1> HIDE DEF f, N, Good
<1> DEFINE T == {k \in 0..N : ~Good(f[k])}
<1>6. T = {}
  <2>1. SUFFICES ASSUME T # {} PROVE FALSE
    OBVIOUS
  <2>2. T \in SUBSET Nat
    OBVIOUS
  <2>3. PICK k \in T : \A m \in T : k <= m
    <3> HIDE DEF T
    <3> QED BY <2>1, <2>2, Least
  <2>4. k # 0
    BY <1>3, <1>5, <2>3
  <2>5. k - 1 \in 0..N /\ Good(f[k - 1])
    BY <1>1, <2>3, <2>4
  <2>6. f[k] = CollapseStep(f[k - 1])
    BY <1>3, <2>3, <2>4
  <2> QED
    BY <1>4, <2>3, <2>5, <2>6
<1>7. Good(f[N])
  BY <1>1, <1>6
<1> QED
  BY <1>2, <1>7 DEF Good

(* One overlay mount keeps n, that a layer has or that was there. *)
LEMMA OverlayKeeps ==
  ASSUME NEW at \in Paths, NEW p \in Paths \ {<< >>}, NEW n, Solid(n),
         NEW layers \in Seq(Fitting(at, Only(at \o p, n))), NEW lowest \in Views,
         Has(lowest, p, n) \/ \E k \in 1..Len(layers) : p \in DOMAIN layers[k]
  PROVE  Has(Overlay(layers, lowest), p, n)
<1> DEFINE X == Fitting(at, Only(at \o p, n))
           stack == Append(layers, lowest)
<1>1. X \subseteq Views
  BY DEF Fitting
<1>2. \A v \in X : p \in DOMAIN v => v[p] = n
  BY DEF Fitting, Only
<1> HIDE DEF X
<1>3. layers \in Seq(X) /\ layers \in Seq(Views) /\ Len(layers) \in Nat
  BY <1>1 DEF X
<1>4. /\ stack \in Seq(Views) /\ Len(stack) = Len(layers) + 1 /\ stack[Len(layers) + 1] = lowest
      /\ \A k \in 1..Len(layers) : stack[k] = layers[k] /\ layers[k] \in X
  BY <1>3
<1> HIDE DEF stack
<1>5. \A k \in 1..(Len(stack) - 1) : stack[k] \in X
  BY <1>3, <1>4
<1>6. \E k \in 1..Len(stack) : Has(stack[k], p, n)
  <2>1. CASE Has(lowest, p, n)
    <3>1. Len(layers) + 1 \in 1..Len(stack)
      BY <1>3, <1>4
    <3> QED
      BY <1>4, <2>1, <3>1
  <2>2. CASE \E k \in 1..Len(layers) : p \in DOMAIN layers[k]
    <3>1. PICK k \in 1..Len(layers) : p \in DOMAIN layers[k]
      BY <2>2
    <3>2. k \in 1..Len(stack) /\ stack[k] = layers[k] /\ layers[k] \in X
      BY <1>3, <1>4
    <3> QED
      BY <1>2, <3>1, <3>2 DEF Has
  <2> QED
    BY <2>1, <2>2
<1>7. Keeping(at, p, n, stack)
  BY <1>5, <1>6 DEF Keeping, X
<1>8. Collapsed(stack) \in Seq(Views) /\ Keeping(at, p, n, Collapsed(stack))
  BY <1>4, <1>7, CollapsedKeeps
<1> QED
  BY <1>8, OnceKeeps DEF Overlay, stack

(* A layer that has n has it for the directory below that holds n's path. *)
LEMMA ReachingHas ==
  ASSUME NEW step \in Paths, NEW p \in Paths \ {<< >>}, NEW layers \in Seq(Views),
         NEW k \in 1..Len(layers), step \o p \in DOMAIN layers[k]
  PROVE  \E j \in 1..Len(Reaching(layers, step)) : p \in DOMAIN Reaching(layers, step)[j]
<1> DEFINE some == {i \in DOMAIN layers : DOMAIN Part(layers[i], step) # {}}
           R == {q \in some \X some : q[1] < q[2]}
           nth == Ordered(some, R)
<1>1. some \in SUBSET (1..Len(layers)) /\ Len(layers) \in Nat
  OBVIOUS
<1>2. IsFiniteSet(some) /\ Orders(R, some)
  BY <1>1, NatOrder
<1>3. p \in DOMAIN Part(layers[k], step)
  <2>1. IsStrictPrefix(step, step \o p) /\ Tail0(step \o p, step) = p
    BY PrefixConcat DEF IsStrictPrefix
  <2> QED
    BY <2>1 DEF Part
<1>4. k \in some
  BY <1>3
<1>5. /\ nth \in Seq(some) /\ Len(nth) = Cardinality(some)
      /\ \A s \in some : \E j \in 1..Cardinality(some) : nth[j] = s
  <2> HIDE DEF some, R
  <2> QED BY <1>2, OrderedSeq
<1>6. Reaching(layers, step) = [j \in DOMAIN nth |-> Part(layers[nth[j]], step)]
  BY DEF Reaching
<1> HIDE DEF some, nth
<1>7. PICK j \in 1..Cardinality(some) : nth[j] = k
  BY <1>4, <1>5
<1>8. j \in 1..Len(nth) /\ DOMAIN nth = 1..Len(nth) /\ Len(nth) \in Nat
  BY <1>5
<1>9. Len(Reaching(layers, step)) = Len(nth)
  BY <1>6, <1>8
<1> QED
  BY <1>3, <1>6, <1>7, <1>8, <1>9

(* A mount of layers that leave n alone keeps n, or shows it if a layer has it; the
   mounts below it that are put back over it (prepare_overlay_view) hide it neither. *)
LEMMA OverlaidKeeps ==
  ASSUME NEW at \in Paths, NEW p \in Paths, NEW n, Solid(n),
         NEW layers \in Seq(Fitting(at, Only(p, n))),
         NEW points \in SUBSET Paths, NEW seen \in Views,
         ChildrenSurvive(layers, at, points, seen),
         \/ Has(seen, p, n)
         \/ IsStrictPrefix(at, p) /\ \E k \in 1..Len(layers) : Tail0(p, at) \in DOMAIN layers[k]
  PROVE  Has(Overlaid(layers, at, points, seen), p, n)
<1> DEFINE merged == [c \in {at} \cup Within(at, points) |->
                        Overlay(Reaching(layers, Tail0(c, at)), Part(seen, c))]
           below(c) == {c \o q : q \in DOMAIN merged[c]}
           holder(q) == Holder(at, points, q)
           shown == UNION {{q \in below(c) : holder(q) = c} : c \in DOMAIN merged}
           kept == {q \in DOMAIN seen : ~IsStrictPrefix(at, q)}
           v == Overlaid(layers, at, points, seen)
<1>1. v = [q \in kept \cup shown |->
             IF q \in kept \/ q \in points THEN seen[q]
             ELSE merged[holder(q)][Tail0(q, holder(q))]]
  BY DEF Overlaid
<1>2. CASE ~IsStrictPrefix(at, p)
  <2>1. p \in kept /\ seen[p] = n
    BY <1>2 DEF Has
  <2> HIDE DEF kept, shown, v, merged, holder
  <2> QED
    BY <1>1, <2>1 DEF Has, v
<1>3. CASE IsStrictPrefix(at, p)
  <2> DEFINE S == {c \in {at} \cup Within(at, points) : IsStrictPrefix(c, p)}
             c == holder(p)
             r == Tail0(p, c)
             step == Tail0(c, at)
  <2>1. c \in S
    <3>1. S # {} /\ S \in SUBSET Paths
      BY <1>3 DEF Within
    <3>2. \A d \in S : Len(d) <= Len(p)
      BY <3>1, StrictPrefixLess, LenType
    <3>3. c = Deepest(S)
      BY DEF Holder
    <3> HIDE DEF S, c
    <3> QED
      BY <3>1, <3>2, <3>3, DeepestType, LenType
  <2>2. c \in Paths /\ IsPrefix(at, c) /\ IsPrefix(c, p) /\ c # p /\ c \in DOMAIN merged
    BY <2>1, PrefixSelf DEF Within, IsStrictPrefix
  <2> HIDE DEF S, c, holder
  <2>3. r \in Paths \ {<< >>} /\ p = c \o r
    BY <2>2, PrefixSplit, StrictPrefixLess DEF IsStrictPrefix
  <2>4. step \in Paths /\ c = at \o step
    BY <2>2, PrefixSplit
  <2>5. Tail0(p, at) = step \o r
    <3> HIDE DEF r, step
    <3>0. step \in Paths /\ r \in Paths
      BY <2>3, <2>4
    <3>1. (at \o step) \o r = at \o (step \o r) /\ step \o r \in Paths
      <4>1. SameCut(at, step, r)
        BY <3>0, ConcatThree
      <4>2. step \o r \in Paths
        BY <3>0, ConcatType
      <4> QED
        BY <4>1, <4>2 DEF SameCut
    <3>2. p = at \o (step \o r)
      BY <2>3, <2>4, <3>1
    <3> QED
      BY <3>1, <3>2, PrefixConcat
  <2> DEFINE some == Reaching(layers, step)
             low == Part(seen, c)
             one == Overlay(some, low)
  <2>6. merged[c] = one
    BY <2>2
  <2> HIDE DEF merged, r, step
  <2>7. some \in Seq(Fitting(c, Only(c \o r, n)))
    BY <2>3, <2>4, ReachingFits
  <2>8. low \in Views
    <3>1. seen \in Fitting(<< >>, Paths \X Nodes)
      BY EmptyConcat, ViewElim DEF Fitting
    <3>2. low \in Fitting(<< >> \o c, Paths \X Nodes)
      BY <2>2, <3>1, PartFits, PrefixSelf
    <3> QED
      BY <3>2 DEF Fitting
  <2>9. Has(low, r, n) \/ \E k \in 1..Len(some) : r \in DOMAIN some[k]
    <3>1. CASE Has(seen, p, n)
      <4>1. p \in DOMAIN seen /\ seen[p] = n
        BY <3>1 DEF Has
      <4>2. r \in DOMAIN low
        BY <2>2, <4>1 DEF Part, r, IsStrictPrefix
      <4>3. low[r] = seen[c \o r]
        BY <4>2 DEF Part
      <4> QED
        BY <2>3, <4>1, <4>2, <4>3 DEF Has
    <3>2. CASE \E k \in 1..Len(layers) : Tail0(p, at) \in DOMAIN layers[k]
      <4>1. PICK k \in 1..Len(layers) : step \o r \in DOMAIN layers[k]
        BY <2>5, <3>2
      <4>2. layers \in Seq(Views)
        <5> DEFINE X == Fitting(at, Only(p, n))
        <5>1. X \subseteq Views /\ layers \in Seq(X)
          BY DEF Fitting
        <5> HIDE DEF X
        <5> QED
          BY <5>1
      <4> QED
        BY <2>3, <2>4, <4>1, <4>2, ReachingHas
    <3> QED
      BY <3>1, <3>2
  <2> HIDE DEF some, low
  <2>10. Has(one, r, n)
    BY <2>2, <2>3, <2>7, <2>8, <2>9, OverlayKeeps
  <2> HIDE DEF one
  <2>11. p \in shown
    BY <2>2, <2>3, <2>6, <2>10 DEF Has, c
  <2>12. p \notin points
    <3>1. SUFFICES ASSUME p \in points PROVE FALSE
      OBVIOUS
    <3>2. p \in Within(at, points)
      BY <1>3, <3>1 DEF Within
    <3>3. r \in Steps(r)
      BY <2>3, StepsType, PrefixSelf
    <3>4. one[r].kind = "dir"
      BY <3>2, <3>3 DEF ChildrenSurvive, one, some, low, step, r, c, holder
    <3> QED
      BY <2>10, <3>4 DEF Has, Solid
  <2>13. p \notin kept
    BY <1>3
  <2> HIDE DEF shown, kept, v
  <2>14. p \in DOMAIN v /\ v[p] = merged[holder(p)][Tail0(p, holder(p))]
    BY <1>1, <2>11, <2>12, <2>13
  <2>15. v[p] = one[r]
    BY <2>6, <2>14 DEF c, r
  <2> QED
    BY <2>10, <2>14, <2>15 DEF Has, v
<1> QED
  BY <1>2, <1>3

-----------------------------------------------------------------------------
(* Layers of a plan that leave a node alone *)

(* No overlay source comes to lie below p, those that come to lie at p bring n, and
   those above p are directories to be merged. *)
Yields(L, T, p, n) ==
  \A t \in Of(T, "overlay"), q \in Paths :
    LandsAt(L, T, t, q) =>
      /\ ~IsStrictPrefix(p, q)
      /\ q = p => SourceNode(t) = n
      /\ IsStrictPrefix(q, p) => t.type = "dir" /\ ~t.replace

(* Such sources make layers that leave n at p alone. *)
LEMMA LayerYields ==
  ASSUME NEW L, NEW T, TreeOk(L, T), NEW mod, NEW rel \in Paths, NEW dest \in Paths, NEW at \in Paths,
         Placed(L, T, at, dest, mod, rel), NEW p, NEW n, Yields(L, T, p, n)
  PROVE  Layer(T, mod, rel, dest) \in Fitting(at, Only(p, n))
<1> DEFINE own == {s \in Of(T, "overlay") : s.mod = mod /\ IsPrefix(rel, s.rel)}
           put(s) == dest \o Tail0(s.rel, rel)
           paths == (UNION {Steps(put(s)) : s \in own}) \cup Steps(dest)
           v == Layer(T, mod, rel, dest)
<1>1. v = [q \in paths |-> IF \E s \in own : put(s) = q
                           THEN SourceNode(CHOOSE s \in own : put(s) = q) ELSE Dir]
  BY DEF Layer
<1>2. ASSUME NEW s \in own
      PROVE  /\ s \in T /\ s \in Of(T, "overlay") /\ put(s) \in Paths /\ LandsAt(L, T, s, at \o put(s))
             /\ IsPrefix(dest, put(s)) /\ at \o put(s) \in Paths
  <2>1. s \in T /\ s.rel \in Paths /\ IsPrefix(rel, s.rel)
    BY DEF Of, TreeOk, Tree, SourceSet
  <2>2. Tail0(s.rel, rel) \in Paths
    BY <2>1, PrefixSplit
  <2>3. put(s) \in Paths /\ IsPrefix(dest, put(s))
    BY <2>2, PrefixConcat
  <2>4. LandsAt(L, T, s, at \o put(s))
    BY DEF Placed
  <2>5. at \o put(s) \in Paths
    BY <2>3, ConcatType
  <2> QED
    BY <2>1, <2>3, <2>4, <2>5
<1>3. own # {}
  BY DEF Placed
<1> HIDE DEF own, put
<1>4. ASSUME NEW q \in paths PROVE q \in Paths \ {<< >>} /\ \E s \in own : IsPrefix(q, put(s))
  <2>1. CASE q \in Steps(dest)
    <3>1. q \in Paths \ {<< >>} /\ IsPrefix(q, dest)
      BY <2>1, StepsType
    <3>2. PICK s \in own : TRUE
      BY <1>3
    <3> QED
      BY <1>2, <3>1, <3>2, PrefixTrans
  <2>2. CASE q \notin Steps(dest)
    <3>1. PICK s \in own : q \in Steps(put(s))
      BY <2>2
    <3> QED
      BY <1>2, <3>1, StepsType
  <2> QED
    BY <2>1, <2>2
<1>5. ASSUME NEW q \in paths PROVE v[q] \in Nodes /\ <<at \o q, v[q]>> \in Only(p, n)
  <2>0. at \o q \in Paths /\ q \in Paths
    BY <1>4, ConcatType
  <2>1. CASE \E s \in own : put(s) = q
    <3> DEFINE s == CHOOSE t \in own : put(t) = q
    <3>1. s \in own /\ put(s) = q
      BY <2>1
    <3>2. v[q] = SourceNode(s)
      BY <1>1, <2>1
    <3> HIDE DEF s
    <3>3. s \in T /\ s \in Of(T, "overlay") /\ LandsAt(L, T, s, at \o q)
      BY <1>2, <3>1
    <3>4. SourceNode(s) \in Nodes
      BY <3>3, SourceNodeType DEF TreeOk
    <3>5. at \o q = p => SourceNode(s) = n
      BY <2>0, <3>3 DEF Yields
    <3>6. IsStrictPrefix(at \o q, p) => s.type = "dir" /\ ~s.replace
      BY <2>0, <3>3 DEF Yields
    <3>7. SourceNode(s).kind = s.type /\ (~s.replace => ~SourceNode(s).opaque)
      BY DEF SourceNode
    <3> QED
      BY <2>0, <3>2, <3>4, <3>5, <3>6, <3>7 DEF Only
  <2>2. CASE ~\E s \in own : put(s) = q
    <3>1. v[q] = Dir
      BY <1>1, <2>2
    <3>2. PICK s \in own : IsPrefix(q, put(s))
      BY <1>4
    <3>3. IsStrictPrefix(q, put(s))
      BY <2>2, <3>2 DEF IsStrictPrefix
    <3>4. IsStrictPrefix(at \o q, at \o put(s))
      BY <1>2, <2>0, <3>3, ConcatStrict
    <3>5. at \o q # p
      BY <1>2, <3>2, <3>4 DEF Yields
    <3>6. Dir.kind = "dir" /\ ~Dir.opaque
      BY DEF Dir
    <3> QED
      BY <2>0, <3>1, <3>5, <3>6, NodeTypes DEF Only
  <2> QED
    BY <2>1, <2>2
<1>6. DOMAIN v = paths /\ v = [q \in DOMAIN v |-> v[q]]
  BY <1>1
<1> HIDE DEF v, paths
<1>7. v \in Views
  BY <1>4, <1>5, <1>6, ViewIntro
<1>8. v \in Fitting(at, Only(p, n))
  BY <1>5, <1>6, <1>7 DEF Fitting
<1> QED
  BY <1>8 DEF v

(* A source that is at its target is in the layer made of it, below where that is put. *)
LEMMA LayerHas ==
  ASSUME NEW L, NEW T, TreeOk(L, T), NEW mod, NEW rel \in Paths, NEW dest \in Paths, NEW at \in Paths,
         Placed(L, T, at, dest, mod, rel),
         NEW s \in Of(T, "overlay"), s.mod = mod, IsPrefix(rel, s.rel), ~Stray(L, T, s),
         dest # << >> \/ rel # s.rel
  PROVE  IsStrictPrefix(at, s.target) /\ Tail0(s.target, at) \in DOMAIN Layer(T, mod, rel, dest)
<1> DEFINE own == {t \in Of(T, "overlay") : t.mod = mod /\ IsPrefix(rel, t.rel)}
           put(t) == dest \o Tail0(t.rel, rel)
           paths == (UNION {Steps(put(t)) : t \in own}) \cup Steps(dest)
<1>1. DOMAIN Layer(T, mod, rel, dest) = paths
  BY DEF Layer
<1>2. s \in own /\ s.rel \in Paths /\ s.target \in Paths
  BY DEF Of, TreeOk, Tree, SourceSet
<1>3. at \o put(s) = s.target
  <2>1. LandsAt(L, T, s, at \o put(s))
    BY DEF Placed
  <2> QED
    BY <2>1 DEF LandsAt
<1>4. put(s) \in Paths /\ put(s) # << >>
  <2> DEFINE t == Tail0(s.rel, rel)
  <2>1. t \in Paths /\ s.rel = rel \o t
    BY <1>2, PrefixSplit
  <2>2. rel # s.rel => t # << >>
    BY <2>1, EmptyConcat
  <2>3. dest # << >> => Len(dest) > 0
    BY DEF Paths
  <2>4. t # << >> => Len(t) > 0
    BY <2>1 DEF Paths
  <2>5. put(s) = dest \o t
    OBVIOUS
  <2> HIDE DEF t, put
  <2>6. put(s) \in Paths /\ Len(put(s)) = Len(dest) + Len(t) /\ Len(dest) \in Nat /\ Len(t) \in Nat
    BY <2>1, <2>5, ConcatType, LenType
  <2> QED
    BY <2>2, <2>3, <2>4, <2>6
<1>5. put(s) \in paths
  <2>1. put(s) \in Steps(put(s))
    BY <1>4, StepsType, PrefixSelf
  <2> QED
    BY <1>2, <2>1
<1> HIDE DEF put, paths
<1>6. IsPrefix(at, s.target) /\ s.target # at /\ Tail0(s.target, at) = put(s)
  <2> DEFINE t == put(s)
  <2>1. t \in Paths /\ t # << >> /\ at \o t = s.target
    BY <1>3, <1>4
  <2> HIDE DEF t
  <2>2. IsPrefix(at, at \o t) /\ Tail0(at \o t, at) = t /\ at \o t # at
    BY <2>1, PrefixConcat
  <2> QED
    BY <2>1, <2>2 DEF t
<1> QED
  BY <1>1, <1>5, <1>6 DEF IsStrictPrefix

(* The layers of an overlay with a target of its own leave n at p alone. *)
LEMMA DirectYields ==
  ASSUME NEW L, NEW pl, PlanOk(L, pl), NEW at \in Paths, NEW p, NEW n, Yields(L, pl.tree, p, n)
  PROVE  DirectLayers(pl, at) \in Seq(Fitting(at, Only(p, n)))
<1>1. IsFiniteSet(pl.layers) /\ TreeOk(L, pl.tree)
  BY DEF PlanOk
<1>2. \A l \in pl.layers : l.mod \in Nat
  BY DEF PlanOk
<1>3. \A l, k \in pl.layers : l.target = k.target /\ l.mod = k.mod => l = k
  BY DEF PlanOk
<1>4. ASSUME NEW l \in pl.layers, l.target = at
      PROVE  Layer(pl.tree, l.mod, l.rel, << >>) \in Fitting(at, Only(p, n))
  <2>1. l.rel \in Paths /\ Placed(L, pl.tree, at, << >>, l.mod, l.rel)
    BY <1>4 DEF PlanOk
  <2>2. << >> \in Paths
    BY DEF Paths
  <2> QED
    BY <1>1, <2>1, <2>2, LayerYields
<1> QED
  BY <1>1, <1>2, <1>3, <1>4, DirectLayersType

(* Each layer with that target is one of them. *)
LEMMA DirectHas ==
  ASSUME NEW L, NEW pl, PlanOk(L, pl), NEW l \in pl.layers
  PROVE  \E k \in 1..Len(DirectLayers(pl, l.target)) :
           DirectLayers(pl, l.target)[k] = Layer(pl.tree, l.mod, l.rel, << >>)
<1> DEFINE own == {k \in pl.layers : k.target = l.target}
           R == {p \in own \X own : p[1].mod < p[2].mod}
           nth == Ordered(own, R)
<1>1. IsFiniteSet(own) /\ l \in own
  BY FS_Subset DEF PlanOk
<1>2. Orders(R, own)
  <2>1. \A k \in own : k.mod \in Nat
    BY DEF PlanOk
  <2>2. \A j, k \in own : j # k => j.mod # k.mod
    BY DEF PlanOk
  <2> HIDE DEF own
  <2>3. \A j, k \in own : <<j, k>> \in R <=> j.mod < k.mod
    OBVIOUS
  <2> HIDE DEF R
  <2> QED
    BY <2>1, <2>2, <2>3 DEF Orders
<1>3. DirectLayers(pl, l.target) = [n \in DOMAIN nth |-> Layer(pl.tree, nth[n].mod, nth[n].rel, << >>)]
  BY DEF DirectLayers
<1>4. /\ nth \in Seq(own) /\ Len(nth) = Cardinality(own)
      /\ \A k \in own : \E n \in 1..Cardinality(own) : nth[n] = k
  <2> HIDE DEF own, R
  <2> QED BY <1>1, <1>2, OrderedSeq
<1> HIDE DEF own, nth
<1>5. PICK n \in 1..Cardinality(own) : nth[n] = l
  BY <1>1, <1>4
<1>6. n \in 1..Len(nth) /\ DOMAIN nth = 1..Len(nth) /\ Len(nth) \in Nat
  BY <1>4
<1>7. Len(DirectLayers(pl, l.target)) = Len(nth)
  BY <1>3, <1>6
<1> QED
  BY <1>3, <1>5, <1>6, <1>7

(* The same of overlays that needed a place. *)
LEMMA ShallowEntrySet ==
  ASSUME NEW L, NEW T, NEW E, ShallowOk(L, T, E), NEW at, \A e \in E : e.at = at
  PROVE  EntrySet(E)
BY DEF ShallowOk, EntrySet

(* The layers of a shallow mount leave it alone too. *)
LEMMA ShallowYields ==
  ASSUME NEW L, NEW pl, PlanOk(L, pl), NEW E, ShallowOk(L, pl.tree, E), NEW at \in Paths,
         \A e \in E : e.at = at, NEW p, NEW n, Yields(L, pl.tree, p, n)
  PROVE  ShallowLayers(pl, E) \in Seq(Fitting(at, Only(p, n)))
<1>1. EntrySet(E)
  BY ShallowEntrySet
<1>2. ASSUME NEW e \in E
      PROVE  Layer(pl.tree, e.mod, e.rel, e.dest) \in Fitting(at, Only(p, n))
  <2>1. /\ e.rel \in Paths /\ e.dest \in Paths /\ Placed(L, pl.tree, at, e.dest, e.mod, e.rel)
    BY DEF ShallowOk
  <2>2. TreeOk(L, pl.tree)
    BY DEF PlanOk
  <2> QED
    BY <2>1, <2>2, LayerYields
<1> QED
  BY <1>1, <1>2, ShallowLayersType

(* Each entry of such a mount is a layer of it. *)
LEMMA ShallowHas ==
  ASSUME NEW pl, NEW E, EntrySet(E), NEW e \in E
  PROVE  \E k \in 1..Len(ShallowLayers(pl, E)) :
           ShallowLayers(pl, E)[k] = Layer(pl.tree, e.mod, e.rel, e.dest)
<1> DEFINE R == {p \in E \X E : Copied(p[1], p[2])}
           nth == Ordered(E, R)
<1>1. Orders(R, E)
  BY CopiedOrders
<1>2. /\ nth \in Seq(E) /\ Len(nth) = Cardinality(E)
      /\ \A k \in E : \E n \in 1..Cardinality(E) : nth[n] = k
  <2> HIDE DEF R
  <2> QED BY <1>1, OrderedSeq DEF EntrySet
<1>3. ShallowLayers(pl, E) = [n \in DOMAIN nth |-> Layer(pl.tree, nth[n].mod, nth[n].rel, nth[n].dest)]
  BY DEF ShallowLayers
<1> HIDE DEF nth
<1>5. PICK n \in 1..Cardinality(E) : nth[n] = e
  BY <1>2
<1>6. n \in 1..Len(nth) /\ DOMAIN nth = 1..Len(nth) /\ Len(nth) \in Nat
  BY <1>2
<1>7. Len(ShallowLayers(pl, E)) = Len(nth)
  BY <1>3, <1>6
<1> QED
  BY <1>3, <1>5, <1>6, <1>7

-----------------------------------------------------------------------------
(* What Magic mounts and rules leave alone *)

(* A source of a backend hides a node: it is at its place, or above and no directory to
   be merged. *)
Buries(T, mode, p) ==
  \E s \in Of(T, mode) : IsPrefix(s.target, p) /\ (s.type # "dir" \/ s.replace \/ s.target = p)

(* What a backend sees at a node is one of its sources there. *)
LEMMA SourceForType ==
  ASSUME NEW L, NEW T, TreeOk(L, T), NEW mode, NEW q
  PROVE  /\ \A s \in SourceFor(T, mode, q) : s \in Of(T, mode) /\ s.target = q
         /\ SourceFor(T, mode, q) # {} =>
              \E s \in Of(T, mode) : s.target = q /\ FileTypeFor(T, mode, q) = s.type
         /\ (\E s \in Of(T, mode) : s.target = q) => SourceFor(T, mode, q) # {}
         /\ SourceFor(T, mode, q) = {} =>
              FileTypeFor(T, mode, q) = IF HasBackend(T, mode, q) THEN "dir" ELSE "none"
<1> DEFINE own == Of(At(T, q), mode)
<1>1. SourceSet(own)
  BY SourceSubset DEF TreeOk, Tree, Of, At
<1>2. own # {} => Topmost(own) \in own
  <2> HIDE DEF own
  <2> QED BY <1>1, TopmostType
<1>3. \A s \in own : s \in Of(T, mode) /\ s.target = q
  BY DEF Of, At
<1>4. \A s \in Of(T, mode) : s.target = q => s \in own
  BY DEF Of, At
<1>5. SourceFor(T, mode, q) = IF own = {} THEN {} ELSE {Topmost(own)}
  BY DEF SourceFor
<1>6. /\ \A s \in SourceFor(T, mode, q) : s \in Of(T, mode) /\ s.target = q
      /\ (\E s \in Of(T, mode) : s.target = q) => SourceFor(T, mode, q) # {}
  <2> HIDE DEF own
  <2> QED BY <1>2, <1>3, <1>4, <1>5
<1>7. ASSUME SourceFor(T, mode, q) # {}
      PROVE  \E s \in Of(T, mode) : s.target = q /\ FileTypeFor(T, mode, q) = s.type
  <2> DEFINE s == CHOOSE t \in SourceFor(T, mode, q) : TRUE
  <2>1. s \in SourceFor(T, mode, q)
    BY <1>7
  <2>2. FileTypeFor(T, mode, q) = s.type
    BY <1>7 DEF FileTypeFor
  <2> HIDE DEF s
  <2> QED
    BY <1>6, <2>1, <2>2
<1>8. SourceFor(T, mode, q) = {} =>
        FileTypeFor(T, mode, q) = IF HasBackend(T, mode, q) THEN "dir" ELSE "none"
  BY DEF FileTypeFor
<1> QED
  BY <1>6, <1>7, <1>8

(* Above a path there are the starts of it. *)
LEMMA StartsType ==
  ASSUME NEW p \in Paths, NEW k \in 0..Len(p)
  PROVE  SubSeq(p, 1, k) \in Paths /\ IsPrefix(SubSeq(p, 1, k), p) /\ Len(SubSeq(p, 1, k)) = k
<1> DEFINE q == SubSeq(p, 1, k)
           N == Len(p)
<1>1. N \in Nat /\ p \in [1..N -> Names] /\ p \in Seq(Names)
  BY DEF Paths
<1>2. q \in Seq(Names) /\ Len(q) = k /\ \A i \in 1..k : q[i] = p[i]
  BY <1>1
<1>3. q \in Paths
  BY <1>2 DEF Paths
<1> HIDE DEF q
<1>4. IsPrefix(q, p)
  BY <1>1, <1>2, <1>3, PrefixElements
<1> QED
  BY <1>2, <1>3, <1>4 DEF q

(* Where nothing is buried a backend sees directories only. *)
LEMMA UnburiedDir ==
  ASSUME NEW L, NEW T, TreeOk(L, T), NEW mode, NEW q \in Paths, HasBackend(T, mode, q),
         \A s \in Of(T, mode) : s.target = q => s.type = "dir"
  PROVE  FileTypeFor(T, mode, q) = "dir"
BY SourceForType

(* Sources below a path are below every start of it. *)
LEMMA BackendAbove ==
  ASSUME NEW L, NEW T, TreeOk(L, T), NEW mode, NEW p \in Paths, HasBackend(T, mode, p),
         NEW q \in Paths, IsPrefix(q, p)
  PROVE  HasBackend(T, mode, q)
<1>1. PICK s \in Of(T, mode) : IsPrefix(p, s.target)
  BY DEF HasBackend
<1>2. s.target \in Paths
  BY DEF Of, TreeOk, Tree
<1>3. IsPrefix(q, s.target)
  BY <1>1, <1>2, PrefixTrans
<1> QED
  BY <1>3 DEF HasBackend

(* So the walk comes by. *)
LEMMA UnburiedWalk ==
  ASSUME NEW L, NEW T, TreeOk(L, T), NEW p \in Paths, HasBackend(T, "magic", p),
         \A s \in Of(T, "magic") : IsPrefix(s.target, p) => s.type = "dir"
  PROVE  MagicDir(T, p)
<1>1. ASSUME NEW k \in 0..Len(p) PROVE FileTypeFor(T, "magic", SubSeq(p, 1, k)) = "dir"
  <2> DEFINE q == SubSeq(p, 1, k)
  <2>1. q \in Paths /\ IsPrefix(q, p)
    BY StartsType
  <2> HIDE DEF q
  <2>2. HasBackend(T, "magic", q)
    BY <2>1, BackendAbove
  <2>3. FileTypeFor(T, "magic", q) = "dir"
    BY <2>1, <2>2, UnburiedDir
  <2> QED
    BY <2>3 DEF q
<1> QED
  BY <1>1 DEF MagicDir

(* A node of the walk has sources below. *)
LEMMA NodeBackend ==
  ASSUME NEW L, NEW T, TreeOk(L, T), NEW q \in MagicNodes(T)
  PROVE  q \in Paths \ {<< >>} /\ HasBackend(T, "magic", q)
BY MagicNodesType

(* The directory that a path is put into. *)
LEMMA MagicParentType ==
  ASSUME NEW L, NEW T, TreeOk(L, T), NEW p \in Paths \ {<< >>}
  PROVE  MagicParent(T, p) \in Paths /\ IsPrefix(MagicParent(T, p), p)
<1> DEFINE S == {d \in MagicDirs(T) : IsStrictPrefix(d, p)}
<1>1. \A d \in MagicDirs(T) : d \in Paths
  BY NodeBackend, PrefixSelf DEF MagicDirs
<1>2. << >> \in S
  BY PrefixSelf DEF MagicDirs, IsStrictPrefix
<1>3. S \in SUBSET Paths /\ \A d \in S : Len(d) <= Len(p) /\ IsPrefix(d, p)
  <2>1. S \in SUBSET Paths /\ \A d \in S : IsPrefix(d, p)
    BY <1>1 DEF IsStrictPrefix
  <2> HIDE DEF S
  <2> QED
    BY <2>1, PrefixElements
<1>4. MagicParent(T, p) = Deepest(S)
  BY DEF MagicParent
<1> HIDE DEF S
<1>5. Deepest(S) \in S
  BY <1>2, <1>3, DeepestType, LenType
<1> QED
  BY <1>3, <1>4, <1>5

(* Magic mounts keep what none of their sources buries (try_mount_magic_plan). *)
LEMMA MagicKeeps ==
  ASSUME NEW L, NEW T, TreeOk(L, T), NEW seen \in Views, ~MagicFails(T, seen),
         NEW p, NEW n, Has(seen, p, n), n.kind # "dir", ~Buries(T, "magic", p)
  PROVE  Has(MagicView(T, seen), p, n)
<1>1. p \in Paths \ {<< >>} /\ p \in DOMAIN seen /\ seen[p] = n
  BY ViewElim DEF Has
<1>2. \A s \in Of(T, "magic") : IsPrefix(s.target, p) => s.type = "dir" /\ ~s.replace /\ s.target # p
  BY DEF Buries
<1>3. ASSUME NEW q \in Paths, IsPrefix(q, p), HasBackend(T, "magic", q) PROVE MagicDir(T, q)
  <2>1. \A s \in Of(T, "magic") : IsPrefix(s.target, q) => s.target \in Paths /\ IsPrefix(s.target, p)
    <3> TAKE s \in Of(T, "magic")
    <3>1. s.target \in Paths
      BY DEF Of, TreeOk, Tree
    <3> QED
      BY <1>1, <1>3, <3>1, PrefixTrans
  <2>2. \A s \in Of(T, "magic") : IsPrefix(s.target, q) => s.type = "dir"
    BY <1>2, <2>1
  <2> QED
    BY <1>3, <2>2, UnburiedWalk
<1>4. ASSUME NEW q \in Paths, IsPrefix(q, p) PROVE ~ReplaceFor(T, "magic", q)
  BY <1>2, <1>4, SourceForType DEF ReplaceFor
<1>5. p \notin MagicNodes(T)
  <2>1. SUFFICES ASSUME p \in MagicNodes(T) PROVE FALSE
    OBVIOUS
  <2>2. MagicDir(T, p)
    BY <1>1, <1>3, <2>1, NodeBackend, PrefixSelf
  <2>3. p \in MagicDirs(T)
    BY <2>1, <2>2 DEF MagicDirs
  <2>4. ~IsDir(seen, p) /\ ~ReplaceFor(T, "magic", p)
    BY <1>1, <1>4, PrefixSelf DEF IsDir
  <2> QED
    BY <1>1, <2>3, <2>4 DEF MagicFails
<1>6. Mirrored(T, p)
  <2>1. \A q \in Steps(p) : q \in MagicNodes(T) => MagicDir(T, q)
    BY <1>1, <1>3, NodeBackend, StepsType
  <2>2. ~ReplaceFor(T, "magic", MagicParent(T, p))
    BY <1>1, <1>4, MagicParentType
  <2> QED
    BY <2>1, <2>2 DEF Mirrored
<1> QED
  BY <1>1, <1>5, <1>6 DEF MagicView, Has

(* A file or link of a module that no other source buries is there after Magic mounts. *)
LEMMA MagicShows ==
  ASSUME NEW L, NEW T, TreeOk(L, T), NEW seen,
         NEW s \in Of(T, "magic"), s.type \in {"file", "symlink"}, s.target # << >>,
         ~Buries(T \ {s}, "magic", s.target)
  PROVE  Has(MagicView(T, seen), s.target, SourceNode(s))
<1> DEFINE p == s.target
           up == Front(p)
<1>1. p \in Paths \ {<< >>}
  BY DEF Of, TreeOk, Tree
<1>2. up \in Paths /\ IsPrefix(up, p) /\ Len(up) = Len(p) - 1
  BY <1>1, ParentType
<1>3. \A t \in Of(T, "magic") : t # s /\ IsPrefix(t.target, p) =>
        t.type = "dir" /\ ~t.replace /\ t.target # p
  BY DEF Buries, Of
<1>4. ASSUME NEW q \in Paths, IsPrefix(q, up) PROVE HasBackend(T, "magic", q) /\ MagicDir(T, q)
  <2>1. IsPrefix(q, p) /\ Len(q) < Len(p)
    <3>1. Len(q) <= Len(up) /\ Len(q) \in Nat /\ Len(p) \in Nat /\ Len(up) \in Nat
      BY <1>1, <1>2, <1>4, PrefixElements, LenType
    <3> HIDE DEF p, up
    <3> QED
      BY <1>1, <1>2, <1>4, <3>1, PrefixTrans
  <2>2. HasBackend(T, "magic", q)
    BY <2>1 DEF HasBackend
  <2>3. ASSUME NEW t \in Of(T, "magic"), IsPrefix(t.target, q) PROVE t.type = "dir"
    <3>1. t.target \in Paths
      BY DEF Of, TreeOk, Tree
    <3>2. IsPrefix(t.target, p) /\ Len(t.target) <= Len(q)
      BY <1>1, <2>1, <2>3, <3>1, PrefixTrans, PrefixElements
    <3>3. Len(t.target) \in Nat /\ Len(q) \in Nat /\ Len(p) \in Nat
      BY <1>1, <3>1, LenType
    <3>4. t.target # p
      BY <2>1, <3>2, <3>3
    <3> QED
      BY <1>3, <3>2, <3>4
  <2> QED
    BY <2>2, <2>3, UnburiedWalk
<1>5. p \in Steps(s.target) /\ \A q \in Paths : IsPrefix(q, p) /\ q # << >> => q \in Steps(s.target)
  BY <1>1, StepsType, PrefixSelf
<1>6. p \in MagicNodes(T)
  BY <1>2, <1>4, <1>5, PrefixSelf DEF MagicNodes
<1>7. up \in MagicDirs(T)
  <2>1. CASE up = << >>
    BY <2>1 DEF MagicDirs
  <2>2. CASE up # << >>
    <3>1. Front(up) \in Paths /\ IsPrefix(Front(up), up)
      BY <1>2, <2>2, ParentType
    <3>2. MagicDir(T, up) /\ MagicDir(T, Front(up))
      BY <1>2, <1>4, <3>1, PrefixSelf
    <3>3. up \in MagicNodes(T)
      BY <1>2, <1>5, <2>2, <3>2 DEF MagicNodes
    <3> QED
      BY <3>2, <3>3 DEF MagicDirs
  <2> QED
    BY <2>1, <2>2
<1>8. FileTypeFor(T, "magic", p) = s.type
  BY <1>1, <1>3, PrefixSelf, SourceForType
<1>9. (p \in DOMAIN seen /\ s.type = "file") \/ InTmpfs(T, seen, up)
  <2>1. SUFFICES ASSUME ~(p \in DOMAIN seen /\ s.type = "file") PROVE InTmpfs(T, seen, up)
    OBVIOUS
  <2>2. NeedsTmpfs(T, seen, p)
    BY <1>8, <2>1 DEF NeedsTmpfs
  <2>3. Rebuilt(T, seen, up)
    BY <1>6, <2>2 DEF Rebuilt, MagicChildren
  <2> QED
    BY <1>2, <1>7, <2>3, PrefixSelf DEF InTmpfs
<1>10. MagicNode(T, p) = SourceNode(s)
  <2>1. PICK t \in T : MagicNode(T, p) = SourceNode(t) /\ t.target = p /\ t.mode = "magic"
    BY <1>6, <1>8, MagicNodesType
  <2>2. t \in Of(T, "magic") /\ IsPrefix(t.target, p)
    BY <1>1, <2>1, PrefixSelf DEF Of
  <2> QED
    BY <1>3, <2>1, <2>2
<1>11. s.type # "whiteout"
  OBVIOUS
<1> HIDE DEF p
<1>12. p \in DOMAIN MagicView(T, seen)
  BY <1>6, <1>8, <1>9, <1>11 DEF MagicView, up
<1>13. MagicView(T, seen)[p] = MagicNode(T, p)
  BY <1>6, <1>8, <1>9, <1>12 DEF MagicView, up
<1> QED
  BY <1>10, <1>12, <1>13 DEF Has, p

(* Each rule comes from a source at its path, or above it for an opaque directory. *)
LEMMA RuleBuries ==
  ASSUME NEW L, NEW T, TreeOk(L, T), NEW r \in VfsRules(T), NEW p \in Paths, IsPrefix(r.at, p)
  PROVE  Buries(T, "vfs", p)
<1> DEFINE nodes == UNION {Steps(s.target) : s \in Of(T, "vfs")}
           plain(q) == {s \in Of(At(T, q), "vfs") : s.type # "dir"}
<1>0. \A q \in nodes : q \in Paths
  <2>1. \A s \in Of(T, "vfs") : s.target \in Paths
    BY DEF Of, TreeOk, Tree
  <2> QED
    BY <2>1, StepsType
<1>1. \/ \E q \in {d \in nodes : VfsDir(T, d) /\ VfsOwned(T, d)} :
           r = [action |-> "opaque", at |-> q, mod |-> VfsOwner(T, q), node |-> Dir]
      \/ \E q \in {f \in nodes : ~VfsDir(T, f) /\ plain(f) # {}} :
           r = [action |-> IF Lowest(plain(q)).type = "whiteout" THEN "whiteout" ELSE "inject",
                at |-> q, mod |-> Lowest(plain(q)).mod, node |-> SourceNode(Lowest(plain(q)))]
  BY DEF VfsRules
<1>2. CASE \E q \in nodes : r.at = q /\ VfsOwned(T, q)
  <2>1. PICK q \in nodes : r.at = q /\ VfsOwned(T, q)
    BY <1>2
  <2>2. PICK d \in Steps(q) : ReplaceFor(T, "vfs", d)
    BY <2>1 DEF VfsOwned
  <2>3. d \in Paths /\ q \in Paths /\ IsPrefix(d, q)
    BY <1>0, <2>2, StepsType
  <2>4. PICK s \in Of(T, "vfs") : s.target = d /\ s.replace
    BY <2>2, SourceForType DEF ReplaceFor
  <2>5. IsPrefix(s.target, p)
    BY <2>1, <2>3, <2>4, PrefixTrans
  <2> QED
    BY <2>4, <2>5 DEF Buries
<1>3. CASE \E q \in nodes : r.at = q /\ plain(q) # {}
  <2>1. PICK s \in Of(T, "vfs") : s.target = r.at /\ s.type # "dir"
    BY <1>3 DEF Of, At
  <2> QED
    BY <2>1 DEF Buries
<1> HIDE DEF nodes, plain
<1> QED
  BY <1>1, <1>2, <1>3

(* Rules keep what no source of theirs buries. *)
LEMMA RulesKeep ==
  ASSUME NEW L, NEW T, TreeOk(L, T), NEW seen \in Views,
         NEW p, NEW n, Has(seen, p, n), ~Buries(T, "vfs", p)
  PROVE  Has(RuledView(VfsRules(T), seen), p, n)
<1>1. p \in Paths \ {<< >>} /\ p \in DOMAIN seen /\ seen[p] = n
  BY ViewElim DEF Has
<1>2. \A r \in VfsRules(T) : ~IsPrefix(r.at, p)
  BY <1>1, RuleBuries
<1>3. \A r \in VfsRules(T) : ~IsStrictPrefix(r.at, p) /\ r.at # p
  BY <1>1, <1>2, PrefixSelf DEF IsStrictPrefix
<1> DEFINE R == VfsRules(T)
<1> HIDE DEF R
<1>4. Has(RuledView(R, seen), p, n)
  BY <1>1, <1>3 DEF RuledView, Has, R
<1> QED
  BY <1>4 DEF R

(* A file or link that the provider was given is there, unless another source of its own
   buries it or makes a directory of it. *)
LEMMA RulesShow ==
  ASSUME NEW L, NEW T, TreeOk(L, T), NEW seen,
         NEW s \in Of(T, "vfs"), s.type \in {"file", "symlink"}, s.target # << >>,
         ~Buries(T \ {s}, "vfs", s.target),
         \A t \in Of(T, "vfs") : t # s => ~IsStrictPrefix(s.target, t.target)
  PROVE  Has(RuledView(VfsRules(T), seen), s.target, SourceNode(s))
<1> DEFINE p == s.target
           plain(q) == {t \in Of(At(T, q), "vfs") : t.type # "dir"}
           nodes == UNION {Steps(t.target) : t \in Of(T, "vfs")}
           rule == [action |-> "inject", at |-> p, mod |-> s.mod, node |-> SourceNode(s)]
           R == VfsRules(T)
<1>1. p \in Paths \ {<< >>} /\ s \in T
  BY DEF Of, TreeOk, Tree
<1>2. \A t \in Of(T, "vfs") : t # s => t.target # p
  <2> TAKE t \in Of(T, "vfs")
  <2>1. SUFFICES ASSUME t # s, t.target = p PROVE FALSE
    OBVIOUS
  <2>2. t \in Of(T \ {s}, "vfs") /\ IsPrefix(t.target, p)
    BY <1>1, <2>1, PrefixSelf DEF Of
  <2> QED
    BY <2>1, <2>2 DEF Buries
<1>3. p \in nodes
  BY <1>1, StepsType, PrefixSelf
<1>4. ~VfsDir(T, p)
  <2>1. \A t \in SourceFor(T, "vfs", p) : t = s
    BY <1>2, SourceForType
  <2>2. Of(Below(T, p), "vfs") = {}
    BY DEF Of, Below, IsStrictPrefix
  <2> QED
    BY <2>1, <2>2 DEF VfsDir
<1>5. plain(p) = {s}
  BY <1>1, <1>2 DEF Of, At
<1>6. Lowest(plain(p)) = s
  <2>1. SourceSet(plain(p))
    BY <1>1, <1>5, SourceSubset DEF TreeOk, Tree
  <2> DEFINE P == plain(p)
  <2>2. P = {s} /\ SourceSet(P)
    BY <1>5, <2>1
  <2> HIDE DEF P
  <2>3. Lowest(P) \in P
    BY <2>2, LowestType
  <2>4. Lowest(P) = s
    BY <2>2, <2>3
  <2> QED
    BY <2>4 DEF P
<1>7. rule \in R
  <2>1. /\ p \in {f \in nodes : ~VfsDir(T, f) /\ plain(f) # {}}
        /\ rule = [action |-> IF Lowest(plain(p)).type = "whiteout" THEN "whiteout" ELSE "inject",
                   at |-> p, mod |-> Lowest(plain(p)).mod, node |-> SourceNode(Lowest(plain(p)))]
    BY <1>3, <1>4, <1>5, <1>6
  <2> HIDE DEF rule, p
  <2> QED
    BY <2>1 DEF VfsRules
<1>8. \A r \in R : r.at = p => r = rule
  <2> DEFINE ids == {t.mod : t \in T}
  <2>1. \A t \in T : t.mod \in ids
    OBVIOUS
  <2> HIDE DEF ids
  <2>2. RuleSet(ids, R)
    BY <2>1, VfsRuleSet
  <2>3. rule.at = p
    OBVIOUS
  <2> HIDE DEF R, rule
  <2> QED
    BY <1>7, <2>2, <2>3 DEF RuleSet
<1>9. rule.at = p /\ rule.node = SourceNode(s) /\ rule.action # "whiteout"
  OBVIOUS
<1> HIDE DEF rule, R, p
<1> DEFINE put == {r \in R : r.action # "whiteout"}
<1>10. rule \in put /\ \A r \in put : r.at = p => r = rule
  BY <1>7, <1>8, <1>9
<1>11. p \in DOMAIN RuledView(R, seen)
  BY <1>9, <1>10 DEF RuledView
<1>12. RuledView(R, seen)[p] = (CHOOSE r \in put : r.at = p).node
  BY <1>9, <1>10, <1>11 DEF RuledView
<1>13. (CHOOSE r \in put : r.at = p) = rule
  BY <1>9, <1>10
<1> QED
  BY <1>9, <1>11, <1>12, <1>13 DEF Has, R, p

-----------------------------------------------------------------------------
(* The plan is complete *)

(* An overlay source is in a layer of its module, below what the layer is made of, or it
   is a file of its own. *)
Reached(layers, files, s) ==
  \/ \E l \in layers : l.mod = s.mod /\ IsStrictPrefix(l.rel, s.rel)
  \/ \E f \in files : f.mod = s.mod /\ f.rel = s.rel

(* A layer of a directory that is a source of the module. *)
LayersFrom(L, ds, id, ls) ==
  \A l \in ls : /\ l = [target |-> MapTarget(L, l.rel), mod |-> id, rel |-> l.rel]
                /\ \E d \in ds : d.rel = l.rel

(* One of some sources has the shortest path. *)
LEMMA Shortest ==
  ASSUME NEW S, S # {}, \A s \in S : s.rel \in Paths
  PROVE  \E s \in S : \A t \in S : Len(s.rel) <= Len(t.rel)
<1> DEFINE N == {Len(s.rel) : s \in S}
<1>1. N \in SUBSET Nat /\ N # {}
  BY LenType
<1>2. PICK n \in N : \A m \in N : n <= m
  <2> HIDE DEF N
  <2> QED BY <1>1, Least
<1>3. PICK s \in S : n = Len(s.rel)
  OBVIOUS
<1>4. \A t \in S : Len(t.rel) \in N
  OBVIOUS
<1> QED
  BY <1>2, <1>3, <1>4

(* The topmost of the sources above a path has none of them above it. *)
LEMMA TopmostAbove ==
  ASSUME NEW D, \A d \in D : d.rel \in Paths, NEW p \in Paths, HasAncestorIn(p, {d.rel : d \in D})
  PROVE  \E d \in D : IsStrictPrefix(d.rel, p) /\ ~HasAncestorIn(d.rel, {c.rel : c \in D})
<1> DEFINE S == {d \in D : IsStrictPrefix(d.rel, p)}
<1>1. S # {} /\ \A d \in S : d.rel \in Paths
  BY DEF HasAncestorIn
<1>2. PICK d \in S : \A c \in S : Len(d.rel) <= Len(c.rel)
  <2> HIDE DEF S
  <2> QED BY <1>1, Shortest
<1>3. ASSUME NEW c \in D, IsStrictPrefix(c.rel, d.rel) PROVE FALSE
  <2> DEFINE a == c.rel
             b == d.rel
  <2>1. a \in Paths /\ b \in Paths /\ IsStrictPrefix(a, b) /\ IsStrictPrefix(b, p)
    BY <1>3
  <2> HIDE DEF a, b
  <2>2. IsPrefix(a, p) /\ Len(a) < Len(b) /\ Len(b) < Len(p)
    BY <2>1, StrictPrefixLess, PrefixTrans
  <2>3. Len(a) \in Nat /\ Len(b) \in Nat /\ Len(p) \in Nat
    BY <2>1, LenType
  <2>4. a # p
    BY <2>2, <2>3
  <2>5. c \in S
    BY <2>2, <2>4 DEF IsStrictPrefix, a
  <2>6. Len(b) <= Len(a)
    BY <1>2, <2>5 DEF a, b
  <2> QED
    BY <2>2, <2>3, <2>6
<1>4. ~HasAncestorIn(d.rel, {c.rel : c \in D})
  BY <1>3 DEF HasAncestorIn
<1> QED
  BY <1>4

(* A whole module of overlays (whole_module_overlay). *)
LEMMA WholeReaches ==
  ASSUME NEW L, LayoutOk(L), NEW ds, NEW id, SourcesOk(L, ds, id), ds = Of(ds, "overlay"),
         NEW s \in ds, s.type # "dir", ~Stray(L, ds, s)
  PROVE  Reached(WholeOverlay(L, ds).layers, WholeOverlay(L, ds).files, s)
<1> DEFINE rootLen(d) == RootLen(L, d.rel)
           roots == {c \in ds : c.replace /\ Len(c.rel) = rootLen(c)}
           replaced == {d.rel : d \in roots}
           open == {d \in ds : ~HasAncestorIn(d.rel, replaced)}
           layer(d, n) == [target |-> MapTarget(L, SubSeq(d.rel, 1, n)), mod |-> d.mod,
                           rel |-> SubSeq(d.rel, 1, n)]
           file(d) == [target |-> MapTarget(L, Front(d.rel)), mod |-> d.mod, rel |-> d.rel]
           A == {layer(d, rootLen(d)) : d \in {c \in open : c.rel \in replaced}}
           B == {layer(d, rootLen(d) + 1) :
                   d \in {c \in open : \/ Len(c.rel) > rootLen(c) + 1
                                       \/ (c.type = "dir" /\ Len(c.rel) = rootLen(c) + 1)}}
           F == {file(d) : d \in {c \in open : c.type # "dir" /\ Len(c.rel) = rootLen(c) + 1}}
<1>1. WholeOverlay(L, ds).layers = A \cup B /\ WholeOverlay(L, ds).files = F
  BY DEF WholeOverlay
<1>2. ASSUME NEW d \in ds
      PROVE  /\ d.rel \in Paths \ {<< >>} /\ d.mod = id /\ d.mode = "overlay"
             /\ Len(d.rel) \in Nat /\ rootLen(d) \in 1..2 /\ rootLen(d) <= Len(d.rel)
  <2>1. d.rel \in Paths \ {<< >>} /\ d.mod = id
    BY DEF SourcesOk
  <2>2. d.mode = "overlay"
    BY DEF Of
  <2> QED
    BY <2>1, <2>2, PartitionType
<1>3. CASE HasAncestorIn(s.rel, replaced)
  <2>1. PICK d \in roots : IsStrictPrefix(d.rel, s.rel) /\ ~HasAncestorIn(d.rel, {c.rel : c \in roots})
    <3>1. (\A d \in roots : d.rel \in Paths) /\ s.rel \in Paths /\ HasAncestorIn(s.rel, {d.rel : d \in roots})
      BY <1>2, <1>3
    <3> HIDE DEF roots
    <3> QED
      BY <3>1, TopmostAbove
  <2>2. d \in open /\ d.rel \in replaced /\ d \in ds /\ Len(d.rel) = rootLen(d)
    BY <2>1
  <2>3. SubSeq(d.rel, 1, Len(d.rel)) = d.rel
    BY <1>2, <2>2 DEF Paths
  <2> HIDE DEF roots, replaced, open
  <2> DEFINE l == layer(d, rootLen(d))
  <2>4. l \in A
    BY <2>2
  <2>5. l.mod = d.mod /\ l.rel = d.rel
    BY <2>2, <2>3
  <2> HIDE DEF A, B, l, layer, rootLen
  <2>6. l.mod = s.mod
    BY <1>2, <2>2, <2>5
  <2> QED
    BY <1>1, <2>1, <2>4, <2>5, <2>6 DEF Reached
<1>4. CASE ~HasAncestorIn(s.rel, replaced)
  <2> DEFINE r == rootLen(s)
             n == Len(s.rel)
  <2>1. s \in open
    BY <1>4
  <2>2. n \in Nat /\ r \in 1..2 /\ r <= n /\ n > 1 /\ s.rel \in Paths
    <3>1. n > 1
      BY <1>2 DEF SourcesOk
    <3> QED
      BY <1>2, <3>1
  <2> HIDE DEF open, replaced
  <2>3. CASE n > r + 1
    <3> DEFINE l == layer(s, rootLen(s) + 1)
               q == SubSeq(s.rel, 1, r + 1)
    <3>1. l \in B
      BY <2>1, <2>3
    <3>2. l.mod = s.mod /\ l.rel = q
      OBVIOUS
    <3> HIDE DEF A, B, l
    <3>3. IsPrefix(q, s.rel) /\ Len(q) = r + 1
      <4> DEFINE k == r + 1
                 p == s.rel
      <4>1. k \in 0..Len(p) /\ p \in Paths
        BY <2>2, <2>3
      <4> HIDE DEF k, p
      <4>2. IsPrefix(SubSeq(p, 1, k), p) /\ Len(SubSeq(p, 1, k)) = k
        BY <4>1, StartsType
      <4> QED
        BY <4>2 DEF k, p
    <3> HIDE DEF q
    <3>4. q # s.rel
      <4>1. r + 1 # n
        BY <2>2, <2>3
      <4> HIDE DEF r
      <4> QED
        BY <3>3, <4>1
    <3>5. IsStrictPrefix(q, s.rel)
      BY <3>3, <3>4 DEF IsStrictPrefix
    <3> QED
      BY <1>1, <3>1, <3>2, <3>5 DEF Reached
  <2>4. CASE n = r + 1
    <3>1. file(s) \in F
      BY <2>1, <2>4
    <3>2. file(s).mod = s.mod /\ file(s).rel = s.rel
      OBVIOUS
    <3> HIDE DEF F, A, B, file
    <3> QED
      BY <1>1, <3>1, <3>2 DEF Reached
  <2>5. CASE n = r
    <3>1. r = 2 /\ n = 2
      BY <2>2, <2>5
    <3>2. Misled(L, s.rel)
      BY <3>1 DEF RootLen, Misled
    <3> HIDE DEF r
    <3>3. Stray(L, ds, s)
      BY <3>1, <3>2, StrayMeans
    <3> QED
      BY <3>3
  <2>6. n > r + 1 \/ n = r + 1 \/ n = r
    <3> HIDE DEF n, r
    <3> QED BY <2>2
  <2> QED
    BY <2>3, <2>4, <2>5, <2>6
<1> QED
  BY <1>3, <1>4

(* A layer of a whole module is named by a source of it. *)
LEMMA WholeFrom ==
  ASSUME NEW L, LayoutOk(L), NEW ds, NEW id, SourcesOk(L, ds, id)
  PROVE  LayersFrom(L, ds, id, WholeOverlay(L, ds).layers)
<1> DEFINE rootLen(d) == RootLen(L, d.rel)
           replaced == {d.rel : d \in {c \in ds : c.replace /\ Len(c.rel) = rootLen(c)}}
           open == {d \in ds : ~HasAncestorIn(d.rel, replaced)}
           layer(d, n) == [target |-> MapTarget(L, SubSeq(d.rel, 1, n)), mod |-> d.mod,
                           rel |-> SubSeq(d.rel, 1, n)]
           A == {layer(d, rootLen(d)) : d \in {c \in open : c.rel \in replaced}}
           B == {layer(d, rootLen(d) + 1) :
                   d \in {c \in open : \/ Len(c.rel) > rootLen(c) + 1
                                       \/ (c.type = "dir" /\ Len(c.rel) = rootLen(c) + 1)}}
           good(l) == /\ l = [target |-> MapTarget(L, l.rel), mod |-> id, rel |-> l.rel]
                      /\ \E d \in ds : d.rel = l.rel
<1>1. WholeOverlay(L, ds).layers = A \cup B
  BY DEF WholeOverlay
<1>2. ASSUME NEW d \in ds
      PROVE  /\ d.rel \in Paths \ {<< >>} /\ d.mod = id
             /\ Len(d.rel) \in Nat /\ rootLen(d) \in 1..2 /\ rootLen(d) <= Len(d.rel)
  BY PartitionType DEF SourcesOk
<1>3. ASSUME NEW l \in A PROVE good(l)
  <2>1. PICK d \in open : d.rel \in replaced /\ l = layer(d, rootLen(d))
    OBVIOUS
  <2>2. Len(d.rel) = rootLen(d)
    <3>1. PICK c \in ds : c.rel = d.rel /\ Len(c.rel) = rootLen(c)
      BY <2>1
    <3> QED
      BY <3>1
  <2>3. SubSeq(d.rel, 1, Len(d.rel)) = d.rel
    BY <1>2 DEF Paths
  <2>4. d \in ds /\ d.mod = id
    BY <1>2
  <2>5. l = [target |-> MapTarget(L, d.rel), mod |-> id, rel |-> d.rel]
    BY <2>1, <2>2, <2>3, <2>4
  <2>6. l.rel = d.rel
    BY <2>5
  <2> QED
    BY <2>4, <2>5, <2>6
<1>4. ASSUME NEW l \in B PROVE good(l)
  <2>1. PICK d \in open : /\ Len(d.rel) > rootLen(d) + 1 \/ Len(d.rel) = rootLen(d) + 1
                          /\ l = layer(d, rootLen(d) + 1)
    OBVIOUS
  <2>2. d \in ds /\ d.mod = id
    BY <1>2
  <2>3. rootLen(d) + 1 \in (RootLen(L, d.rel) + 1)..Len(d.rel)
    BY <1>2, <2>1, <2>2
  <2> DEFINE q == SubSeq(d.rel, 1, rootLen(d) + 1)
  <2>4. \E t \in ds : t.rel = q
    BY <2>2, <2>3 DEF SourcesOk
  <2>5. l = [target |-> MapTarget(L, q), mod |-> id, rel |-> q]
    BY <2>1, <2>2
  <2> HIDE DEF q
  <2>6. l.rel = q
    BY <2>5
  <2> QED
    BY <2>4, <2>5, <2>6
<1> HIDE DEF A, B, good
<1>5. \A l \in A \cup B : good(l)
  BY <1>3, <1>4
<1> QED
  BY <1>1, <1>5 DEF LayersFrom, good

(* A module of which only some paths are overlays (process_module). *)
LEMMA PartialReaches ==
  ASSUME NEW L, LayoutOk(L), NEW ds, NEW id, SourcesOk(L, ds, id),
         NEW s \in Of(ds, "overlay"), s.type # "dir"
  PROVE  /\ Reached(PartialOverlay(L, ds).layers, PartialOverlay(L, ds).files, s)
         /\ LayersFrom(L, ds, id, PartialOverlay(L, ds).layers)
<1> DEFINE own == Of(ds, "overlay")
           overlay == {d.rel : d \in own}
           tops == {d \in own : ~HasAncestorIn(d.rel, overlay)}
           layer(d) == [target |-> d.target, mod |-> d.mod, rel |-> d.rel]
           file(d) == [target |-> MapTarget(L, Front(d.rel)), mod |-> d.mod, rel |-> d.rel]
           A == {layer(d) : d \in {c \in tops : c.type = "dir"}}
           F == {file(d) : d \in {c \in tops : c.type # "dir" /\ Len(c.rel) > 1}}
<1>1. PartialOverlay(L, ds).layers = A /\ PartialOverlay(L, ds).files = F
  BY DEF PartialOverlay
<1>2. ASSUME NEW d \in own
      PROVE  d \in ds /\ d.rel \in Paths /\ d.mod = id /\ d.mode = "overlay" /\ d.target = MapTarget(L, d.rel)
  BY DEF Of, SourcesOk
<1>3. ASSUME HasAncestorIn(s.rel, overlay)
      PROVE  Reached(PartialOverlay(L, ds).layers, PartialOverlay(L, ds).files, s)
  <2>1. PICK d \in own : IsStrictPrefix(d.rel, s.rel) /\ ~HasAncestorIn(d.rel, {c.rel : c \in own})
    <3>1. (\A d \in own : d.rel \in Paths) /\ s.rel \in Paths /\ HasAncestorIn(s.rel, {d.rel : d \in own})
      BY <1>2, <1>3
    <3> HIDE DEF own
    <3> QED
      BY <3>1, TopmostAbove
  <2>2. d \in tops
    BY <2>1
  <2>3. d.type = "dir"
    BY <1>2, <2>1 DEF SourcesOk
  <2>4. layer(d) \in A /\ layer(d).mod = d.mod /\ layer(d).rel = d.rel
    BY <2>2, <2>3
  <2>5. d.mod = s.mod
    BY <1>2
  <2> HIDE DEF A, F, layer
  <2> QED
    BY <1>1, <2>1, <2>4, <2>5 DEF Reached
<1>4. ASSUME ~HasAncestorIn(s.rel, overlay)
      PROVE  Reached(PartialOverlay(L, ds).layers, PartialOverlay(L, ds).files, s)
  <2>1. Len(s.rel) > 1
    <3>1. s.mode # "ignore"
      BY <1>2
    <3> QED
      BY <1>2, <3>1 DEF SourcesOk
  <2>2. s \in tops
    BY <1>4
  <2>3. file(s) \in F /\ file(s).mod = s.mod /\ file(s).rel = s.rel
    BY <2>1, <2>2
  <2> HIDE DEF A, F, file
  <2> QED
    BY <1>1, <2>3 DEF Reached
<1>5. ASSUME NEW l \in A
      PROVE  /\ l = [target |-> MapTarget(L, l.rel), mod |-> id, rel |-> l.rel]
             /\ \E d \in ds : d.rel = l.rel
  <2>1. PICK d \in own : l = layer(d)
    OBVIOUS
  <2>2. l = [target |-> MapTarget(L, d.rel), mod |-> id, rel |-> d.rel] /\ d \in ds
    BY <1>2, <2>1
  <2>3. l.rel = d.rel
    BY <2>2
  <2> QED
    BY <2>2, <2>3
<1>6. LayersFrom(L, ds, id, A)
  <2> HIDE DEF A
  <2> QED BY <1>5 DEF LayersFrom
<1> HIDE DEF A, F, overlay
<1> QED
  BY <1>1, <1>3, <1>4, <1>6

(* Of a module that gives each target once no layer is left out (PlanBuilder). *)
LEMMA OneKeepsAll ==
  ASSUME NEW L, NEW ds, NEW id, SourcesOk(L, ds, id), NEW ls, LayersFrom(L, ds, id, ls),
         \A s, t \in ds : s.target = t.target => s = t
  PROVE  OneByTarget(ls) = ls
<1>1. ASSUME NEW l \in ls, NEW k \in ls, k.target = l.target PROVE k = l
  <2>1. l = [target |-> MapTarget(L, l.rel), mod |-> id, rel |-> l.rel]
    BY DEF LayersFrom
  <2>2. k = [target |-> MapTarget(L, k.rel), mod |-> id, rel |-> k.rel]
    BY DEF LayersFrom
  <2>3. PICK d \in ds : d.rel = l.rel
    BY DEF LayersFrom
  <2>4. PICK e \in ds : e.rel = k.rel
    BY DEF LayersFrom
  <2>5. d.target = MapTarget(L, d.rel) /\ e.target = MapTarget(L, e.rel)
    BY DEF SourcesOk
  <2>6. l.target = MapTarget(L, l.rel) /\ k.target = MapTarget(L, k.rel)
    BY <2>1, <2>2
  <2>7. d = e
    BY <1>1, <2>3, <2>4, <2>5, <2>6
  <2>8. l.rel = k.rel
    BY <2>3, <2>4, <2>7
  <2> QED
    BY <2>1, <2>2, <2>8
<1> QED
  BY <1>1 DEF OneByTarget

(* So the plan has a place for every file that a module gives to the overlay. *)
LEMMA PlanComplete ==
  ASSUME NEW L, LayoutOk(L), NEW cfg, NEW v, NEW M, ModulesOk(M), NEW pl, pl = BuildPlan(cfg, v, L, M),
         NEW s \in Of(pl.tree, "overlay"), s.type # "dir", Unaliased(pl, s.mod), ~Stray(L, pl.tree, s)
  PROVE  Reached(pl.layers, pl.files, s)
<1> DEFINE planned == Planned(cfg, M)
           rl(m) == ModuleRules(cfg, v, m.id)
           ds(m) == Decisions(L, rl(m), m)
           over(m) == OverlayOf(L, rl(m), ds(m))
           T == UNION {ds(m) : m \in planned}
           Ls == UNION {OneByTarget(over(m).layers) : m \in planned}
           Fs == UNION {over(m).files : m \in planned}
<1>1. pl.tree = T /\ pl.layers = Ls /\ pl.files = Fs
  BY DEF BuildPlan
<1>2. ModulesOk(planned)
  BY ModulesSubset DEF Planned
<1>3. s \in T /\ s.mode = "overlay"
  BY <1>1 DEF Of
<1>4. PICK m \in planned : s \in ds(m)
  BY <1>3
<1>5. ModuleOk(m)
  BY <1>2 DEF ModulesOk
<1>6. SourcesOk(L, ds(m), m.id)
  BY <1>5, DecisionsType
<1>7. ds(m) \subseteq T /\ over(m).files \subseteq Fs /\ OneByTarget(over(m).layers) \subseteq Ls
  OBVIOUS
<1> HIDE DEF T, Ls, Fs
<1> DEFINE D == ds(m)
           O == over(m)
<1>8. O = OverlayOf(L, rl(m), D)
  OBVIOUS
<1> HIDE DEF ds, over, rl
<1>9. s \in D /\ SourcesOk(L, D, m.id) /\ D \subseteq pl.tree /\ O.files \subseteq pl.files
      /\ OneByTarget(O.layers) \subseteq pl.layers
  BY <1>1, <1>4, <1>6, <1>7
<1>10. s.mod = m.id /\ s \in Of(D, "overlay")
  BY <1>3, <1>9 DEF SourcesOk, Of
<1>11. \A a, b \in D : a.target = b.target => a = b
  <2>1. \A a \in D : a.mod = s.mod
    BY <1>9, <1>10 DEF SourcesOk
  <2> HIDE DEF D
  <2> QED
    BY <1>9, <2>1 DEF Unaliased
<1>12. ~Stray(L, D, s)
  BY <1>9, StrayMeans
<1> HIDE DEF D, O
<1>13. Reached(O.layers, O.files, s) /\ LayersFrom(L, D, m.id, O.layers)
  <2>1. CASE O = WholeOverlay(L, D) /\ D = Of(D, "overlay")
    BY <1>9, <1>12, <2>1, WholeReaches, WholeFrom
  <2>2. CASE O = PartialOverlay(L, D)
    BY <1>9, <1>10, <2>2, PartialReaches
  <2> QED
    BY <1>8, <2>1, <2>2 DEF OverlayOf
<1>14. OneByTarget(O.layers) = O.layers
  BY <1>9, <1>11, <1>13, OneKeepsAll
<1> QED
  BY <1>9, <1>13, <1>14 DEF Reached

-----------------------------------------------------------------------------
(* Nothing is lost on the way *)

(* An overlay that is to be mounted has the source, below what its layer is made of or
   below the place that was found for it. *)
WaitsFor(s) ==
  \/ \E l \in plan.layers : l.target \in direct /\ l.mod = s.mod /\ IsStrictPrefix(l.rel, s.rel)
  \/ \E e \in shallow : e.dest # << >> /\ e.mod = s.mod /\ IsPrefix(e.rel, s.rel)

(* A source that is to be seen, at a target that the overlays leave to it. *)
Shows(s) == s.type \in {"file", "symlink"} /\ s.target # << >>
YieldsNow(p, n) == Yields(LayoutOf(input), plan.tree, p, n)
Owed(s) ==
  /\ Shows(s) /\ Unaliased(plan, s.mod) /\ ~Stray(LayoutOf(input), plan.tree, s)
  /\ YieldsNow(s.target, SourceNode(s))
(* A node of the device at a path that the overlays leave to it. *)
Spared(p, n) == Solid(n) /\ YieldsNow(p, n) /\ Has(Stock(input.device), p, n)

(* What one boot has made so far: the device where the overlays leave it, and each source
   whose overlay is mounted; then both where Magic mounts leave them, and the sources of
   those; in the end all that where the rules leave it. *)
StandsInv ==
  /\ pc \in {"plan", "failed"} => view = Stock(input.device)
  /\ pc \in {"plan", "mount", "inject"} => rules = {}
  /\ pc = "mount" =>
       /\ \A p \in Paths, n \in Nodes : Spared(p, n) => Has(view, p, n)
       /\ \A s \in Of(plan.tree, "overlay") :
            Owed(s) /\ ~WaitsFor(s) => Has(view, s.target, SourceNode(s))
  /\ pc \in {"inject", "done"} =>
       /\ base \in Views
       /\ \A p \in Paths, n \in Nodes :
            Spared(p, n) /\ ~Buries(plan.tree, "magic", p) => Has(base, p, n)
       /\ \A s \in Of(plan.tree, "overlay") :
            Owed(s) /\ ~Buries(plan.tree, "magic", s.target) => Has(base, s.target, SourceNode(s))
       /\ \A s \in Of(plan.tree, "magic") :
            Shows(s) /\ ~Buries(plan.tree \ {s}, "magic", s.target) =>
              Has(base, s.target, SourceNode(s))
  /\ pc = "done" => \/ rules = {} /\ view = base
                    \/ rules = VfsRules(plan.tree) /\ view = RuledView(rules, base)

(* The node of a file or link. *)
LEMMA ShowsSolid ==
  ASSUME NEW L, NEW T, TreeOk(L, T), NEW s \in T, Shows(s)
  PROVE  Solid(SourceNode(s)) /\ SourceNode(s).kind # "dir" /\ s.target \in Paths \ {<< >>}
<1>1. SourceNode(s) \in Nodes
  BY SourceNodeType DEF TreeOk
<1>2. SourceNode(s).kind = s.type /\ (s.type # "dir" => ~SourceNode(s).opaque)
  BY DEF SourceNode
<1>3. s.type # "dir" /\ s.type # "whiteout" /\ s.target # << >>
  BY DEF Shows
<1>4. s.target \in Paths
  BY DEF TreeOk, Tree
<1> QED
  BY <1>1, <1>2, <1>3, <1>4 DEF Solid

(* A boot starts from the device. *)
LEMMA StandsInit == HotInit => StandsInv
BY DEF HotInit, Init, StandsInv

(* Every file, link or removal of an overlay waits for a mount once there is a plan. *)
LEMMA PlanWaits ==
  ASSUME ViewInv, MakePlan, pc' = "mount", NEW s \in Of(plan'.tree, "overlay"), s.type # "dir",
         Unaliased(plan', s.mod), ~Stray(LayoutOf(input), plan'.tree, s)
  PROVE  WaitsFor(s)'
<1> DEFINE pl == PlanOf(input)
           L == LayoutOf(input)
           M == ListModules(input.dirs, ScanNames(L))
<1>1. pc = "plan" /\ IsDevice(input.device) /\ AreDirectories(input.dirs)
  BY DEF ViewInv, MakePlan
<1>2. plan' = pl
  BY DEF MakePlan
<1>3. /\ Placeable(pl, view) /\ direct' = DirectTargets(pl, view) /\ shallow' = ShallowEntries(pl, view)
  BY DEF MakePlan
<1>4. LayoutOk(L) /\ ModulesOk(M) /\ pl = BuildPlan(input.cfg, input.vfs, L, M)
  <2>1. LayoutOk(L)
    BY <1>1, LayoutType
  <2>2. pl = BuildPlan(input.cfg, input.vfs, L, M)
    BY DEF PlanOf
  <2> HIDE DEF L
  <2>3. ModulesOk(M)
    BY <1>1, ModulesType
  <2> QED
    BY <2>1, <2>2, <2>3
<1> HIDE DEF pl, M
<1>5. s \in Of(pl.tree, "overlay") /\ Unaliased(pl, s.mod) /\ ~Stray(L, pl.tree, s)
  BY <1>2
<1> HIDE DEF L
<1>6. Reached(pl.layers, pl.files, s)
  BY <1>4, <1>5, PlanComplete
<1>7. CASE \E l \in pl.layers : l.mod = s.mod /\ IsStrictPrefix(l.rel, s.rel)
  <2>1. PICK l \in pl.layers : l.mod = s.mod /\ IsStrictPrefix(l.rel, s.rel)
    BY <1>7
  <2> DEFINE place == PlaceOf(view, l.target)
  <2>2. CASE place.rest = << >>
    <3>1. l.target \in direct'
      BY <1>3, <2>2 DEF DirectTargets
    <3> QED
      BY <1>2, <2>1, <3>1 DEF WaitsFor
  <2>3. CASE place.rest # << >>
    <3> DEFINE e == [at |-> place.at, mod |-> l.mod, rel |-> l.rel, dest |-> place.rest]
    <3>1. e \in shallow'
      BY <1>3, <2>3 DEF ShallowEntries
    <3>2. e.dest # << >> /\ e.mod = s.mod /\ e.rel = l.rel
      BY <2>1, <2>3
    <3>3. IsPrefix(l.rel, s.rel)
      BY <2>1 DEF IsStrictPrefix
    <3> HIDE DEF e, place
    <3> QED
      BY <1>2, <3>1, <3>2, <3>3 DEF WaitsFor
  <2> QED
    BY <2>2, <2>3
<1>8. CASE \E f \in pl.files : f.mod = s.mod /\ f.rel = s.rel
  <2>1. PICK f \in pl.files : f.mod = s.mod /\ f.rel = s.rel
    BY <1>8
  <2> DEFINE rest == PlaceOf(view, f.target).rest
             e == [at |-> PlaceOf(view, f.target).at, mod |-> f.mod, rel |-> f.rel,
                   dest |-> Append(rest, Last(f.rel))]
  <2>2. e \in shallow'
    BY <1>3 DEF ShallowEntries
  <2>3. e.dest = Append(rest, Last(f.rel)) /\ e.mod = s.mod /\ e.rel = s.rel
    BY <2>1
  <2>4. PlanOk(L, pl)
    BY <1>4, BuildPlanType
  <2>5. rest \in Paths
    <3>1. f.target \in Paths
      BY <2>1, <2>4 DEF PlanOk
    <3> QED
      BY <1>3, <2>1, <3>1, PlaceType DEF Placeable
  <2>6. Append(rest, Last(f.rel)) # << >>
    <3> HIDE DEF rest
    <3> QED BY <2>5 DEF Paths
  <2>7. s.rel \in Paths
    BY <1>5, <2>4 DEF PlanOk, TreeOk, Tree, SourceSet, Of
  <2>8. IsPrefix(s.rel, s.rel)
    BY <2>7, PrefixSelf
  <2> HIDE DEF e, rest
  <2> QED
    BY <1>2, <2>2, <2>3, <2>6, <2>8 DEF WaitsFor
<1> QED
  BY <1>6, <1>7, <1>8 DEF Reached

(* So it shows the device until the first of them is mounted (run_mount_pipeline_impl). *)
LEMMA MakePlanStands == ViewInv /\ StandsInv /\ MakePlan => StandsInv'
<1> SUFFICES ASSUME ViewInv, StandsInv, MakePlan PROVE StandsInv'
  OBVIOUS
<1>1. pc = "plan" /\ view = Stock(input.device) /\ rules = {}
  BY DEF StandsInv, MakePlan
<1>2. input' = input /\ view' = view /\ rules' = rules /\ pc' \in {"mount", "failed"}
  BY DEF MakePlan, provider
<1>3. pc' = "mount" => \A p \in Paths, n \in Nodes : Spared(p, n)' => Has(view, p, n)'
  BY <1>1, <1>2 DEF Spared
<1>4. pc' = "mount" => \A s \in Of(plan.tree, "overlay")' : Owed(s)' => WaitsFor(s)'
  <2> SUFFICES ASSUME pc' = "mount", NEW s \in Of(plan.tree, "overlay")', Owed(s)' PROVE WaitsFor(s)'
    OBVIOUS
  <2>1. s \in Of(plan'.tree, "overlay")
    BY DEF Of
  <2>2. s.type # "dir"
    BY DEF Owed, Shows
  <2>3. Unaliased(plan', s.mod) /\ ~Stray(LayoutOf(input), plan'.tree, s)
    BY <1>2 DEF Owed
  <2> QED
    BY <2>1, <2>2, <2>3, PlanWaits
<1> QED
  BY <1>1, <1>2, <1>3, <1>4 DEF StandsInv

(* A mount keeps what stands below its target or beside it, and shows what its layers
   have that no longer waits for another. *)
LEMMA MountStands ==
  ASSUME ViewInv, StandsInv, pc = "mount", NEW at \in Paths, NEW layers,
         \A p \in Paths, n \in Nodes : YieldsNow(p, n) => layers \in Seq(Fitting(at, Only(p, n))),
         ChildrenSurvive(layers, at, mounted, view), MountOverlay(at, layers),
         \A s \in Of(plan.tree, "overlay") :
           Owed(s) /\ WaitsFor(s) =>
             \/ WaitsFor(s)'
             \/ IsStrictPrefix(at, s.target) /\ \E k \in 1..Len(layers) : Tail0(s.target, at) \in DOMAIN layers[k]
  PROVE  StandsInv'
<1> DEFINE L == LayoutOf(input)
<1>1. /\ input' = input /\ plan' = plan /\ rules' = rules /\ pc' = "mount"
      /\ view' = Overlaid(layers, at, mounted, view)
  BY DEF MountOverlay, provider
<1>2. /\ IsDevice(input.device) /\ AreDirectories(input.dirs) /\ plan = PlanOf(input)
      /\ view \in HonestNow /\ mounted \in SUBSET Paths
  BY DEF ViewInv
<1>3. view \in Views
  BY <1>2, SeenElim DEF HonestNow
<1>4. TreeOk(L, plan.tree)
  BY <1>2, PlanType DEF PlanOk
<1>5. /\ \A p \in Paths, n \in Nodes : Spared(p, n) => Has(view, p, n)
      /\ \A s \in Of(plan.tree, "overlay") : Owed(s) /\ ~WaitsFor(s) => Has(view, s.target, SourceNode(s))
      /\ rules = {}
  BY DEF StandsInv
<1>6. ASSUME NEW p \in Paths, NEW n \in Nodes, Spared(p, n) PROVE Has(view', p, n)
  <2>1. Solid(n) /\ YieldsNow(p, n) /\ Has(view, p, n)
    BY <1>5, <1>6 DEF Spared
  <2>2. layers \in Seq(Fitting(at, Only(p, n)))
    BY <2>1
  <2> QED
    BY <1>1, <1>2, <1>3, <2>1, <2>2, OverlaidKeeps
<1>7. ASSUME NEW s \in Of(plan.tree, "overlay"), Owed(s), ~WaitsFor(s)'
      PROVE  Has(view', s.target, SourceNode(s))
  <2>1. s \in plan.tree /\ Shows(s) /\ YieldsNow(s.target, SourceNode(s))
    BY <1>7 DEF Of, Owed
  <2> HIDE DEF L
  <2>2. Solid(SourceNode(s)) /\ s.target \in Paths
    BY <1>4, <2>1, ShowsSolid
  <2>3. SourceNode(s) \in Nodes
    BY <2>2 DEF Solid
  <2>4. layers \in Seq(Fitting(at, Only(s.target, SourceNode(s))))
    BY <2>1, <2>2, <2>3
  <2>5. \/ Has(view, s.target, SourceNode(s))
        \/ IsStrictPrefix(at, s.target) /\ \E k \in 1..Len(layers) : Tail0(s.target, at) \in DOMAIN layers[k]
    BY <1>5, <1>7
  <2> DEFINE t == s.target
             n == SourceNode(s)
  <2>6. t \in Paths /\ Solid(n) /\ layers \in Seq(Fitting(at, Only(t, n)))
    BY <2>2, <2>4
  <2>7. \/ Has(view, t, n)
        \/ IsStrictPrefix(at, t) /\ \E k \in 1..Len(layers) : Tail0(t, at) \in DOMAIN layers[k]
    BY <2>5
  <2> HIDE DEF t, n
  <2>8. Has(Overlaid(layers, at, mounted, view), t, n)
    BY <1>2, <1>3, <2>6, <2>7, OverlaidKeeps
  <2> QED
    BY <1>1, <2>8 DEF t, n
<1>8. \A p \in Paths, n \in Nodes : Spared(p, n)' => Has(view, p, n)'
  BY <1>1, <1>6 DEF Spared, YieldsNow, Has
<1>9. \A s \in Of(plan.tree, "overlay")' : Owed(s)' /\ ~WaitsFor(s)' => Has(view, s.target, SourceNode(s))'
  <2> SUFFICES ASSUME NEW s \in Of(plan.tree, "overlay")', Owed(s)', ~WaitsFor(s)'
               PROVE  Has(view, s.target, SourceNode(s))'
    OBVIOUS
  <2>1. s \in Of(plan.tree, "overlay")
    BY <1>1 DEF Of
  <2>2. Owed(s)
    BY <1>1 DEF Owed, YieldsNow
  <2> QED
    BY <1>7, <2>1, <2>2 DEF Has
<1> QED
  BY <1>1, <1>5, <1>8, <1>9 DEF StandsInv

(* A failed boot shows the device, and no more is asked of it. *)
LEMMA FailStands == Fail => StandsInv'
BY DEF Fail, StandsInv

(* What no longer waits after a mount at its target is in the layers of that. *)
LEMMA DirectEnds ==
  ASSUME NEW L, PlanOk(L, plan), NEW at \in Paths,
         NEW s \in Of(plan.tree, "overlay"), ~Stray(L, plan.tree, s), WaitsFor(s),
         direct' = direct \ {at}, shallow' = shallow, plan' = plan, ~WaitsFor(s)'
  PROVE  /\ IsStrictPrefix(at, s.target)
         /\ \E k \in 1..Len(DirectLayers(plan, at)) : Tail0(s.target, at) \in DOMAIN DirectLayers(plan, at)[k]
<1> DEFINE layers == DirectLayers(plan, at)
<1>1. ~ \E e \in shallow : e.dest # << >> /\ e.mod = s.mod /\ IsPrefix(e.rel, s.rel)
  BY DEF WaitsFor
<1>2. PICK l \in plan.layers : l.target \in direct /\ l.mod = s.mod /\ IsStrictPrefix(l.rel, s.rel)
  BY <1>1 DEF WaitsFor
<1>3. l.target = at
  BY <1>2 DEF WaitsFor
<1>4. /\ TreeOk(L, plan.tree) /\ l.rel \in Paths /\ l.target \in Paths
      /\ Placed(L, plan.tree, l.target, << >>, l.mod, l.rel)
  BY DEF PlanOk
<1>5. IsPrefix(l.rel, s.rel) /\ l.rel # s.rel
  BY <1>2 DEF IsStrictPrefix
<1>6. << >> \in Paths
  BY DEF Paths
<1> DEFINE mod == l.mod
           rel == l.rel
           none == << >>
           tgt == s.target
           layer == Layer(plan.tree, mod, rel, none)
<1>7. IsStrictPrefix(at, tgt) /\ Tail0(tgt, at) \in DOMAIN layer
  <2>1. s.mod = mod /\ IsPrefix(rel, s.rel) /\ rel # s.rel /\ rel \in Paths /\ none \in Paths
        /\ Placed(L, plan.tree, at, none, mod, rel)
    BY <1>2, <1>3, <1>4, <1>5, <1>6
  <2> HIDE DEF mod, rel, none
  <2> QED
    BY <1>4, <2>1, LayerHas
<1>8. \E k \in 1..Len(DirectLayers(plan, l.target)) :
        DirectLayers(plan, l.target)[k] = Layer(plan.tree, l.mod, l.rel, << >>)
  BY DirectHas
<1>9. \E k \in 1..Len(layers) : layers[k] = layer
  BY <1>3, <1>8
<1> HIDE DEF layers, layer
<1>10. IsStrictPrefix(at, tgt) /\ \E k \in 1..Len(layers) : Tail0(tgt, at) \in DOMAIN layers[k]
  BY <1>7, <1>9
<1> QED
  BY <1>10 DEF layers

(* And after a mount over the place that was found in the layers of that. *)
LEMMA ShallowEnds ==
  ASSUME NEW L, PlanOk(L, plan), NEW at \in Paths, NEW own, ShallowOk(L, plan.tree, own),
         \A e \in own : e.at = at,
         NEW s \in Of(plan.tree, "overlay"), ~Stray(L, plan.tree, s), WaitsFor(s),
         direct' = direct, shallow' = shallow \ own, plan' = plan, ~WaitsFor(s)'
  PROVE  /\ IsStrictPrefix(at, s.target)
         /\ \E k \in 1..Len(ShallowLayers(plan, own)) : Tail0(s.target, at) \in DOMAIN ShallowLayers(plan, own)[k]
<1> DEFINE layers == ShallowLayers(plan, own)
<1>1. ~ \E l \in plan.layers : l.target \in direct /\ l.mod = s.mod /\ IsStrictPrefix(l.rel, s.rel)
  BY DEF WaitsFor
<1>2. PICK e \in shallow : e.dest # << >> /\ e.mod = s.mod /\ IsPrefix(e.rel, s.rel)
  BY <1>1 DEF WaitsFor
<1>3. e \in own
  BY <1>2 DEF WaitsFor
<1>4. /\ TreeOk(L, plan.tree) /\ e.rel \in Paths /\ e.dest \in Paths /\ e.at = at
      /\ Placed(L, plan.tree, e.at, e.dest, e.mod, e.rel)
  BY <1>3 DEF PlanOk, ShallowOk
<1>5. EntrySet(own)
  BY ShallowEntrySet
<1> DEFINE mod == e.mod
           rel == e.rel
           dest == e.dest
           tgt == s.target
           layer == Layer(plan.tree, mod, rel, dest)
<1>6. IsStrictPrefix(at, tgt) /\ Tail0(tgt, at) \in DOMAIN layer
  <2>1. s.mod = mod /\ IsPrefix(rel, s.rel) /\ dest # << >> /\ rel \in Paths /\ dest \in Paths
        /\ Placed(L, plan.tree, at, dest, mod, rel)
    BY <1>2, <1>4
  <2> HIDE DEF mod, rel, dest
  <2> QED
    BY <1>4, <2>1, LayerHas
<1>7. \E k \in 1..Len(layers) : layers[k] = layer
  BY <1>3, <1>5, ShallowHas
<1> HIDE DEF layers, layer
<1>8. IsStrictPrefix(at, tgt) /\ \E k \in 1..Len(layers) : Tail0(tgt, at) \in DOMAIN layers[k]
  BY <1>6, <1>7
<1> QED
  BY <1>8 DEF layers

(* An overlay at its target shows what its layers have below it (mount_overlay_phase). *)
LEMMA MountDirectStands == ViewInv /\ StandsInv /\ MountDirect => StandsInv'
<1> SUFFICES ASSUME ViewInv, StandsInv, MountDirect PROVE StandsInv'
  OBVIOUS
<1> DEFINE at == CHOOSE t \in direct : \A u \in direct \ {t} : RelBefore(t, u)
           layers == DirectLayers(plan, at)
           L == LayoutOf(input)
<1>1. /\ pc = "mount" /\ IsDevice(input.device) /\ AreDirectories(input.dirs)
      /\ plan = PlanOf(input)
      /\ IsFiniteSet(direct) /\ direct \subseteq Paths /\ direct # {}
  BY DEF ViewInv, MountDirect
<1>2. PlanOk(L, plan)
  BY <1>1, PlanType
<1>3. at \in direct
  BY <1>1, FirstPath
<1>4. at \in Paths
  BY <1>1, <1>3
<1>5. \/ ChildrenSurvive(layers, at, mounted, view) /\ MountOverlay(at, layers)
           /\ direct' = direct \ {at} /\ UNCHANGED shallow
      \/ Fail
  BY DEF MountDirect
<1> HIDE DEF at
<1>6. ASSUME NEW p \in Paths, NEW n \in Nodes, YieldsNow(p, n)
      PROVE  layers \in Seq(Fitting(at, Only(p, n)))
  BY <1>2, <1>4, <1>6, DirectYields DEF YieldsNow
<1>7. ASSUME NEW s \in Of(plan.tree, "overlay"), Owed(s), WaitsFor(s),
             direct' = direct \ {at}, shallow' = shallow, plan' = plan, ~WaitsFor(s)'
      PROVE  IsStrictPrefix(at, s.target) /\ \E k \in 1..Len(layers) : Tail0(s.target, at) \in DOMAIN layers[k]
  <2>1. ~Stray(L, plan.tree, s)
    BY <1>7 DEF Owed
  <2> HIDE DEF L
  <2> QED
    BY <1>2, <1>4, <1>7, <2>1, DirectEnds
<1> HIDE DEF layers, L
<1>8. CASE /\ ChildrenSurvive(layers, at, mounted, view) /\ MountOverlay(at, layers)
           /\ direct' = direct \ {at} /\ UNCHANGED shallow
  <2>1. shallow' = shallow /\ plan' = plan /\ direct' = direct \ {at}
    BY <1>8 DEF MountOverlay
  <2>2. \A s \in Of(plan.tree, "overlay") :
          Owed(s) /\ WaitsFor(s) =>
            \/ WaitsFor(s)'
            \/ IsStrictPrefix(at, s.target) /\ \E k \in 1..Len(layers) : Tail0(s.target, at) \in DOMAIN layers[k]
    BY <1>7, <2>1
  <2> QED
    BY <1>1, <1>4, <1>6, <1>8, <2>2, MountStands
<1> QED
  BY <1>5, <1>8, FailStands

(* An overlay over the place that was found does so too (mount_overlay_files). *)
LEMMA MountShallowStands == ViewInv /\ StandsInv /\ MountShallow => StandsInv'
<1> SUFFICES ASSUME ViewInv, StandsInv, MountShallow PROVE StandsInv'
  OBVIOUS
<1> DEFINE ats == {e.at : e \in shallow}
           at == CHOOSE t \in ats : \A u \in ats \ {t} : RelBefore(t, u)
           own == {e \in shallow : e.at = at}
           layers == ShallowLayers(plan, own)
           L == LayoutOf(input)
<1>1. /\ pc = "mount" /\ IsDevice(input.device) /\ AreDirectories(input.dirs)
      /\ plan = PlanOf(input) /\ shallow # {} /\ ShallowOk(L, plan.tree, shallow)
  BY DEF ViewInv, MountShallow
<1>2. PlanOk(L, plan)
  BY <1>1, PlanType
<1>3. ats \in SUBSET Paths /\ ats # {}
  BY <1>1 DEF ShallowOk
<1>4. IsFiniteSet(ats)
  <2> DEFINE f == [e \in shallow |-> e.at]
  <2>1. \A t \in ats : \E e \in shallow : t = f[e]
    OBVIOUS
  <2>2. IsFiniteSet(shallow)
    BY <1>1 DEF ShallowOk
  <2> HIDE DEF f, ats
  <2> QED
    BY <2>1, <2>2, FiniteImage
<1> HIDE DEF ats
<1>5. at \in Paths
  BY <1>3, <1>4, FirstPath
<1>6. \/ ChildrenSurvive(layers, at, mounted, view) /\ MountOverlay(at, layers)
           /\ shallow' = shallow \ own /\ UNCHANGED direct
      \/ Fail
  BY DEF MountShallow, ats
<1> HIDE DEF at
<1>7. ShallowOk(L, plan.tree, own) /\ \A e \in own : e.at = at
  BY <1>1, FS_Subset DEF ShallowOk
<1> HIDE DEF own
<1>9. ASSUME NEW p \in Paths, NEW n \in Nodes, YieldsNow(p, n)
      PROVE  layers \in Seq(Fitting(at, Only(p, n)))
  BY <1>2, <1>5, <1>7, <1>9, ShallowYields DEF YieldsNow
<1>10. ASSUME NEW s \in Of(plan.tree, "overlay"), Owed(s), WaitsFor(s),
              direct' = direct, shallow' = shallow \ own, plan' = plan, ~WaitsFor(s)'
       PROVE  IsStrictPrefix(at, s.target) /\ \E k \in 1..Len(layers) : Tail0(s.target, at) \in DOMAIN layers[k]
  <2>1. ~Stray(L, plan.tree, s)
    BY <1>10 DEF Owed
  <2> HIDE DEF L
  <2> QED
    BY <1>2, <1>5, <1>7, <1>10, <2>1, ShallowEnds
<1> HIDE DEF layers, L
<1>11. CASE /\ ChildrenSurvive(layers, at, mounted, view) /\ MountOverlay(at, layers)
            /\ shallow' = shallow \ own /\ UNCHANGED direct
  <2>1. shallow' = shallow \ own /\ plan' = plan /\ direct' = direct
    BY <1>11 DEF MountOverlay
  <2>2. \A s \in Of(plan.tree, "overlay") :
          Owed(s) /\ WaitsFor(s) =>
            \/ WaitsFor(s)'
            \/ IsStrictPrefix(at, s.target) /\ \E k \in 1..Len(layers) : Tail0(s.target, at) \in DOMAIN layers[k]
    BY <1>10, <2>1
  <2> QED
    BY <1>1, <1>5, <1>9, <1>11, <2>2, MountStands
<1> QED
  BY <1>6, <1>11, FailStands

(* Magic mounts show their sources and leave the rest where it is (magic_mount). *)
LEMMA MountMagicStands == ViewInv /\ StandsInv /\ MountMagic => StandsInv'
<1> SUFFICES ASSUME ViewInv, StandsInv, MountMagic PROVE StandsInv'
  OBVIOUS
<1> DEFINE L == LayoutOf(input)
           T == plan.tree
           v == MagicView(T, view)
<1>1. /\ pc = "mount" /\ IsDevice(input.device) /\ AreDirectories(input.dirs)
      /\ plan = PlanOf(input) /\ view \in HonestNow /\ direct = {} /\ shallow = {}
  BY DEF ViewInv, MountMagic
<1>2. TreeOk(L, T)
  BY <1>1, PlanType DEF PlanOk
<1>3. view \in Views
  BY <1>1, SeenElim DEF HonestNow
<1>4. v \in Views
  <2>1. v \in Fitting(<< >>, Honest(L, T))
    BY <1>1, <1>2, MagicFits DEF HonestNow
  <2> QED
    BY <2>1, SeenElim
<1>5. /\ \A p \in Paths, n \in Nodes : Spared(p, n) => Has(view, p, n)
      /\ \A s \in Of(T, "overlay") : Owed(s) => Has(view, s.target, SourceNode(s))
      /\ rules = {}
  BY <1>1 DEF StandsInv, WaitsFor
<1>6. \/ /\ view' = v /\ base' = view' /\ pc' = "inject" /\ ~MagicFails(T, view)
         /\ input' = input /\ plan' = plan /\ rules' = rules
      \/ Fail
  BY DEF MountMagic
<1> HIDE DEF L
<1>7. ASSUME ~MagicFails(T, view), NEW p \in Paths, NEW n \in Nodes, Spared(p, n), ~Buries(T, "magic", p)
      PROVE  Has(v, p, n)
  <2>1. Has(view, p, n) /\ n.kind # "dir"
    BY <1>5, <1>7 DEF Spared, Solid
  <2> QED
    BY <1>2, <1>3, <1>7, <2>1, MagicKeeps
<1>8. ASSUME ~MagicFails(T, view), NEW s \in Of(T, "overlay"), Owed(s), ~Buries(T, "magic", s.target)
      PROVE  Has(v, s.target, SourceNode(s))
  <2> DEFINE n == SourceNode(s)
             t == s.target
  <2>1. Has(view, t, n)
    BY <1>5, <1>8
  <2>2. n.kind # "dir"
    <3>1. s \in T /\ Shows(s)
      BY <1>8 DEF Of, Owed
    <3> QED
      BY <1>2, <3>1, ShowsSolid
  <2>3. ~Buries(T, "magic", t)
    BY <1>8
  <2> HIDE DEF n, t
  <2>4. Has(v, t, n)
    BY <1>2, <1>3, <1>8, <2>1, <2>2, <2>3, MagicKeeps
  <2> QED
    BY <2>4 DEF n, t
<1>9. ASSUME NEW s \in Of(T, "magic"), Shows(s), ~Buries(T \ {s}, "magic", s.target)
      PROVE  Has(v, s.target, SourceNode(s))
  BY <1>2, <1>9, MagicShows DEF Shows
<1> HIDE DEF v
<1>10. CASE /\ view' = v /\ base' = view' /\ pc' = "inject" /\ ~MagicFails(T, view)
            /\ input' = input /\ plan' = plan /\ rules' = rules
  <2>1. \A p \in Paths, n \in Nodes : Spared(p, n)' /\ ~Buries(plan.tree, "magic", p)' => Has(base, p, n)'
    BY <1>7, <1>10 DEF Spared, YieldsNow, Has, Buries
  <2>2. \A s \in Of(plan.tree, "overlay")' :
          Owed(s)' /\ ~Buries(plan.tree, "magic", s.target)' => Has(base, s.target, SourceNode(s))'
    <3> SUFFICES ASSUME NEW s \in Of(plan.tree, "overlay")', Owed(s)', ~Buries(plan.tree, "magic", s.target)'
                 PROVE  Has(base, s.target, SourceNode(s))'
      OBVIOUS
    <3>1. s \in Of(T, "overlay") /\ ~Buries(T, "magic", s.target)
      BY <1>10 DEF Of, Buries
    <3>2. Owed(s)
      BY <1>10 DEF Owed, YieldsNow
    <3> QED
      BY <1>8, <1>10, <3>1, <3>2 DEF Has
  <2>3. \A s \in Of(plan.tree, "magic")' :
          Shows(s)' /\ ~Buries(plan.tree \ {s}, "magic", s.target)' => Has(base, s.target, SourceNode(s))'
    <3> SUFFICES ASSUME NEW s \in Of(plan.tree, "magic")', Shows(s)', ~Buries(plan.tree \ {s}, "magic", s.target)'
                 PROVE  Has(base, s.target, SourceNode(s))'
      OBVIOUS
    <3>1. s \in Of(T, "magic") /\ ~Buries(T \ {s}, "magic", s.target)
      BY <1>10 DEF Of, Buries
    <3>2. Shows(s)
      BY DEF Shows
    <3> QED
      BY <1>9, <1>10, <3>1, <3>2 DEF Has
  <2>4. base' \in Views /\ rules' = {}
    BY <1>4, <1>5, <1>10
  <2> QED
    BY <1>10, <2>1, <2>2, <2>3, <2>4 DEF StandsInv
<1> QED
  BY <1>6, <1>10, FailStands

(* The rules of the plan are in place, or the provider is left out (apply_vfs_phase). *)
LEMMA ApplyRulesStands == ViewInv /\ StandsInv /\ ApplyRules => StandsInv'
<1> SUFFICES ASSUME ViewInv, StandsInv, ApplyRules PROVE StandsInv'
  OBVIOUS
<1>1. pc = "inject" /\ base = view /\ rules = {}
  BY DEF ViewInv, StandsInv, ApplyRules
<1>2. \/ /\ pc' = "done" /\ input' = input /\ plan' = plan /\ base' = base
         /\ \/ rules' = VfsRules(plan.tree) /\ view' = RuledView(rules', base)
            \/ rules' = rules /\ view' = view
      \/ Fail
  BY DEF ApplyRules, RulesTaken, ProviderLeftOut, provider
<1>3. CASE /\ pc' = "done" /\ input' = input /\ plan' = plan /\ base' = base
           /\ \/ rules' = VfsRules(plan.tree) /\ view' = RuledView(rules', base)
              \/ rules' = rules /\ view' = view
  <2> DEFINE InPlace(in, pl, b) ==
        /\ b \in Views
        /\ \A p \in Paths, n \in Nodes :
             Solid(n) /\ Yields(LayoutOf(in), pl.tree, p, n) /\ Has(Stock(in.device), p, n)
               /\ ~Buries(pl.tree, "magic", p) => Has(b, p, n)
        /\ \A s \in Of(pl.tree, "overlay") :
             Shows(s) /\ Unaliased(pl, s.mod) /\ ~Stray(LayoutOf(in), pl.tree, s)
               /\ Yields(LayoutOf(in), pl.tree, s.target, SourceNode(s))
               /\ ~Buries(pl.tree, "magic", s.target) => Has(b, s.target, SourceNode(s))
        /\ \A s \in Of(pl.tree, "magic") :
             Shows(s) /\ ~Buries(pl.tree \ {s}, "magic", s.target) => Has(b, s.target, SourceNode(s))
  <2>1. InPlace(input, plan, base)
    BY <1>1 DEF StandsInv, Spared, Owed, YieldsNow
  <2>2. InPlace(input', plan', base')
    <3> HIDE DEF InPlace
    <3> QED BY <1>3, <2>1
  <2>3. \/ rules' = {} /\ view' = base'
        \/ rules' = VfsRules(plan.tree)' /\ view' = RuledView(rules, base)'
    <3>1. VfsRules(plan.tree)' = VfsRules(plan.tree)
      BY <1>3
    <3>2. RuledView(rules, base)' = RuledView(rules', base)
      BY <1>3
    <3> QED
      BY <1>1, <1>3, <3>1, <3>2
  <2>4. pc' = "done"
    BY <1>3
  <2> QED
    BY <2>2, <2>3, <2>4 DEF StandsInv, Spared, Owed, YieldsNow
<1> QED
  BY <1>2, <1>3, FailStands

(* Once the boot is committed it stays so. *)
LEMMA LaterReady == Commit \/ Load \/ Reload \/ Unload \/ Change => pc' = "ready"
<1> SUFFICES ASSUME Commit \/ Load \/ Reload \/ Unload \/ Change PROVE pc' = "ready"
  OBVIOUS
<1>1. CASE Commit
  BY <1>1 DEF Commit
<1>2. ASSUME NEW b, NEW a, NEW rows, pc = "ready", Reconcile(b, a, rows)
      PROVE  pc' = "ready"
  BY <1>2 DEF Reconcile
<1>3. CASE Load \/ Reload
  <2>1. pc = "ready" /\ \E m, l : Install(m, l)
    BY <1>3 DEF Load, Reload, HotReady
  <2> QED
    BY <1>2, <2>1 DEF Install
<1>4. CASE Unload
  BY <1>2, <1>4 DEF Unload, HotReady
<1>5. CASE Change
  BY <1>5 DEF Change, vars
<1> QED
  BY <1>1, <1>3, <1>4, <1>5

(* Every step of a boot keeps what stands. *)
LEMMA StandsInductive == ViewInv /\ StandsInv /\ [HotNext]_hotVars => StandsInv'
<1> SUFFICES ASSUME ViewInv, StandsInv, [HotNext]_hotVars PROVE StandsInv'
  OBVIOUS
<1>1. CASE UNCHANGED hotVars
  <2>1. /\ input' = input /\ pc' = pc /\ plan' = plan /\ view' = view
        /\ direct' = direct /\ shallow' = shallow /\ base' = base /\ rules' = rules
    BY <1>1 DEF hotVars, vars, overlays, provider
  <2> QED
    BY <2>1 DEF StandsInv, Spared, Owed, YieldsNow, WaitsFor
<1>2. CASE Next
  BY <1>2, MakePlanStands, MountDirectStands, MountShallowStands, MountMagicStands,
     ApplyRulesStands DEF Next
<1>3. CASE Commit \/ Load \/ Reload \/ Unload \/ Change
  BY <1>3, LaterReady DEF StandsInv
<1> QED
  BY <1>1, <1>2, <1>3 DEF HotNext

(* What one backend has put in place no later one takes away unless a source of its own
   covers it (the order of execute_mount_phases). *)
THEOREM ViewStands == HotSpec => []StandsInv
<1>1. HotInit => ViewInv /\ StandsInv
  BY ViewInit, StandsInit
<1>2. ViewInv /\ StandsInv /\ [HotNext]_hotVars => (ViewInv /\ StandsInv)'
  BY HotInductive, StandsInductive
<1> QED
  BY <1>1, <1>2, PTL DEF HotSpec

-----------------------------------------------------------------------------
(* What the end of a boot shows *)

(* A file or link of a plan is not one of the names that stand for a partition, unless it
   is astray (RootLen). *)
LEMMA TargetBelowRoot ==
  ASSUME NEW L, LayoutOk(L), NEW T, NEW s, s.rel \in Paths, Len(s.rel) > 1,
         s.target = MapTarget(L, s.rel), s.type # "dir", ~Stray(L, T, s)
  PROVE  s.target # << >>
<1> DEFINE rel == s.rel
           n == Len(rel)
           r == RootLen(L, rel)
           p == LogicalPartition(L, rel)
           root == IF p \in DOMAIN L.roots THEN L.roots[p] ELSE <<p>>
           rest == SubSeq(rel, r + 1, n)
<1>1. n \in Nat /\ n > 1 /\ r \in 1..2 /\ p \in Names
  <2>1. rel # << >> /\ n \in Nat
    BY DEF Paths
  <2> QED
    BY <2>1, PartitionType
<1>2. r < n
  <2>1. CASE r = 2 /\ n = 2
    <3>1. Misled(L, rel)
      BY <2>1 DEF RootLen, Misled
    <3>2. Stray(L, T, s)
      BY <2>1, <3>1, StrayMeans
    <3> QED
      BY <3>2
  <2>2. CASE ~(r = 2 /\ n = 2)
    <3> HIDE DEF r, n
    <3> QED BY <1>1, <2>2
  <2> QED
    BY <2>1, <2>2
<1>3. root \in Seq(Names)
  BY <1>1 DEF LayoutOk, Paths
<1>4. rest \in Seq(Names) /\ Len(rest) > 0
  <2>1. rel \in Seq(Names)
    BY DEF Paths
  <2>2. \A i \in (r + 1)..n : rel[i] \in Names
    <3> HIDE DEF r
    <3> QED BY <1>1, <2>1
  <2>3. r + 1 \in Int /\ n \in Int /\ r + 1 <= n /\ n - (r + 1) + 1 > 0
    <3> HIDE DEF r, n
    <3> QED BY <1>1, <1>2
  <2> HIDE DEF r, n
  <2>4. rest \in Seq(Names) /\ Len(rest) = IF r + 1 <= n THEN n - (r + 1) + 1 ELSE 0
    BY <2>2, <2>3, SubSeqProperties
  <2> HIDE DEF rest
  <2> QED
    BY <2>3, <2>4
<1>5. s.target = root \o rest
  BY DEF MapTarget
<1> HIDE DEF root, rest
<1>6. Len(root \o rest) > 0
  BY <1>3, <1>4
<1> HIDE DEF rel, n, r, p
<1>7. root \o rest # << >>
  BY <1>6
<1> QED
  BY <1>5, <1>7

(* A file or link of a plan has at least one component below the name of a partition. *)
LEMMA PlanDepth ==
  ASSUME NEW L, LayoutOk(L), NEW cfg, NEW v, NEW M, ModulesOk(M),
         NEW s \in BuildPlan(cfg, v, L, M).tree, s.type # "dir", s.mode # "ignore"
  PROVE  Len(s.rel) > 1
<1> DEFINE planned == Planned(cfg, M)
           ds(m) == Decisions(L, ModuleRules(cfg, v, m.id), m)
<1>1. BuildPlan(cfg, v, L, M).tree = UNION {ds(m) : m \in planned}
  BY DEF BuildPlan
<1>2. PICK m \in planned : s \in ds(m)
  BY <1>1
<1>3. ModuleOk(m)
  BY ModulesSubset DEF Planned, ModulesOk
<1>4. SourcesOk(L, ds(m), m.id)
  BY <1>3, DecisionsType
<1> HIDE DEF ds
<1> QED
  BY <1>2, <1>4 DEF SourcesOk

(* So what is no directory has a target below the root. *)
LEMMA AcceptedBelow ==
  ASSUME ViewInv, pc = "done", NEW s \in plan.tree, s.mode # "ignore", s.type # "dir", ~Astray(s)
  PROVE  s.target # << >>
<1> DEFINE L == LayoutOf(input)
           M == ListModules(input.dirs, ScanNames(L))
<1>1. IsDevice(input.device) /\ AreDirectories(input.dirs) /\ plan = PlanOf(input)
  BY DEF ViewInv
<1>2. LayoutOk(L) /\ PlanOk(L, plan)
  BY <1>1, PlanType
<1>3. plan = BuildPlan(input.cfg, input.vfs, L, M)
  BY <1>1 DEF PlanOf
<1>4. ~Stray(L, plan.tree, s)
  BY DEF Astray
<1> HIDE DEF L
<1>5. ModulesOk(M)
  BY <1>1, ModulesType
<1> HIDE DEF M
<1>6. Len(s.rel) > 1
  BY <1>2, <1>3, <1>5, PlanDepth
<1>7. s.rel \in Paths /\ s.target = MapTarget(L, s.rel)
  BY <1>2 DEF PlanOk, TreeOk, Tree, SourceSet
<1> QED
  BY <1>2, <1>4, <1>6, <1>7, TargetBelowRoot

(* A file or link that is to be seen is one of those. *)
LEMMA AcceptedShows ==
  ASSUME ViewInv, pc = "done", NEW s \in plan.tree, s.mode # "ignore",
         s.type \in {"file", "symlink"}, ~Astray(s)
  PROVE  Shows(s)
BY AcceptedBelow DEF Shows

(* Where a source may come to lie is one of its places. *)
LEMMA PlacesLand ==
  ASSUME NEW s, NEW q
  PROVE  LandsAt(LayoutOf(input), plan.tree, s, q) <=> q \in Places(s)
BY DEF LandsAt, Places, Astray

(* A path that no source covers is not hidden by any of a backend. *)
LEMMA UncoveredOpen ==
  ASSUME NEW T \in SUBSET plan.tree, NEW mode, mode \in {"overlay", "magic"} \/ (mode = "vfs" /\ rules # {}),
         NEW p, \A s \in Accepted(plan) \cap T : ~Covers(s, p)
  PROVE  ~Buries(T, mode, p)
<1> SUFFICES ASSUME NEW s \in Of(T, mode), IsPrefix(s.target, p),
                    s.type # "dir" \/ s.replace \/ s.target = p
             PROVE  FALSE
  BY DEF Buries
<1>1. s \in Accepted(plan) \cap T
  BY DEF Of, Accepted
<1>2. s.target \in Places(s)
  BY DEF Places
<1> QED
  BY <1>1, <1>2 DEF Covers

(* The overlays leave a path to a source, or to the device, if none of another covers it
   or leads past it. *)
LEMMA UncoveredYields ==
  ASSUME ViewInv, pc = "done", NEW p \in Paths, NEW n,
         \A t \in Of(plan.tree, "overlay") :
           \/ ~Covers(t, p) /\ ~Leads(t, p)
           \/ t.target = p /\ ~Astray(t) /\ SourceNode(t) = n
  PROVE  YieldsNow(p, n)
<1> DEFINE L == LayoutOf(input)
<1> SUFFICES ASSUME NEW t \in Of(plan.tree, "overlay"), NEW q \in Paths, LandsAt(L, plan.tree, t, q)
             PROVE  /\ ~IsStrictPrefix(p, q)
                    /\ q = p => SourceNode(t) = n
                    /\ IsStrictPrefix(q, p) => t.type = "dir" /\ ~t.replace
  BY DEF YieldsNow, Yields
<1>1. q \in Places(t)
  BY PlacesLand
<1>2. CASE ~Covers(t, p) /\ ~Leads(t, p)
  <2>1. ~IsStrictPrefix(p, q)
    BY <1>1, <1>2 DEF Leads
  <2>2. IsPrefix(q, p) => t.type = "dir" /\ ~t.replace /\ q # p
    BY <1>1, <1>2 DEF Covers
  <2>3. IsPrefix(p, p)
    BY PrefixSelf
  <2> QED
    BY <2>1, <2>2, <2>3 DEF IsStrictPrefix
<1>3. CASE t.target = p /\ ~Astray(t) /\ SourceNode(t) = n
  <2>1. q = p
    BY <1>1, <1>3 DEF Places
  <2> QED
    BY <1>3, <2>1 DEF IsStrictPrefix
<1> QED
  BY <1>2, <1>3

(* Rules leave what nobody with a rule covers. *)
LEMMA EndKeeps ==
  ASSUME ViewInv, StandsInv, pc = "done", NEW p, NEW n, Has(base, p, n),
         rules # {} => ~Buries(plan.tree, "vfs", p)
  PROVE  Has(view, p, n)
<1>1. IsDevice(input.device) /\ AreDirectories(input.dirs) /\ plan = PlanOf(input) /\ base \in Views
  BY DEF ViewInv, StandsInv
<1>2. TreeOk(LayoutOf(input), plan.tree)
  BY <1>1, PlanType DEF PlanOk
<1>3. \/ rules = {} /\ view = base
      \/ rules = VfsRules(plan.tree) /\ view = RuledView(rules, base)
  BY DEF StandsInv
<1>4. CASE rules = {}
  <2>1. view = base
    BY <1>1, <1>3, <1>4, RuledEmpty
  <2> QED
    BY <2>1
<1>5. CASE rules # {}
  <2>1. view = RuledView(VfsRules(plan.tree), base)
    BY <1>3, <1>5
  <2>2. Has(RuledView(VfsRules(plan.tree), base), p, n)
    BY <1>1, <1>2, <1>5, RulesKeep
  <2> QED
    BY <2>1, <2>2
<1> QED
  BY <1>4, <1>5

(* A file or link of the device, as its node. *)
LEMMA StockSolid ==
  ASSUME NEW d, IsDevice(d), NEW p \in DOMAIN Stock(d), Stock(d)[p].kind # "dir"
  PROVE  p \in Paths /\ Solid(Stock(d)[p]) /\ Stock(d)[p] \in Nodes
<1> DEFINE n == Stock(d)[p]
<1>1. p \in DOMAIN d.stock
  BY DEF Stock
<1>2. p \in Paths /\ d.stock[p] \in NodeKinds
  BY <1>1 DEF IsDevice
<1>3. n.kind = d.stock[p] /\ n.opaque = FALSE
  BY <1>1 DEF Stock
<1>4. n \in Nodes
  BY StockType, ViewElim
<1>5. d.stock[p] # "whiteout"
  BY <1>2 DEF NodeKinds
<1> HIDE DEF n
<1>6. Solid(n)
  <2>1. n.kind # "dir"
    BY DEF n
  <2> QED
    BY <1>3, <1>4, <1>5, <2>1 DEF Solid
<1> QED
  BY <1>2, <1>4, <1>6 DEF n

(* What the invariant says of the device. *)
LEMMA StandsMeansStock == ViewInv /\ StandsInv => StockKept
<1> SUFFICES ASSUME ViewInv, StandsInv, pc \in {"done", "failed"}, NEW p \in DOMAIN Stock(input.device),
                    Stock(input.device)[p].kind # "dir",
                    pc = "done" => ~ \E s \in Accepted(plan) :
                                       Covers(s, p) \/ (s.mode = "overlay" /\ Leads(s, p))
             PROVE  p \in DOMAIN view /\ view[p] = Stock(input.device)[p]
  BY DEF StockKept
<1>1. CASE pc = "failed"
  BY <1>1 DEF StandsInv
<1>2. CASE pc = "done"
  <2> DEFINE n == Stock(input.device)[p]
  <2>1. IsDevice(input.device)
    BY DEF ViewInv
  <2>2. p \in Paths /\ Solid(n) /\ n \in Nodes /\ Has(Stock(input.device), p, n)
    BY <2>1, StockSolid DEF Has
  <2>3. \A s \in Accepted(plan) : ~Covers(s, p) /\ (s.mode = "overlay" => ~Leads(s, p))
    BY <1>2
  <2> HIDE DEF n
  <2>4. YieldsNow(p, n)
    <3>1. ASSUME NEW t \in Of(plan.tree, "overlay") PROVE ~Covers(t, p) /\ ~Leads(t, p)
      BY <2>3 DEF Of, Accepted
    <3> QED
      BY <1>2, <2>2, <3>1, UncoveredYields
  <2>5. ~Buries(plan.tree, "magic", p)
    BY <2>3, UncoveredOpen
  <2>6. rules # {} => ~Buries(plan.tree, "vfs", p)
    BY <2>3, UncoveredOpen
  <2>7. Has(base, p, n)
    BY <1>2, <2>2, <2>4, <2>5 DEF StandsInv, Spared
  <2>8. Has(view, p, n)
    BY <1>2, <2>6, <2>7, EndKeeps
  <2> QED
    BY <2>8 DEF Has, n
<1> QED
  BY <1>1, <1>2

(* What the device had and no module covers is there after every boot, and all of it after
   one that failed: neither the overlays (mount_overlay_phase) with the mounts they hide and
   make again, nor Magic's tmpfs and mirrors (do_mount), nor a rule takes a file of the stock
   image away that no source names or lies above. *)
THEOREM ViewStockKept == HotSpec => []StockKept
<1> QED
  BY ViewIsHonest, ViewStands, StandsMeansStock, PTL

(* What the invariant says of the files of modules. *)
LEMMA StandsMeansNothingLost == ViewInv /\ StandsInv => NothingLost
<1> SUFFICES ASSUME ViewInv, StandsInv, pc = "done", NEW s \in Accepted(plan),
                    s.type \in {"file", "symlink"}, Unaliased(plan, s.mod), ~Astray(s),
                    ~ \E t \in Accepted(plan) \ {s} :
                        Covers(t, s.target) \/ (t.mode = s.mode /\ s.mode # "magic" /\ Leads(t, s.target))
             PROVE  /\ s.target \in DOMAIN view
                    /\ view[s.target].from = [mod |-> s.mod, rel |-> s.rel]
  BY DEF NothingLost
<1> DEFINE p == s.target
           n == SourceNode(s)
           T == plan.tree
<1>1. IsDevice(input.device) /\ AreDirectories(input.dirs) /\ plan = PlanOf(input)
  BY DEF ViewInv
<1>2. TreeOk(LayoutOf(input), T)
  BY <1>1, PlanType DEF PlanOk
<1>3. s \in T /\ (s.mode \in {"overlay", "magic"} \/ (s.mode = "vfs" /\ rules # {}))
  BY DEF Accepted
<1>4. Shows(s)
  BY <1>3, AcceptedShows
<1>5. Solid(n) /\ n \in Nodes /\ n.kind # "dir" /\ p \in Paths \ {<< >>}
  BY <1>2, <1>3, <1>4, ShowsSolid DEF Solid
<1>6. \A t \in Accepted(plan) \ {s} :
        ~Covers(t, p) /\ (t.mode = s.mode /\ s.mode # "magic" => ~Leads(t, p))
  OBVIOUS
<1>7. s.mode # "magic" => ~Buries(T, "magic", p)
  <2> SUFFICES ASSUME s.mode # "magic" PROVE ~Buries(T, "magic", p)
    OBVIOUS
  <2>1. Of(T \ {s}, "magic") = Of(T, "magic")
    BY DEF Of
  <2>2. ~Buries(T \ {s}, "magic", p)
    BY <1>6, UncoveredOpen
  <2> QED
    BY <2>1, <2>2 DEF Buries
<1>8. s.mode # "vfs" => (rules # {} => ~Buries(T, "vfs", p))
  <2> SUFFICES ASSUME s.mode # "vfs", rules # {} PROVE ~Buries(T, "vfs", p)
    OBVIOUS
  <2>1. Of(T \ {s}, "vfs") = Of(T, "vfs")
    BY DEF Of
  <2>2. ~Buries(T \ {s}, "vfs", p)
    BY <1>6, UncoveredOpen
  <2> QED
    BY <2>1, <2>2 DEF Buries
<1>9. n.from = [mod |-> s.mod, rel |-> s.rel]
  BY DEF SourceNode
<1>10. Has(view, p, n)
  <2>1. CASE s.mode = "overlay"
    <3>1. YieldsNow(p, n)
      <4>1. ASSUME NEW t \in Of(T, "overlay")
            PROVE  \/ ~Covers(t, p) /\ ~Leads(t, p)
                   \/ t.target = p /\ ~Astray(t) /\ SourceNode(t) = n
        <5>1. CASE t = s
          BY <5>1
        <5>2. CASE t # s
          BY <1>6, <2>1, <5>2 DEF Of, Accepted
        <5> QED
          BY <5>1, <5>2
      <4> HIDE DEF n, p
      <4> QED
        BY <1>5, <4>1, UncoveredYields
    <3>2. Owed(s) /\ s \in Of(T, "overlay")
      BY <1>3, <1>4, <2>1, <3>1 DEF Owed, Of, Astray
    <3>3. Has(base, p, n)
      BY <1>7, <2>1, <3>2 DEF StandsInv
    <3> HIDE DEF n, p
    <3> QED
      BY <1>8, <2>1, <3>3, EndKeeps
  <2>2. CASE s.mode = "magic"
    <3>1. ~Buries(T \ {s}, "magic", p) /\ s \in Of(T, "magic")
      BY <1>3, <1>6, <2>2, UncoveredOpen DEF Of
    <3>2. Has(base, p, n)
      BY <1>4, <3>1 DEF StandsInv
    <3> HIDE DEF n, p
    <3> QED
      BY <1>8, <2>2, <3>2, EndKeeps
  <2>3. CASE s.mode = "vfs"
    <3>1. rules # {} /\ s \in Of(T, "vfs")
      BY <1>3, <2>3 DEF Of
    <3>2. ~Buries(T \ {s}, "vfs", p)
      BY <1>6, <3>1, UncoveredOpen
    <3>3. ASSUME NEW t \in Of(T, "vfs"), t # s PROVE ~IsStrictPrefix(p, t.target)
      <4>1. t \in Accepted(plan) \ {s} /\ t.mode = "vfs"
        BY <3>1, <3>3 DEF Of, Accepted
      <4>2. ~Leads(t, p)
        BY <1>6, <2>3, <4>1
      <4> QED
        BY <4>2 DEF Leads, Places
    <3>4. view = RuledView(VfsRules(T), base)
      BY <3>1 DEF StandsInv
    <3>5. Has(RuledView(VfsRules(T), base), p, n)
      BY <1>2, <1>4, <3>1, <3>2, <3>3, RulesShow DEF Shows
    <3> QED
      BY <3>4, <3>5
  <2> QED
    BY <1>3, <2>1, <2>2, <2>3
<1> HIDE DEF n, p
<1>11. p \in DOMAIN view /\ view[p] = n
  BY <1>10 DEF Has
<1> QED
  BY <1>9, <1>11 DEF p

(* Every file or link of a module that took part is seen when the boot has ended, whatever
   backend shows it and whatever the later ones do, unless another source covers it or the
   same backend made a directory of it: the planner puts it in a layer, in a Magic node or
   in a rule (build_plan), no overlay, tmpfs or mirror hides it (mount_overlay_phase,
   do_mount), and no rule does (build_vfs_rules). *)
THEOREM ViewNothingLost == HotSpec => []NothingLost
<1> QED
  BY ViewIsHonest, ViewStands, StandsMeansNothingLost, PTL

-----------------------------------------------------------------------------
(* What an overlay takes away *)

(* What layers may have that put nothing at p: a whiteout there. *)
Bare(p) == {q \in Paths \X Nodes : q[1] = p => q[2].kind = "whiteout"}

(* Layers of which all but the last put nothing at p, and one of those removes what the
   last may have there. *)
Barring(at, p, stack) ==
  /\ \A k \in 1..(Len(stack) - 1) : stack[k] \in Fitting(at, Bare(at \o p))
  /\ p \in DOMAIN stack[Len(stack)] => \E k \in 1..(Len(stack) - 1) : p \in DOMAIN stack[k]

(* One overlay mount of such layers shows nothing at p. *)
LEMMA OnceRemoves ==
  ASSUME NEW at \in Paths, NEW p \in Paths \ {<< >>}, NEW stack \in Seq(Views), Barring(at, p, stack)
  PROVE  p \notin DOMAIN OverlayOnce(stack)
<1> SUFFICES ASSUME p \in DOMAIN OverlayOnce(stack) PROVE FALSE
  OBVIOUS
<1> DEFINE N == Len(stack)
           S == Shown(stack, p)
           m == Min(S)
<1>1. N \in Nat /\ DOMAIN stack = 1..N
  OBVIOUS
<1>2. S # {} /\ stack[m][p].kind # "whiteout"
  BY DEF OverlayOnce
<1>3. S \in SUBSET (1..N)
  BY <1>1 DEF Shown
<1>4. m \in S
  <2> HIDE DEF S, N
  <2>1. S \in SUBSET Nat
    BY <1>1, <1>3
  <2>2. \E k \in S : \A j \in S : k <= j
    BY <1>2, <2>1, Least
  <2> QED
    BY <2>2 DEF Min
<1>5. p \in DOMAIN stack[m] /\ \A above \in 1..(m - 1) : ~Hides(stack[above], p)
  BY <1>4 DEF Shown
<1> HIDE DEF m, S
<1>6. ASSUME NEW k \in 1..(N - 1), p \in DOMAIN stack[k] PROVE stack[k][p].kind = "whiteout"
  <2>1. stack[k] \in Fitting(at, Bare(at \o p))
    BY DEF Barring
  <2>2. <<at \o p, stack[k][p]>> \in Bare(at \o p)
    BY <1>6, <2>1 DEF Fitting
  <2> QED
    BY <2>2 DEF Bare
<1>7. m = N
  <2>1. m \in 1..N
    BY <1>3, <1>4
  <2>2. m \notin 1..(N - 1)
    BY <1>2, <1>5, <1>6
  <2> HIDE DEF N
  <2> QED
    BY <1>1, <2>1, <2>2
<1>8. PICK k \in 1..(N - 1) : p \in DOMAIN stack[k]
  BY <1>5, <1>7 DEF Barring
<1>9. p \in Steps(p)
  BY StepsType, PrefixSelf
<1>10. Hides(stack[k], p)
  BY <1>6, <1>8, <1>9 DEF Hides
<1> QED
  BY <1>5, <1>7, <1>8, <1>10

(* The first step that stacks surplus layers removes it too, or leaves it to the rest. *)
LEMMA StepRemoves ==
  ASSUME NEW at \in Paths, NEW p \in Paths \ {<< >>}, NEW stack \in Seq(Views), Barring(at, p, stack)
  PROVE  CollapseStep(stack) \in Seq(Views) /\ Barring(at, p, CollapseStep(stack))
<1> DEFINE N == Len(stack)
           split == N - (MaxLayers - 1)
           high == SubSeq(stack, 1, split)
           rest == SubSeq(stack, split + 1, N)
           low == OverlayOnce(rest)
<1>1. N \in Nat
  OBVIOUS
<1>2. CASE N <= MaxLayers
  BY <1>2 DEF CollapseStep
<1>3. CASE ~(N <= MaxLayers)
  <2>1. split \in 1..(N - 1) /\ MaxLayers \in Nat
    BY <1>1, <1>3, MaxLayersAssumption
  <2>2. CollapseStep(stack) = Append(high, low)
    BY <1>3 DEF CollapseStep
  <2> HIDE DEF split
  <2>3. /\ high \in Seq(Views) /\ Len(high) = split
        /\ \A k \in 1..split : high[k] = stack[k]
    BY <1>1, <2>1
  <2>4. /\ rest \in Seq(Views) /\ Len(rest) = N - split
        /\ \A k \in 1..(N - split) : rest[k] = stack[split + k]
    BY <1>1, <2>1
  <2>5. low \in Views
    <3>1. rest \in Seq(Fitting(at, Paths \X Nodes))
      <4> DEFINE X == Fitting(at, Paths \X Nodes)
      <4>1. \A v \in Views : v \in X
        BY ConcatType, ViewElim DEF Fitting
      <4>2. rest \in Seq(Views)
        BY <2>4
      <4> HIDE DEF rest, X
      <4>3. rest \in Seq(X)
        BY <4>1, <4>2
      <4> QED
        BY <4>3 DEF X
    <3>2. Lasting(Paths \X Nodes)
      BY NodeTypes DEF Lasting
    <3>3. low \in Fitting(at, Paths \X Nodes)
      BY <3>1, <3>2, OverlayOnceFits
    <3> QED
      BY <3>3 DEF Fitting
  <2> DEFINE next == Append(high, low)
  <2> HIDE DEF high, low
  <2>6. /\ next \in Seq(Views) /\ Len(next) = split + 1 /\ next[split + 1] = low
        /\ \A k \in 1..split : next[k] = high[k]
    BY <1>1, <2>1, <2>3, <2>5
  <2>7. ASSUME NEW k \in 1..(N - 1) PROVE stack[k] \in Fitting(at, Bare(at \o p))
    BY DEF Barring
  <2> HIDE DEF next, rest
  <2>8. \A k \in 1..(Len(next) - 1) : next[k] \in Fitting(at, Bare(at \o p))
    BY <1>1, <2>1, <2>3, <2>6, <2>7
  <2>9. ASSUME p \in DOMAIN low PROVE \E k \in 1..split : p \in DOMAIN next[k]
    <3>1. SUFFICES ASSUME \A k \in 1..split : p \notin DOMAIN next[k] PROVE FALSE
      OBVIOUS
    <3>2. \A k \in 1..(Len(rest) - 1) : rest[k] \in Fitting(at, Bare(at \o p))
      <4> TAKE k \in 1..(Len(rest) - 1)
      <4>1. k \in 1..(N - split) /\ split + k \in 1..(N - 1)
        BY <1>1, <2>1, <2>4
      <4> QED
        BY <2>4, <2>7, <4>1
    <3>3. rest[Len(rest)] = stack[N]
      <4>1. N - split \in 1..(N - split) /\ split + (N - split) = N
        BY <1>1, <2>1
      <4> QED
        BY <2>4, <4>1
    <3>4. ASSUME p \in DOMAIN stack[N] PROVE \E k \in 1..(Len(rest) - 1) : p \in DOMAIN rest[k]
      <4>1. PICK j \in 1..(N - 1) : p \in DOMAIN stack[j]
        BY <3>4 DEF Barring
      <4>2. ~(j <= split)
        <5>1. SUFFICES ASSUME j <= split PROVE FALSE
          OBVIOUS
        <5>2. j \in 1..split
          BY <1>1, <2>1, <4>1, <5>1
        <5> QED
          BY <2>3, <2>6, <3>1, <4>1, <5>2
      <4>3. j - split \in 1..(N - split) /\ j - split \in 1..(Len(rest) - 1) /\ split + (j - split) = j
        BY <1>1, <2>1, <2>4, <4>1, <4>2
      <4> QED
        BY <2>4, <4>1, <4>3
    <3>5. Barring(at, p, rest)
      BY <3>2, <3>3, <3>4 DEF Barring
    <3> QED
      BY <2>4, <2>9, <3>5, OnceRemoves DEF low
  <2>10. Barring(at, p, next)
    <3>1. Len(next) - 1 = split /\ next[Len(next)] = low
      BY <2>1, <2>6
    <3> QED
      BY <2>8, <2>9, <3>1 DEF Barring
  <2> QED
    BY <2>2, <2>6, <2>10 DEF next
<1> QED
  BY <1>2, <1>3

(* Surplus layers are stacked without losing the removal. *)
LEMMA CollapsedRemoves ==
  ASSUME NEW at \in Paths, NEW p \in Paths \ {<< >>}, NEW stack \in Seq(Views), Barring(at, p, stack)
  PROVE  Collapsed(stack) \in Seq(Views) /\ Barring(at, p, Collapsed(stack))
<1> DEFINE N == Len(stack)
           f == CHOOSE g : g = [k \in 0..N |-> IF k = 0 THEN stack ELSE CollapseStep(g[k - 1])]
           Good(s) == s \in Seq(Views) /\ Barring(at, p, s)
<1>1. N \in Nat
  OBVIOUS
<1>2. Collapsed(stack) = f[N]
  BY DEF Collapsed
<1>3. f = [k \in 0..N |-> IF k = 0 THEN stack ELSE CollapseStep(f[k - 1])]
  BY <1>1, CollapsedDef
<1>4. ASSUME NEW s, Good(s) PROVE Good(CollapseStep(s))
  BY <1>4, StepRemoves
<1>5. Good(stack)
  OBVIOUS
<1> HIDE DEF f, N, Good
<1> DEFINE T == {k \in 0..N : ~Good(f[k])}
<1>6. T = {}
  <2>1. SUFFICES ASSUME T # {} PROVE FALSE
    OBVIOUS
  <2>2. PICK k \in T : \A m \in T : k <= m
    <3>1. T \in SUBSET Nat
      OBVIOUS
    <3> HIDE DEF T
    <3> QED BY <2>1, <3>1, Least
  <2>3. k # 0
    BY <1>3, <1>5, <2>2
  <2>4. k - 1 \in 0..N /\ Good(f[k - 1])
    BY <1>1, <2>2, <2>3
  <2>5. f[k] = CollapseStep(f[k - 1])
    BY <1>3, <2>2, <2>3
  <2> QED
    BY <1>4, <2>2, <2>4, <2>5
<1>7. Good(f[N])
  BY <1>1, <1>6
<1> QED
  BY <1>2, <1>7 DEF Good

(* One overlay mount removes what a layer removes, and brings nothing. *)
LEMMA OverlayRemoves ==
  ASSUME NEW at \in Paths, NEW p \in Paths \ {<< >>},
         NEW layers \in Seq(Fitting(at, Bare(at \o p))), NEW lowest \in Views,
         p \in DOMAIN lowest => \E k \in 1..Len(layers) : p \in DOMAIN layers[k]
  PROVE  p \notin DOMAIN Overlay(layers, lowest)
<1> DEFINE X == Fitting(at, Bare(at \o p))
           stack == Append(layers, lowest)
<1>1. X \subseteq Views
  BY DEF Fitting
<1> HIDE DEF X
<1>2. layers \in Seq(X) /\ layers \in Seq(Views) /\ Len(layers) \in Nat
  BY <1>1 DEF X
<1>3. /\ stack \in Seq(Views) /\ Len(stack) = Len(layers) + 1 /\ stack[Len(layers) + 1] = lowest
      /\ \A k \in 1..Len(layers) : stack[k] = layers[k] /\ layers[k] \in X
  BY <1>2
<1> HIDE DEF stack
<1>4. Len(stack) - 1 = Len(layers) /\ stack[Len(stack)] = lowest
  BY <1>2, <1>3
<1>5. Barring(at, p, stack)
  BY <1>3, <1>4 DEF Barring, X
<1>6. Collapsed(stack) \in Seq(Views) /\ Barring(at, p, Collapsed(stack))
  BY <1>3, <1>5, CollapsedRemoves
<1> QED
  BY <1>6, OnceRemoves DEF Overlay, stack

(* A mount of layers that put nothing at p leaves nothing there, if nothing was there or a
   layer removes it; nor do the mounts below it that are put back (prepare_overlay_view). *)
LEMMA OverlaidRemoves ==
  ASSUME NEW at \in Paths, NEW p \in Paths \ {<< >>},
         NEW layers \in Seq(Fitting(at, Bare(p))),
         NEW points \in SUBSET Paths, NEW seen \in Views,
         \/ p \notin DOMAIN seen
         \/ IsStrictPrefix(at, p) /\ \E k \in 1..Len(layers) : Tail0(p, at) \in DOMAIN layers[k]
  PROVE  p \notin DOMAIN Overlaid(layers, at, points, seen)
<1> DEFINE merged == [c \in {at} \cup Within(at, points) |->
                        Overlay(Reaching(layers, Tail0(c, at)), Part(seen, c))]
           below(c) == {c \o q : q \in DOMAIN merged[c]}
           holder(q) == Holder(at, points, q)
           shown == UNION {{q \in below(c) : holder(q) = c} : c \in DOMAIN merged}
           kept == {q \in DOMAIN seen : ~IsStrictPrefix(at, q)}
<1>1. DOMAIN Overlaid(layers, at, points, seen) = kept \cup shown
  BY DEF Overlaid
<1>2. p \notin kept
  OBVIOUS
<1>3. ASSUME p \in shown PROVE FALSE
  <2>1. PICK c \in DOMAIN merged : p \in below(c)
    BY <1>3
  <2>2. PICK r \in DOMAIN merged[c] : p = c \o r
    BY <2>1
  <2> DEFINE step == Tail0(c, at)
             some == Reaching(layers, step)
             low == Part(seen, c)
             one == Overlay(some, low)
  <2>3. merged[c] = one
    BY <2>1
  <2>4. c \in Paths /\ IsPrefix(at, c)
    BY <2>1, PrefixSelf DEF Within, IsStrictPrefix
  <2> HIDE DEF merged, shown, kept
  <2>5. step \in Paths /\ c = at \o step
    BY <2>4, PrefixSplit
  <2> HIDE DEF step
  <2>6. seen \in Fitting(<< >>, Paths \X Nodes)
    BY EmptyConcat, ViewElim DEF Fitting
  <2>7. low \in Fitting(c, Paths \X Nodes)
    <3>1. low \in Fitting(<< >> \o c, Paths \X Nodes)
      BY <2>4, <2>6, PartFits, PrefixSelf
    <3> QED
      BY <2>4, <3>1, EmptyConcat
  <2>8. some \in Seq(Fitting(c, Bare(p)))
    BY <2>5, ReachingFits
  <2>9. some \in Seq(Fitting(c, Paths \X Nodes))
    <3> DEFINE X == Fitting(c, Bare(p))
               Y == Fitting(c, Paths \X Nodes)
    <3>1. X \subseteq Y
      BY DEF Fitting, Bare
    <3>2. some \in Seq(X)
      BY <2>8
    <3> HIDE DEF some, X, Y
    <3>3. some \in Seq(Y)
      BY <3>1, <3>2
    <3> QED
      BY <3>3 DEF Y
  <2> HIDE DEF some, low
  <2>10. one \in Views /\ low \in Views
    <3>1. Lasting(Paths \X Nodes)
      BY NodeTypes DEF Lasting
    <3>2. one \in Fitting(c, Paths \X Nodes)
      BY <2>4, <2>7, <2>9, <3>1, OverlayFits
    <3> QED
      BY <2>7, <3>2 DEF Fitting
  <2>11. r \in Paths \ {<< >>} /\ r \in DOMAIN one
    BY <2>2, <2>3, <2>10, ViewElim
  <2> HIDE DEF one
  <2>12. IsStrictPrefix(at, p) /\ Tail0(p, at) = step \o r
    <3>1. (at \o step) \o r = at \o (step \o r) /\ step \o r \in Paths
      <4>1. SameCut(at, step, r)
        BY <2>5, <2>11, ConcatThree
      <4>2. step \o r \in Paths
        BY <2>5, <2>11, ConcatType
      <4> QED
        BY <4>1, <4>2 DEF SameCut
    <3>2. p = at \o (step \o r)
      BY <2>2, <2>5, <3>1
    <3>3. step \o r # << >>
      <4>1. Len(step \o r) = Len(step) + Len(r) /\ Len(step) \in Nat /\ Len(r) \in Nat
        BY <2>5, <2>11, ConcatType, LenType
      <4>2. Len(r) > 0
        BY <2>11 DEF Paths
      <4> HIDE DEF step
      <4> QED
        BY <4>1, <4>2
    <3> DEFINE t == step \o r
    <3>4. t \in Paths /\ t # << >> /\ p = at \o t
      BY <3>1, <3>2, <3>3
    <3> HIDE DEF t
    <3>5. IsPrefix(at, p) /\ Tail0(p, at) = t /\ p # at
      BY <3>4, PrefixConcat
    <3> QED
      BY <3>5 DEF IsStrictPrefix, t
  <2>13. ASSUME r \in DOMAIN low PROVE \E k \in 1..Len(some) : r \in DOMAIN some[k]
    <3>1. p \in DOMAIN seen
      <4>1. PICK q \in DOMAIN seen : IsStrictPrefix(c, q) /\ r = Tail0(q, c)
        BY <2>13 DEF low, Part
      <4>2. q \in Paths /\ IsPrefix(c, q)
        BY <4>1, ViewElim DEF IsStrictPrefix
      <4>3. q = c \o r
        BY <2>4, <4>1, <4>2, PrefixSplit
      <4> QED
        BY <2>2, <4>1, <4>3
    <3>2. PICK k \in 1..Len(layers) : step \o r \in DOMAIN layers[k]
      BY <2>12, <3>1
    <3>3. layers \in Seq(Views)
      <4> DEFINE X == Fitting(at, Bare(p))
      <4>1. X \subseteq Views /\ layers \in Seq(X)
        BY DEF Fitting
      <4> HIDE DEF X
      <4> QED
        BY <4>1
    <3> QED
      BY <2>5, <2>11, <3>2, <3>3, ReachingHas DEF some
  <2>14. some \in Seq(Fitting(c, Bare(c \o r)))
    BY <2>2, <2>8
  <2>15. r \notin DOMAIN Overlay(some, low)
    BY <2>4, <2>10, <2>11, <2>13, <2>14, OverlayRemoves
  <2> QED
    BY <2>11, <2>15 DEF one
<1> QED
  BY <1>1, <1>2, <1>3

(* No overlay source comes to lie below p, and those that come to lie at p remove it. *)
Bars(L, T, p) ==
  \A t \in Of(T, "overlay"), q \in Paths :
    LandsAt(L, T, t, q) => ~IsStrictPrefix(p, q) /\ (q = p => t.type = "whiteout")

(* Such sources make layers that put nothing at p. *)
LEMMA LayerBars ==
  ASSUME NEW L, NEW T, TreeOk(L, T), NEW mod, NEW rel \in Paths, NEW dest \in Paths, NEW at \in Paths,
         Placed(L, T, at, dest, mod, rel), NEW p, Bars(L, T, p)
  PROVE  Layer(T, mod, rel, dest) \in Fitting(at, Bare(p))
<1> DEFINE own == {s \in Of(T, "overlay") : s.mod = mod /\ IsPrefix(rel, s.rel)}
           put(s) == dest \o Tail0(s.rel, rel)
           paths == (UNION {Steps(put(s)) : s \in own}) \cup Steps(dest)
           v == Layer(T, mod, rel, dest)
<1>1. v = [q \in paths |-> IF \E s \in own : put(s) = q
                           THEN SourceNode(CHOOSE s \in own : put(s) = q) ELSE Dir]
  BY DEF Layer
<1>2. ASSUME NEW s \in own
      PROVE  /\ s \in T /\ s \in Of(T, "overlay") /\ put(s) \in Paths /\ LandsAt(L, T, s, at \o put(s))
             /\ IsPrefix(dest, put(s)) /\ at \o put(s) \in Paths
  <2>1. s \in T /\ s.rel \in Paths /\ IsPrefix(rel, s.rel)
    BY DEF Of, TreeOk, Tree, SourceSet
  <2>2. Tail0(s.rel, rel) \in Paths
    BY <2>1, PrefixSplit
  <2>3. put(s) \in Paths /\ IsPrefix(dest, put(s))
    BY <2>2, PrefixConcat
  <2>4. LandsAt(L, T, s, at \o put(s))
    BY DEF Placed
  <2>5. at \o put(s) \in Paths
    BY <2>3, ConcatType
  <2> QED
    BY <2>1, <2>3, <2>4, <2>5
<1>3. own # {}
  BY DEF Placed
<1> HIDE DEF own, put
<1>4. ASSUME NEW q \in paths PROVE q \in Paths \ {<< >>} /\ \E s \in own : IsPrefix(q, put(s))
  <2>1. CASE q \in Steps(dest)
    <3>1. q \in Paths \ {<< >>} /\ IsPrefix(q, dest)
      BY <2>1, StepsType
    <3>2. PICK s \in own : TRUE
      BY <1>3
    <3> QED
      BY <1>2, <3>1, <3>2, PrefixTrans
  <2>2. CASE q \notin Steps(dest)
    <3>1. PICK s \in own : q \in Steps(put(s))
      BY <2>2
    <3> QED
      BY <1>2, <3>1, StepsType
  <2> QED
    BY <2>1, <2>2
<1>5. ASSUME NEW q \in paths PROVE v[q] \in Nodes /\ <<at \o q, v[q]>> \in Bare(p)
  <2>0. at \o q \in Paths /\ q \in Paths
    BY <1>4, ConcatType
  <2>1. CASE \E s \in own : put(s) = q
    <3> DEFINE s == CHOOSE t \in own : put(t) = q
    <3>1. s \in own /\ put(s) = q
      BY <2>1
    <3>2. v[q] = SourceNode(s)
      BY <1>1, <2>1
    <3> HIDE DEF s
    <3>3. s \in T /\ s \in Of(T, "overlay") /\ LandsAt(L, T, s, at \o q)
      BY <1>2, <3>1
    <3>4. SourceNode(s) \in Nodes
      BY <3>3, SourceNodeType DEF TreeOk
    <3>5. at \o q = p => s.type = "whiteout"
      BY <2>0, <3>3 DEF Bars
    <3>6. SourceNode(s).kind = s.type
      BY DEF SourceNode
    <3> QED
      BY <2>0, <3>2, <3>4, <3>5, <3>6 DEF Bare
  <2>2. CASE ~\E s \in own : put(s) = q
    <3>1. v[q] = Dir
      BY <1>1, <2>2
    <3>2. PICK s \in own : IsPrefix(q, put(s))
      BY <1>4
    <3>3. IsStrictPrefix(q, put(s))
      BY <2>2, <3>2 DEF IsStrictPrefix
    <3>4. IsStrictPrefix(at \o q, at \o put(s))
      BY <1>2, <2>0, <3>3, ConcatStrict
    <3>5. at \o q # p
      BY <1>2, <3>2, <3>4 DEF Bars
    <3> QED
      BY <2>0, <3>1, <3>5, NodeTypes DEF Bare
  <2> QED
    BY <2>1, <2>2
<1>6. DOMAIN v = paths /\ v = [q \in DOMAIN v |-> v[q]]
  BY <1>1
<1> HIDE DEF v, paths
<1>7. v \in Views
  BY <1>4, <1>5, <1>6, ViewIntro
<1>8. v \in Fitting(at, Bare(p))
  BY <1>5, <1>6, <1>7 DEF Fitting
<1> QED
  BY <1>8 DEF v

(* The layers of an overlay with a target of its own put nothing at p. *)
LEMMA DirectBars ==
  ASSUME NEW L, NEW pl, PlanOk(L, pl), NEW at \in Paths, NEW p, Bars(L, pl.tree, p)
  PROVE  DirectLayers(pl, at) \in Seq(Fitting(at, Bare(p)))
<1>1. IsFiniteSet(pl.layers) /\ TreeOk(L, pl.tree)
  BY DEF PlanOk
<1>2. \A l \in pl.layers : l.mod \in Nat
  BY DEF PlanOk
<1>3. \A l, k \in pl.layers : l.target = k.target /\ l.mod = k.mod => l = k
  BY DEF PlanOk
<1>4. ASSUME NEW l \in pl.layers, l.target = at
      PROVE  Layer(pl.tree, l.mod, l.rel, << >>) \in Fitting(at, Bare(p))
  <2>1. l.rel \in Paths /\ Placed(L, pl.tree, at, << >>, l.mod, l.rel)
    BY <1>4 DEF PlanOk
  <2>2. << >> \in Paths
    BY DEF Paths
  <2> QED
    BY <1>1, <2>1, <2>2, LayerBars
<1> QED
  BY <1>1, <1>2, <1>3, <1>4, DirectLayersType

(* The layers of a shallow mount put nothing there either. *)
LEMMA ShallowBars ==
  ASSUME NEW L, NEW pl, PlanOk(L, pl), NEW E, ShallowOk(L, pl.tree, E), NEW at \in Paths,
         \A e \in E : e.at = at, NEW p, Bars(L, pl.tree, p)
  PROVE  ShallowLayers(pl, E) \in Seq(Fitting(at, Bare(p)))
<1>1. EntrySet(E)
  BY ShallowEntrySet
<1>2. ASSUME NEW e \in E
      PROVE  Layer(pl.tree, e.mod, e.rel, e.dest) \in Fitting(at, Bare(p))
  <2>1. /\ e.rel \in Paths /\ e.dest \in Paths /\ Placed(L, pl.tree, at, e.dest, e.mod, e.rel)
    BY DEF ShallowOk
  <2>2. TreeOk(L, pl.tree)
    BY DEF PlanOk
  <2> QED
    BY <2>1, <2>2, LayerBars
<1> QED
  BY <1>1, <1>2, ShallowLayersType

-----------------------------------------------------------------------------
(* What Magic mounts and rules take away *)

(* Magic mounts bring nothing to a path that none of their sources is at or below. *)
LEMMA MagicAdds ==
  ASSUME NEW L, NEW T, TreeOk(L, T), NEW seen, NEW p, p \notin DOMAIN seen, ~HasBackend(T, "magic", p)
  PROVE  p \notin DOMAIN MagicView(T, seen)
<1>1. p \notin MagicNodes(T)
  BY NodeBackend
<1> QED
  BY <1>1 DEF MagicView

(* The walk comes by a path, or turns back at a node above it that is no directory. *)
LEMMA WalkTurns ==
  ASSUME NEW L, NEW T, TreeOk(L, T), NEW s \in Of(T, "magic"), s.target # << >>,
         FileTypeFor(T, "magic", << >>) = "dir"
  PROVE  \/ MagicDir(T, Front(s.target))
         \/ \E q \in Steps(s.target) : q \in MagicNodes(T) /\ ~MagicDir(T, q)
<1> DEFINE p == s.target
           up == Front(p)
           type(k) == FileTypeFor(T, "magic", SubSeq(up, 1, k))
           S == {k \in 0..Len(up) : type(k) # "dir"}
<1>1. p \in Paths \ {<< >>}
  BY DEF Of, TreeOk, Tree
<1>2. up \in Paths /\ IsPrefix(up, p) /\ Len(up) = Len(p) - 1 /\ Len(up) \in Nat
  BY <1>1, ParentType, LenType
<1>3. SUFFICES ASSUME ~MagicDir(T, up)
               PROVE  \E q \in Steps(p) : q \in MagicNodes(T) /\ ~MagicDir(T, q)
  OBVIOUS
<1> HIDE DEF p, up
<1>4. S # {}
  BY <1>3 DEF MagicDir
<1>5. PICK n \in S : \A m \in S : n <= m
  <2>1. S \in SUBSET Nat
    BY <1>2
  <2> HIDE DEF S
  <2> QED
    BY <1>4, <2>1, Least
<1>6. n \in 0..Len(up) /\ n \in Nat /\ type(n) # "dir"
  BY <1>2, <1>5
<1>7. n # 0
  <2>1. SubSeq(up, 1, 0) = << >>
    BY <1>2, StartsType DEF Paths
  <2> QED
    BY <1>6, <2>1
<1> DEFINE q == SubSeq(up, 1, n)
<1>8. q \in Paths /\ IsPrefix(q, up) /\ Len(q) = n
  BY <1>2, <1>6, StartsType
<1>9. ASSUME NEW k \in 0..n PROVE SubSeq(q, 1, k) = SubSeq(up, 1, k)
  <2>1. k \in 0..Len(up) /\ k \in 0..Len(q)
    BY <1>2, <1>6, <1>8
  <2> DEFINE a == SubSeq(q, 1, k)
             b == SubSeq(up, 1, k)
  <2>2. a \in Paths /\ IsPrefix(a, q) /\ Len(a) = k /\ b \in Paths /\ IsPrefix(b, up) /\ Len(b) = k
    <3> HIDE DEF q
    <3> QED BY <1>2, <1>8, <2>1, StartsType
  <2> HIDE DEF a, b, q
  <2>3. IsPrefix(a, up)
    BY <1>2, <1>8, <2>2, PrefixTrans
  <2>4. IsPrefix(a, b) \/ IsPrefix(b, a)
    BY <1>2, <2>2, <2>3, PrefixCompare
  <2>5. a = b
    BY <2>2, <2>4, PrefixEqual
  <2> QED
    BY <2>5 DEF a, b
<1> HIDE DEF q
<1>10. ~MagicDir(T, q)
  <2>1. n \in 0..n
    BY <1>6
  <2>2. SubSeq(q, 1, n) = SubSeq(up, 1, n)
    BY <1>9, <2>1
  <2>3. FileTypeFor(T, "magic", SubSeq(q, 1, n)) # "dir"
    BY <1>6, <2>2
  <2> QED
    BY <1>8, <2>1, <2>3 DEF MagicDir
<1>11. q # << >>
  BY <1>7, <1>8
<1>12. MagicDir(T, Front(q))
  <2> DEFINE f == Front(q)
  <2>1. f \in Paths /\ IsPrefix(f, q) /\ Len(f) = n - 1
    BY <1>8, <1>11, ParentType
  <2> SUFFICES ASSUME NEW k \in 0..Len(f) PROVE FileTypeFor(T, "magic", SubSeq(f, 1, k)) = "dir"
    BY DEF MagicDir
  <2> HIDE DEF f
  <2>2. k \in 0..Len(q) /\ k \in 0..n /\ k \in 0..Len(up) /\ k < n
    BY <1>2, <1>6, <1>8, <2>1
  <2> DEFINE a == SubSeq(f, 1, k)
             b == SubSeq(q, 1, k)
  <2>3. a \in Paths /\ IsPrefix(a, f) /\ Len(a) = k /\ b \in Paths /\ IsPrefix(b, q) /\ Len(b) = k
    BY <1>8, <2>1, <2>2, StartsType
  <2> HIDE DEF a, b
  <2>4. IsPrefix(a, q)
    BY <1>8, <2>1, <2>3, PrefixTrans
  <2>5. IsPrefix(a, b) \/ IsPrefix(b, a)
    BY <1>8, <2>3, <2>4, PrefixCompare
  <2>6. a = b
    BY <2>3, <2>5, PrefixEqual
  <2>7. type(k) = "dir"
    BY <1>5, <1>6, <2>2
  <2> QED
    BY <1>9, <2>2, <2>6, <2>7 DEF a, b
<1>13. q \in Steps(p)
  <2>1. IsPrefix(q, p)
    BY <1>1, <1>2, <1>8, PrefixTrans DEF p
  <2>2. p \in Paths
    BY <1>1 DEF p
  <2> QED
    BY <1>8, <1>11, <2>1, <2>2, StepsType
<1>14. q \in MagicNodes(T)
  BY <1>12, <1>13 DEF MagicNodes, p
<1> QED
  BY <1>10, <1>13, <1>14

(* A path that a source of Magic mounts removes, and that all of them at it or below
   remove, is not there after them: its directory is built anew without it, or is not
   mirrored at all (needs_tmpfs, mirror). *)
LEMMA MagicRemoves ==
  ASSUME NEW L, NEW T, TreeOk(L, T), NEW seen \in Views,
         NEW s \in Of(T, "magic"), s.target # << >>,
         \A t \in Of(T, "magic") : t.target = s.target => t.type = "whiteout",
         \A t \in Of(T, "magic") : t.type # "dir" => t.target # << >>
  PROVE  s.target \notin DOMAIN MagicView(T, seen)
<1> DEFINE p == s.target
           up == Front(p)
<1>1. p \in Paths \ {<< >>}
  BY DEF Of, TreeOk, Tree
<1>2. up \in Paths /\ IsPrefix(up, p) /\ Len(up) = Len(p) - 1
  BY <1>1, ParentType
<1>3. FileTypeFor(T, "magic", << >>) = "dir"
  <2>1. HasBackend(T, "magic", << >>)
    BY <1>1, PrefixSelf DEF HasBackend
  <2>2. \A t \in Of(T, "magic") : t.target = << >> => t.type = "dir"
    OBVIOUS
  <2>3. << >> \in Paths
    BY DEF Paths
  <2> DEFINE root == << >>
  <2>4. root \in Paths /\ HasBackend(T, "magic", root) /\ \A t \in Of(T, "magic") : t.target = root => t.type = "dir"
    BY <2>1, <2>2, <2>3
  <2> HIDE DEF root
  <2>5. FileTypeFor(T, "magic", root) = "dir"
    BY <2>4, UnburiedDir
  <2> QED
    BY <2>5 DEF root
<1>4. CASE MagicDir(T, up)
  <2>1. p \in Steps(s.target) /\ \A q \in Paths : IsPrefix(q, p) /\ q # << >> => q \in Steps(s.target)
    BY <1>1, StepsType, PrefixSelf
  <2>2. p \in MagicNodes(T)
    BY <1>4, <2>1 DEF MagicNodes
  <2>3. FileTypeFor(T, "magic", p) = "whiteout"
    BY <1>1, SourceForType
  <2>4. up \in MagicDirs(T)
    <3>1. CASE up = << >>
      BY <3>1 DEF MagicDirs
    <3>2. CASE up # << >>
      <4>1. Front(up) \in Paths /\ IsPrefix(Front(up), up) /\ Len(Front(up)) = Len(up) - 1
        BY <1>2, <3>2, ParentType
      <4>2. MagicDir(T, Front(up))
        <5> DEFINE f == Front(up)
        <5> SUFFICES ASSUME NEW k \in 0..Len(f) PROVE FileTypeFor(T, "magic", SubSeq(f, 1, k)) = "dir"
          BY DEF MagicDir
        <5>1. f \in Paths /\ IsPrefix(f, up) /\ Len(f) = Len(up) - 1 /\ Len(up) \in Nat
          BY <1>2, <4>1, LenType
        <5> HIDE DEF f, up
        <5>2. k \in 0..Len(up)
          BY <5>1
        <5> DEFINE a == SubSeq(f, 1, k)
                   b == SubSeq(up, 1, k)
        <5>3. a \in Paths /\ IsPrefix(a, f) /\ Len(a) = k /\ b \in Paths /\ IsPrefix(b, up) /\ Len(b) = k
          BY <1>2, <5>1, <5>2, StartsType
        <5> HIDE DEF a, b
        <5>4. IsPrefix(a, up)
          BY <1>2, <5>1, <5>3, PrefixTrans
        <5>5. IsPrefix(a, b) \/ IsPrefix(b, a)
          BY <1>2, <5>3, <5>4, PrefixCompare
        <5>6. a = b
          BY <5>3, <5>5, PrefixEqual
        <5>7. FileTypeFor(T, "magic", b) = "dir"
          BY <1>4, <5>2 DEF MagicDir, b
        <5> QED
          BY <5>6, <5>7 DEF a
      <4>3. up \in MagicNodes(T)
        BY <1>2, <2>1, <3>2, <4>2 DEF MagicNodes
      <4> QED
        BY <1>4, <4>3 DEF MagicDirs
    <3> QED
      BY <3>1, <3>2
  <2>5. p \in DOMAIN seen => InTmpfs(T, seen, up)
    <3> SUFFICES ASSUME p \in DOMAIN seen PROVE InTmpfs(T, seen, up)
      OBVIOUS
    <3>1. NeedsTmpfs(T, seen, p)
      BY <2>3 DEF NeedsTmpfs
    <3>2. Rebuilt(T, seen, up)
      BY <2>2, <3>1 DEF Rebuilt, MagicChildren
    <3> QED
      BY <1>2, <2>4, <3>2, PrefixSelf DEF InTmpfs
  <2> HIDE DEF p
  <2> QED
    BY <2>2, <2>3, <2>5 DEF MagicView, up, p
<1>5. CASE ~MagicDir(T, up)
  <2>1. PICK q \in Steps(p) : q \in MagicNodes(T) /\ ~MagicDir(T, q)
    BY <1>3, <1>5, WalkTurns
  <2>2. ~Mirrored(T, p)
    BY <2>1 DEF Mirrored
  <2>3. p \notin MagicNodes(T)
    BY <1>5 DEF MagicNodes
  <2> HIDE DEF p
  <2> QED
    BY <2>2, <2>3 DEF MagicView, p
<1> QED
  BY <1>4, <1>5

(* Each rule is at or above a source of its backend. *)
LEMMA RuleLeads ==
  ASSUME NEW T, NEW r \in VfsRules(T)
  PROVE  \E s \in Of(T, "vfs") : r.at \in Steps(s.target)
<1> DEFINE nodes == UNION {Steps(s.target) : s \in Of(T, "vfs")}
           plain(q) == {s \in Of(At(T, q), "vfs") : s.type # "dir"}
<1>1. \/ \E q \in {d \in nodes : VfsDir(T, d) /\ VfsOwned(T, d)} :
           r = [action |-> "opaque", at |-> q, mod |-> VfsOwner(T, q), node |-> Dir]
      \/ \E q \in {f \in nodes : ~VfsDir(T, f) /\ plain(f) # {}} :
           r = [action |-> IF Lowest(plain(q)).type = "whiteout" THEN "whiteout" ELSE "inject",
                at |-> q, mod |-> Lowest(plain(q)).mod, node |-> SourceNode(Lowest(plain(q)))]
  BY DEF VfsRules
<1>2. r.at \in nodes
  <2> HIDE DEF nodes, plain
  <2> QED BY <1>1
<1> QED
  BY <1>2

(* Rules bring nothing to a path that none of their sources is at or below. *)
LEMMA RulesAdd ==
  ASSUME NEW L, NEW T, TreeOk(L, T), NEW seen, NEW p, p \notin DOMAIN seen, ~HasBackend(T, "vfs", p)
  PROVE  p \notin DOMAIN RuledView(VfsRules(T), seen)
<1> DEFINE R == VfsRules(T)
<1>1. ASSUME NEW r \in R, NEW q \in Paths, IsPrefix(q, r.at) PROVE HasBackend(T, "vfs", q)
  <2>1. PICK s \in Of(T, "vfs") : r.at \in Steps(s.target)
    BY RuleLeads
  <2>2. s.target \in Paths
    BY DEF Of, TreeOk, Tree
  <2>3. r.at \in Paths /\ IsPrefix(r.at, s.target)
    BY <2>1, <2>2, StepsType
  <2>4. IsPrefix(q, s.target)
    BY <1>1, <2>2, <2>3, PrefixTrans
  <2> QED
    BY <2>4 DEF HasBackend
<1>2. \A r \in R : r.at \in Paths \ {<< >>}
  BY VfsRulesType
<1> HIDE DEF R
<1>3. \A r \in R : r.at # p
  BY <1>1, <1>2, PrefixSelf
<1>4. \A r \in R : p \notin Steps(Front(r.at))
  <2> SUFFICES ASSUME NEW r \in R, p \in Steps(Front(r.at)) PROVE FALSE
    OBVIOUS
  <2>1. Front(r.at) \in Paths /\ IsPrefix(Front(r.at), r.at)
    BY <1>2, ParentType
  <2>2. p \in Paths /\ IsPrefix(p, Front(r.at))
    BY <2>1, StepsType
  <2>3. IsPrefix(p, r.at)
    BY <1>2, <2>1, <2>2, PrefixTrans
  <2> QED
    BY <1>1, <2>2, <2>3
<1>5. p \notin DOMAIN RuledView(R, seen)
  BY <1>3, <1>4 DEF RuledView
<1> QED
  BY <1>5 DEF R

(* A path that the provider was told to remove, with nothing of it below, is not there. *)
LEMMA RulesRemove ==
  ASSUME NEW L, NEW T, TreeOk(L, T), NEW seen,
         NEW s \in Of(T, "vfs"), s.target # << >>,
         \A t \in Of(T, "vfs") : IsPrefix(s.target, t.target) => t.target = s.target /\ t.type = "whiteout"
  PROVE  s.target \notin DOMAIN RuledView(VfsRules(T), seen)
<1> DEFINE p == s.target
           plain(q) == {t \in Of(At(T, q), "vfs") : t.type # "dir"}
           nodes == UNION {Steps(t.target) : t \in Of(T, "vfs")}
           low == Lowest(plain(p))
           rule == [action |-> "whiteout", at |-> p, mod |-> low.mod, node |-> SourceNode(low)]
           R == VfsRules(T)
<1>1. p \in Paths \ {<< >>} /\ s \in T
  BY DEF Of, TreeOk, Tree
<1>2. p \in nodes
  BY <1>1, StepsType, PrefixSelf
<1>3. ~VfsDir(T, p)
  <2>1. \A t \in SourceFor(T, "vfs", p) : t.type # "dir"
    BY <1>1, SourceForType, PrefixSelf
  <2>2. Of(Below(T, p), "vfs") = {}
    BY DEF Of, Below, IsStrictPrefix
  <2> QED
    BY <2>1, <2>2 DEF VfsDir
<1>4. s \in plain(p) /\ \A t \in plain(p) : t.type = "whiteout"
  <2>1. s.type = "whiteout"
    BY <1>1, PrefixSelf
  <2>2. \A t \in plain(p) : t \in Of(T, "vfs") /\ IsPrefix(p, t.target)
    BY <1>1, PrefixSelf DEF Of, At
  <2> QED
    BY <1>1, <2>1, <2>2 DEF Of, At
<1>5. low.type = "whiteout"
  <2>1. SourceSet(plain(p))
    BY SourceSubset DEF TreeOk, Tree, Of, At
  <2> DEFINE P == plain(p)
  <2>2. P # {} /\ SourceSet(P) /\ \A t \in P : t.type = "whiteout"
    BY <1>4, <2>1
  <2> HIDE DEF P
  <2>3. Lowest(P) \in P
    BY <2>2, LowestType
  <2>4. Lowest(P).type = "whiteout"
    BY <2>2, <2>3
  <2> QED
    BY <2>4 DEF P
<1>6. rule \in R
  <2>1. /\ p \in {f \in nodes : ~VfsDir(T, f) /\ plain(f) # {}}
        /\ rule = [action |-> IF Lowest(plain(p)).type = "whiteout" THEN "whiteout" ELSE "inject",
                   at |-> p, mod |-> Lowest(plain(p)).mod, node |-> SourceNode(Lowest(plain(p)))]
    BY <1>2, <1>3, <1>4, <1>5
  <2> HIDE DEF rule, p
  <2> QED
    BY <2>1 DEF VfsRules
<1>7. rule.at = p /\ rule.action = "whiteout"
  OBVIOUS
<1>8. \A r \in R : r.at = p => r = rule
  <2> DEFINE ids == {t.mod : t \in T}
  <2>1. \A t \in T : t.mod \in ids
    OBVIOUS
  <2> HIDE DEF ids
  <2>2. RuleSet(ids, R)
    BY <2>1, VfsRuleSet
  <2> HIDE DEF R, rule
  <2> QED
    BY <1>6, <1>7, <2>2 DEF RuleSet
<1>9. ASSUME NEW r \in R PROVE p \notin Steps(Front(r.at))
  <2> SUFFICES ASSUME p \in Steps(Front(r.at)) PROVE FALSE
    OBVIOUS
  <2>1. PICK t \in Of(T, "vfs") : r.at \in Steps(t.target)
    BY RuleLeads
  <2>2. t.target \in Paths
    BY DEF Of, TreeOk, Tree
  <2>3. r.at \in Paths \ {<< >>} /\ IsPrefix(r.at, t.target)
    BY <2>1, <2>2, StepsType
  <2>4. Front(r.at) \in Paths /\ IsPrefix(Front(r.at), r.at) /\ Len(Front(r.at)) = Len(r.at) - 1
    BY <2>3, ParentType
  <2>5. IsPrefix(p, Front(r.at)) /\ Len(p) <= Len(Front(r.at))
    BY <2>4, StepsType
  <2>6. IsPrefix(p, r.at) /\ IsPrefix(p, t.target)
    BY <1>1, <2>2, <2>3, <2>4, <2>5, PrefixTrans
  <2>7. t.target = p
    BY <2>6
  <2>8. Len(r.at) <= Len(p) /\ Len(r.at) \in Nat /\ Len(p) \in Nat
    BY <1>1, <2>3, <2>7, PrefixElements, LenType
  <2> HIDE DEF p
  <2> QED
    BY <2>4, <2>5, <2>8
<1> HIDE DEF rule, R, p
<1>10. p \notin DOMAIN RuledView(R, seen)
  BY <1>6, <1>7, <1>8, <1>9 DEF RuledView
<1> QED
  BY <1>10 DEF R, p

-----------------------------------------------------------------------------
(* Nothing comes back on the way *)

(* A removal that is alone with others of its own backend, where the planner and the places
   of the sources leave it alone. *)
Cleared(L, pl, s) ==
  /\ s.type = "whiteout" /\ s.target # << >>
  /\ Unaliased(pl, s.mod) /\ ~Stray(L, pl.tree, s)
  /\ Bars(L, pl.tree, s.target)
  /\ \A t \in pl.tree :
       t.mode # "ignore" /\ IsPrefix(s.target, t.target) =>
         t.target = s.target /\ t.type = "whiteout" /\ t.mode = s.mode
  /\ \A t \in Of(pl.tree, "magic") : t.type # "dir" => t.target # << >>
ClearedNow(s) == Cleared(LayoutOf(input), plan, s)

(* What one boot has removed so far: what an overlay that is mounted removes, then that and
   what Magic mounts remove.  Only a consistent plan is carried out. *)
GoneInv ==
  /\ pc \in {"mount", "inject", "done"} => plan.ok
  /\ pc = "mount" =>
       \A s \in Of(plan.tree, "overlay") :
         ClearedNow(s) /\ ~WaitsFor(s) => s.target \notin DOMAIN view
  /\ pc \in {"inject", "done"} =>
       \A s \in plan.tree :
         s.mode \in {"overlay", "magic"} /\ ClearedNow(s) => s.target \notin DOMAIN base

(* A boot starts without a plan. *)
LEMMA GoneInit == HotInit => GoneInv
BY DEF HotInit, Init, GoneInv

(* A failed boot removes nothing. *)
LEMMA FailGone == Fail => GoneInv'
BY DEF Fail, GoneInv

(* Every removal of an overlay waits for a mount (run_mount_pipeline_impl). *)
LEMMA MakePlanGone == ViewInv /\ MakePlan => GoneInv'
<1> SUFFICES ASSUME ViewInv, MakePlan PROVE GoneInv'
  OBVIOUS
<1>1. input' = input /\ pc' \in {"mount", "failed"} /\ (pc' = "mount" => plan'.ok)
  BY DEF MakePlan
<1>2. pc' = "mount" => \A s \in Of(plan.tree, "overlay")' : ClearedNow(s)' => WaitsFor(s)'
  <2> SUFFICES ASSUME pc' = "mount", NEW s \in Of(plan.tree, "overlay")', ClearedNow(s)' PROVE WaitsFor(s)'
    OBVIOUS
  <2>1. s \in Of(plan'.tree, "overlay")
    BY DEF Of
  <2>2. s.type # "dir" /\ Unaliased(plan', s.mod) /\ ~Stray(LayoutOf(input), plan'.tree, s)
    BY <1>1 DEF ClearedNow, Cleared
  <2> QED
    BY <2>1, <2>2, PlanWaits
<1> QED
  BY <1>1, <1>2 DEF GoneInv

(* A mount brings back nothing that is gone, and removes what its layers remove that no
   longer waits for another. *)
LEMMA MountGone ==
  ASSUME ViewInv, GoneInv, pc = "mount", NEW at \in Paths, NEW layers,
         \A p \in Paths : Bars(LayoutOf(input), plan.tree, p) => layers \in Seq(Fitting(at, Bare(p))),
         MountOverlay(at, layers),
         \A s \in Of(plan.tree, "overlay") :
           ClearedNow(s) /\ WaitsFor(s) =>
             \/ WaitsFor(s)'
             \/ IsStrictPrefix(at, s.target) /\ \E k \in 1..Len(layers) : Tail0(s.target, at) \in DOMAIN layers[k]
  PROVE  GoneInv'
<1>1. /\ input' = input /\ plan' = plan /\ pc' = "mount"
      /\ view' = Overlaid(layers, at, mounted, view)
  BY DEF MountOverlay
<1>2. /\ IsDevice(input.device) /\ AreDirectories(input.dirs) /\ plan = PlanOf(input)
      /\ view \in HonestNow /\ mounted \in SUBSET Paths
  BY DEF ViewInv
<1>3. view \in Views
  BY <1>2, SeenElim DEF HonestNow
<1>4. TreeOk(LayoutOf(input), plan.tree)
  BY <1>2, PlanType DEF PlanOk
<1>5. /\ plan.ok
      /\ \A s \in Of(plan.tree, "overlay") : ClearedNow(s) /\ ~WaitsFor(s) => s.target \notin DOMAIN view
  BY DEF GoneInv
<1>6. ASSUME NEW s \in Of(plan.tree, "overlay"), ClearedNow(s), ~WaitsFor(s)'
      PROVE  s.target \notin DOMAIN view'
  <2> DEFINE t == s.target
  <2>1. t \in Paths \ {<< >>} /\ Bars(LayoutOf(input), plan.tree, t)
    BY <1>4, <1>6 DEF ClearedNow, Cleared, Of, TreeOk, Tree
  <2>2. \/ t \notin DOMAIN view
        \/ IsStrictPrefix(at, t) /\ \E k \in 1..Len(layers) : Tail0(t, at) \in DOMAIN layers[k]
    BY <1>5, <1>6
  <2> HIDE DEF t
  <2>3. layers \in Seq(Fitting(at, Bare(t)))
    BY <2>1
  <2>4. t \notin DOMAIN Overlaid(layers, at, mounted, view)
    BY <1>2, <1>3, <2>1, <2>2, <2>3, OverlaidRemoves
  <2> QED
    BY <1>1, <2>4 DEF t
<1>7. \A s \in Of(plan.tree, "overlay")' : ClearedNow(s)' /\ ~WaitsFor(s)' => s.target \notin DOMAIN view'
  <2> SUFFICES ASSUME NEW s \in Of(plan.tree, "overlay")', ClearedNow(s)', ~WaitsFor(s)'
               PROVE  s.target \notin DOMAIN view'
    OBVIOUS
  <2>1. s \in Of(plan.tree, "overlay")
    BY <1>1 DEF Of
  <2>2. ClearedNow(s)
    BY <1>1 DEF ClearedNow
  <2> QED
    BY <1>6, <2>1, <2>2
<1> QED
  BY <1>1, <1>5, <1>7 DEF GoneInv

(* An overlay at its target removes what its layers remove (mount_overlay_phase). *)
LEMMA MountDirectGone == ViewInv /\ GoneInv /\ MountDirect => GoneInv'
<1> SUFFICES ASSUME ViewInv, GoneInv, MountDirect PROVE GoneInv'
  OBVIOUS
<1> DEFINE at == CHOOSE t \in direct : \A u \in direct \ {t} : RelBefore(t, u)
           layers == DirectLayers(plan, at)
           L == LayoutOf(input)
<1>1. /\ pc = "mount" /\ IsDevice(input.device) /\ AreDirectories(input.dirs)
      /\ plan = PlanOf(input)
      /\ IsFiniteSet(direct) /\ direct \subseteq Paths /\ direct # {}
  BY DEF ViewInv, MountDirect
<1>2. PlanOk(L, plan)
  BY <1>1, PlanType
<1>3. at \in direct
  BY <1>1, FirstPath
<1>4. at \in Paths
  BY <1>1, <1>3
<1>5. \/ MountOverlay(at, layers) /\ direct' = direct \ {at} /\ UNCHANGED shallow
      \/ Fail
  BY DEF MountDirect
<1> HIDE DEF at
<1>6. ASSUME NEW p \in Paths, Bars(L, plan.tree, p) PROVE layers \in Seq(Fitting(at, Bare(p)))
  BY <1>2, <1>4, <1>6, DirectBars
<1>7. ASSUME NEW s \in Of(plan.tree, "overlay"), ClearedNow(s), WaitsFor(s),
             direct' = direct \ {at}, shallow' = shallow, plan' = plan, ~WaitsFor(s)'
      PROVE  IsStrictPrefix(at, s.target) /\ \E k \in 1..Len(layers) : Tail0(s.target, at) \in DOMAIN layers[k]
  <2>1. ~Stray(L, plan.tree, s)
    BY <1>7 DEF ClearedNow, Cleared
  <2> QED
    BY <1>1, <1>2, <1>4, <1>7, <2>1, DirectEnds
<1> HIDE DEF layers
<1>8. CASE MountOverlay(at, layers) /\ direct' = direct \ {at} /\ UNCHANGED shallow
  <2>1. shallow' = shallow /\ plan' = plan /\ direct' = direct \ {at}
    BY <1>8 DEF MountOverlay
  <2>2. \A s \in Of(plan.tree, "overlay") :
          ClearedNow(s) /\ WaitsFor(s) =>
            \/ WaitsFor(s)'
            \/ IsStrictPrefix(at, s.target) /\ \E k \in 1..Len(layers) : Tail0(s.target, at) \in DOMAIN layers[k]
    BY <1>7, <2>1
  <2> QED
    BY <1>1, <1>4, <1>6, <1>8, <2>2, MountGone
<1> QED
  BY <1>5, <1>8, FailGone

(* An overlay over the place that was found does so too (mount_overlay_files). *)
LEMMA MountShallowGone == ViewInv /\ GoneInv /\ MountShallow => GoneInv'
<1> SUFFICES ASSUME ViewInv, GoneInv, MountShallow PROVE GoneInv'
  OBVIOUS
<1> DEFINE ats == {e.at : e \in shallow}
           at == CHOOSE t \in ats : \A u \in ats \ {t} : RelBefore(t, u)
           own == {e \in shallow : e.at = at}
           layers == ShallowLayers(plan, own)
           L == LayoutOf(input)
<1>1. /\ pc = "mount" /\ IsDevice(input.device) /\ AreDirectories(input.dirs)
      /\ plan = PlanOf(input) /\ shallow # {} /\ ShallowOk(L, plan.tree, shallow)
  BY DEF ViewInv, MountShallow
<1>2. PlanOk(L, plan)
  BY <1>1, PlanType
<1>3. ats \in SUBSET Paths /\ ats # {}
  BY <1>1 DEF ShallowOk
<1>4. IsFiniteSet(ats)
  <2> DEFINE f == [e \in shallow |-> e.at]
  <2>1. \A t \in ats : \E e \in shallow : t = f[e]
    OBVIOUS
  <2>2. IsFiniteSet(shallow)
    BY <1>1 DEF ShallowOk
  <2> HIDE DEF f, ats
  <2> QED
    BY <2>1, <2>2, FiniteImage
<1> HIDE DEF ats
<1>5. at \in Paths
  BY <1>3, <1>4, FirstPath
<1>6. \/ MountOverlay(at, layers) /\ shallow' = shallow \ own /\ UNCHANGED direct
      \/ Fail
  BY DEF MountShallow, ats
<1> HIDE DEF at
<1>7. ShallowOk(L, plan.tree, own) /\ \A e \in own : e.at = at
  BY <1>1, FS_Subset DEF ShallowOk
<1>8. ASSUME NEW p \in Paths, Bars(L, plan.tree, p) PROVE layers \in Seq(Fitting(at, Bare(p)))
  <2> HIDE DEF own
  <2> QED BY <1>2, <1>5, <1>7, <1>8, ShallowBars
<1>9. ASSUME NEW s \in Of(plan.tree, "overlay"), ClearedNow(s), WaitsFor(s),
             direct' = direct, shallow' = shallow \ own, plan' = plan, ~WaitsFor(s)'
      PROVE  IsStrictPrefix(at, s.target) /\ \E k \in 1..Len(layers) : Tail0(s.target, at) \in DOMAIN layers[k]
  <2>1. ~Stray(L, plan.tree, s)
    BY <1>9 DEF ClearedNow, Cleared
  <2> HIDE DEF own
  <2> QED
    BY <1>1, <1>2, <1>5, <1>7, <1>9, <2>1, ShallowEnds
<1> HIDE DEF layers, own
<1>10. CASE MountOverlay(at, layers) /\ shallow' = shallow \ own /\ UNCHANGED direct
  <2>1. shallow' = shallow \ own /\ plan' = plan /\ direct' = direct
    BY <1>10 DEF MountOverlay
  <2>2. \A s \in Of(plan.tree, "overlay") :
          ClearedNow(s) /\ WaitsFor(s) =>
            \/ WaitsFor(s)'
            \/ IsStrictPrefix(at, s.target) /\ \E k \in 1..Len(layers) : Tail0(s.target, at) \in DOMAIN layers[k]
    BY <1>9, <2>1
  <2> QED
    BY <1>1, <1>5, <1>8, <1>10, <2>2, MountGone
<1> QED
  BY <1>6, <1>10, FailGone

(* Magic mounts remove what they were given to remove, and bring nothing back. *)
LEMMA MountMagicGone == ViewInv /\ GoneInv /\ MountMagic => GoneInv'
<1> SUFFICES ASSUME ViewInv, GoneInv, MountMagic PROVE GoneInv'
  OBVIOUS
<1> DEFINE L == LayoutOf(input)
           T == plan.tree
           v == MagicView(T, view)
<1>1. /\ pc = "mount" /\ IsDevice(input.device) /\ AreDirectories(input.dirs)
      /\ plan = PlanOf(input) /\ view \in HonestNow /\ direct = {} /\ shallow = {}
  BY DEF ViewInv, MountMagic
<1>2. TreeOk(L, T)
  BY <1>1, PlanType DEF PlanOk
<1>3. view \in Views
  BY <1>1, SeenElim DEF HonestNow
<1>4. plan.ok /\ \A s \in Of(T, "overlay") : ClearedNow(s) => s.target \notin DOMAIN view
  BY <1>1 DEF GoneInv, WaitsFor
<1>5. \/ view' = v /\ base' = view' /\ pc' = "inject" /\ input' = input /\ plan' = plan
      \/ Fail
  BY DEF MountMagic
<1>6. ASSUME NEW s \in T, s.mode \in {"overlay", "magic"}, ClearedNow(s) PROVE s.target \notin DOMAIN v
  <2>1. /\ s.type = "whiteout" /\ s.target # << >>
        /\ \A t \in T : t.mode # "ignore" /\ IsPrefix(s.target, t.target) =>
             t.target = s.target /\ t.type = "whiteout" /\ t.mode = s.mode
        /\ \A t \in Of(T, "magic") : t.type # "dir" => t.target # << >>
    BY <1>6 DEF ClearedNow, Cleared
  <2>2. s.target \in Paths /\ IsPrefix(s.target, s.target)
    BY <1>2, PrefixSelf DEF TreeOk, Tree
  <2> HIDE DEF L
  <2>3. CASE s.mode = "overlay"
    <3> DEFINE p == s.target
    <3>1. p \notin DOMAIN view
      BY <1>4, <1>6, <2>3 DEF Of
    <3>2. ~HasBackend(T, "magic", p)
      BY <2>1, <2>3 DEF HasBackend, Of
    <3> HIDE DEF p
    <3>3. p \notin DOMAIN MagicView(T, view)
      BY <1>2, <3>1, <3>2, MagicAdds
    <3> QED
      BY <3>3 DEF p
  <2>4. CASE s.mode = "magic"
    <3>1. s \in Of(T, "magic")
      BY <2>4 DEF Of
    <3>2. \A t \in Of(T, "magic") : t.target = s.target => t.type = "whiteout"
      BY <2>1, <2>2 DEF Of
    <3> QED
      BY <1>2, <1>3, <2>1, <3>1, <3>2, MagicRemoves
  <2> QED
    BY <1>6, <2>3, <2>4
<1> HIDE DEF v, L
<1>7. CASE view' = v /\ base' = view' /\ pc' = "inject" /\ input' = input /\ plan' = plan
  <2>1. \A s \in plan'.tree :
          s.mode \in {"overlay", "magic"} /\ ClearedNow(s)' => s.target \notin DOMAIN base'
    BY <1>6, <1>7 DEF ClearedNow
  <2> QED
    BY <1>4, <1>7, <2>1 DEF GoneInv
<1> QED
  BY <1>5, <1>7, FailGone

(* Rules leave what the backends before them have made (apply_vfs_phase). *)
LEMMA ApplyRulesGone == GoneInv /\ ApplyRules => GoneInv'
<1> SUFFICES ASSUME GoneInv, ApplyRules PROVE GoneInv'
  OBVIOUS
<1>1. pc = "inject"
  BY DEF ApplyRules
<1>2. \/ pc' = "done" /\ input' = input /\ plan' = plan /\ base' = base
      \/ Fail
  BY DEF ApplyRules, RulesTaken, ProviderLeftOut, provider
<1>3. CASE pc' = "done" /\ input' = input /\ plan' = plan /\ base' = base
  BY <1>1, <1>3 DEF GoneInv, ClearedNow
<1> QED
  BY <1>2, <1>3, FailGone

(* Every step of a boot leaves gone what is gone. *)
LEMMA GoneInductive == ViewInv /\ GoneInv /\ [HotNext]_hotVars => GoneInv'
<1> SUFFICES ASSUME ViewInv, GoneInv, [HotNext]_hotVars PROVE GoneInv'
  OBVIOUS
<1>1. CASE UNCHANGED hotVars
  <2>1. /\ input' = input /\ pc' = pc /\ plan' = plan /\ view' = view
        /\ direct' = direct /\ shallow' = shallow /\ base' = base
    BY <1>1 DEF hotVars, vars, overlays, provider
  <2> QED
    BY <2>1 DEF GoneInv, ClearedNow, WaitsFor
<1>2. CASE Next
  BY <1>2, MakePlanGone, MountDirectGone, MountShallowGone, MountMagicGone, ApplyRulesGone DEF Next
<1>3. CASE Commit \/ Load \/ Reload \/ Unload \/ Change
  BY <1>3, LaterReady DEF GoneInv
<1> QED
  BY <1>1, <1>2, <1>3 DEF HotNext

(* What one backend has removed no later one brings back, and only a plan that passed every
   check of the whole tree is carried out (build_plan, execute_mount_phases). *)
THEOREM ViewGone == HotSpec => []GoneInv
<1>1. HotInit => ViewInv /\ GoneInv
  BY ViewInit, GoneInit
<1>2. ViewInv /\ GoneInv /\ [HotNext]_hotVars => (ViewInv /\ GoneInv)'
  BY HotInductive, GoneInductive
<1> QED
  BY <1>1, <1>2, PTL DEF HotSpec

(* What the checks of the whole tree and the places of the sources leave alone. *)
LEMMA RemovalCleared ==
  ASSUME ViewInv, GoneInv, pc = "done", NEW s \in plan.tree, s.mode # "ignore", s.type = "whiteout",
         Unaliased(plan, s.mod), ~Astray(s),
         ~ \E t \in Accepted(plan) : Astray(t) /\ (Covers(t, s.target) \/ Leads(t, s.target))
  PROVE  ClearedNow(s)
<1> DEFINE L == LayoutOf(input)
           T == plan.tree
           p == s.target
<1>1. IsDevice(input.device) /\ AreDirectories(input.dirs) /\ plan = PlanOf(input) /\ plan.ok
  BY DEF ViewInv, GoneInv
<1>2. TreeOk(L, T)
  BY <1>1, PlanType DEF PlanOk
<1>3. Consistent(T)
  <2>1. BuildPlan(input.cfg, input.vfs, L, ListModules(input.dirs, ScanNames(L))).ok
          => Consistent(BuildPlan(input.cfg, input.vfs, L, ListModules(input.dirs, ScanNames(L))).tree)
    BY DEF BuildPlan
  <2>2. plan = BuildPlan(input.cfg, input.vfs, L, ListModules(input.dirs, ScanNames(L)))
    BY <1>1 DEF PlanOf
  <2> QED
    BY <1>1, <2>1, <2>2
<1>4. p \in Paths /\ p # << >>
  BY <1>2, AcceptedBelow DEF TreeOk, Tree
<1>5. \A t \in T : t.target \in Paths
  BY <1>2 DEF TreeOk, Tree
<1>6. ASSUME NEW t \in T, t.mode # "ignore", IsPrefix(p, t.target)
      PROVE  t.target = p /\ t.type = "whiteout" /\ t.mode = s.mode
  <2>1. t.target = p
    <3>1. SUFFICES ASSUME t.target # p PROVE FALSE
      OBVIOUS
    <3>2. t \in Below(T, p)
      BY <1>6, <3>1 DEF Below, IsStrictPrefix
    <3> QED
      BY <1>3, <1>6, <3>2 DEF Consistent, WhiteoutExclusive
  <2>2. t.type = "whiteout"
    <3>1. t \in At(T, p)
      BY <2>1 DEF At
    <3> QED
      BY <1>3, <1>6, <3>1 DEF Consistent, WhiteoutExclusive
  <2>3. t.mode = s.mode
    <3>1. ~Clash(s, t)
      BY <1>3 DEF Consistent
    <3> QED
      BY <1>6, <2>1, <2>2, <3>1 DEF Clash
  <2> QED
    BY <2>1, <2>2, <2>3
<1>7. \A t \in Accepted(plan) : Astray(t) => ~Covers(t, p) /\ ~Leads(t, p)
  OBVIOUS
<1>8. Bars(L, T, p)
  <2> SUFFICES ASSUME NEW t \in Of(T, "overlay"), NEW q \in Paths, LandsAt(L, T, t, q)
               PROVE  ~IsStrictPrefix(p, q) /\ (q = p => t.type = "whiteout")
    BY DEF Bars
  <2>1. t \in T /\ t.mode = "overlay" /\ t \in Accepted(plan)
    BY DEF Of, Accepted
  <2>2. CASE q = t.target
    <3>1. IsPrefix(p, q) => t.target = p /\ t.type = "whiteout"
      BY <1>6, <2>1, <2>2
    <3>2. IsPrefix(p, p)
      BY <1>4, PrefixSelf
    <3> QED
      BY <2>2, <3>1, <3>2 DEF IsStrictPrefix
  <2>3. CASE Astray(t)
    <3>1. q \in Places(t)
      BY PlacesLand
    <3>2. ~IsStrictPrefix(p, q)
      BY <1>7, <2>1, <2>3, <3>1 DEF Leads
    <3>3. q # p
      BY <1>4, <1>7, <2>1, <2>3, <3>1, PrefixSelf DEF Covers
    <3> QED
      BY <3>2, <3>3
  <2> QED
    BY <2>2, <2>3 DEF LandsAt, Astray
<1>9. ASSUME NEW t \in Of(T, "magic"), t.type # "dir" PROVE t.target # << >>
  <2>1. t \in T /\ t.mode = "magic" /\ t \in Accepted(plan)
    BY DEF Of, Accepted
  <2>2. CASE ~Astray(t)
    BY <1>9, <2>1, <2>2, AcceptedBelow
  <2>3. CASE Astray(t)
    <3>1. t.target \in Places(t)
      BY DEF Places
    <3>2. ~IsPrefix(t.target, p)
      BY <1>7, <1>9, <2>1, <2>3, <3>1 DEF Covers
    <3>3. IsPrefix(<< >>, p)
      BY <1>4, PrefixSelf
    <3> QED
      BY <3>2, <3>3
  <2> QED
    BY <2>2, <2>3
<1>10. ~Stray(L, T, s)
  BY DEF Astray
<1> HIDE DEF L, T, p
<1>11. Cleared(L, plan, s)
  BY <1>4, <1>6, <1>8, <1>9, <1>10 DEF Cleared, p, T
<1> QED
  BY <1>11 DEF ClearedNow, L

(* What the invariant says of removals. *)
LEMMA GoneMeansRemoved == ViewInv /\ StandsInv /\ GoneInv => RemovedIsGone
<1> SUFFICES ASSUME ViewInv, StandsInv, GoneInv, pc = "done", NEW s \in Accepted(plan),
                    s.type = "whiteout", Unaliased(plan, s.mod), ~Astray(s),
                    ~ \E t \in Accepted(plan) : Astray(t) /\ (Covers(t, s.target) \/ Leads(t, s.target))
             PROVE  s.target \notin DOMAIN view
  BY DEF RemovedIsGone
<1> DEFINE T == plan.tree
           p == s.target
<1>1. IsDevice(input.device) /\ AreDirectories(input.dirs) /\ plan = PlanOf(input)
  BY DEF ViewInv
<1>2. TreeOk(LayoutOf(input), T)
  BY <1>1, PlanType DEF PlanOk
<1>3. s \in T /\ (s.mode \in {"overlay", "magic"} \/ (s.mode = "vfs" /\ rules # {}))
  BY DEF Accepted
<1>4. ClearedNow(s)
  BY <1>3, RemovalCleared
<1>5. /\ p # << >>
      /\ \A t \in T : t.mode # "ignore" /\ IsPrefix(p, t.target) =>
           t.target = p /\ t.type = "whiteout" /\ t.mode = s.mode
  BY <1>4 DEF ClearedNow, Cleared
<1>6. \/ rules = {} /\ view = base
      \/ rules = VfsRules(T) /\ view = RuledView(rules, base)
  BY DEF StandsInv
<1>7. CASE s.mode \in {"overlay", "magic"}
  <2>1. p \notin DOMAIN base
    BY <1>3, <1>4, <1>7 DEF GoneInv
  <2>2. ~HasBackend(T, "vfs", p)
    BY <1>5, <1>7 DEF HasBackend, Of
  <2> HIDE DEF p
  <2>3. p \notin DOMAIN RuledView(VfsRules(T), base)
    BY <1>2, <2>1, <2>2, RulesAdd
  <2> QED
    BY <1>6, <2>1, <2>3 DEF p
<1>8. CASE s.mode = "vfs" /\ rules # {}
  <2>1. s \in Of(T, "vfs")
    BY <1>3, <1>8 DEF Of
  <2>2. \A t \in Of(T, "vfs") : IsPrefix(p, t.target) => t.target = p /\ t.type = "whiteout"
    BY <1>5 DEF Of
  <2>3. p \notin DOMAIN RuledView(VfsRules(T), base)
    BY <1>2, <1>5, <2>1, <2>2, RulesRemove
  <2> QED
    BY <1>6, <1>8, <2>3
<1> QED
  BY <1>3, <1>7, <1>8

(* What a module that took part removes is not seen when the boot has ended, whatever the
   device or an earlier backend has there: the planner lets nothing be put at it or below
   (ensure_whiteout_exclusive), a layer has a whiteout of it, Magic mounts build its
   directory anew (needs_tmpfs), and the provider's rule hides it (build_vfs_rules). *)
THEOREM ViewRemovedIsGone == HotSpec => []RemovedIsGone
<1> QED
  BY ViewIsHonest, ViewStands, ViewGone, GoneMeansRemoved, PTL

-----------------------------------------------------------------------------
(* What the report looks for *)

(* A layer that the report finds by its target, and a file that it finds below its own,
   unless that one is put by its own name. *)
Found(ds, l) == \E d \in Of(ds, "overlay") : d.mod = l.mod /\ d.target = l.target
FoundBelow(L, T, ds, f) ==
  \E d \in Of(ds, "overlay") :
    d.mod = f.mod /\ d.rel = f.rel /\ (IsPrefix(f.target, d.target) \/ Stray(L, T, d))

(* The layers of a whole module of overlays stand at sources (add_whole_overlay_layers). *)
LEMMA WholeFound ==
  ASSUME NEW L, LayoutOk(L), NEW ds, NEW id, SourcesOk(L, ds, id), ds = Of(ds, "overlay"),
         NEW l \in WholeOverlay(L, ds).layers
  PROVE  Found(ds, l)
<1>1. LayersFrom(L, ds, id, WholeOverlay(L, ds).layers)
  BY WholeFrom
<1>2. /\ l = [target |-> MapTarget(L, l.rel), mod |-> id, rel |-> l.rel]
      /\ \E d \in ds : d.rel = l.rel
  BY <1>1 DEF LayersFrom
<1>3. PICK d \in ds : d.rel = l.rel
  BY <1>2
<1>4. d.mod = id /\ d.target = MapTarget(L, d.rel)
  BY DEF SourcesOk
<1>5. l.mod = id /\ l.target = MapTarget(L, l.rel)
  BY <1>2
<1>6. d.mod = l.mod /\ d.target = l.target
  BY <1>3, <1>4, <1>5
<1> QED
  BY <1>6 DEF Found

(* So do those of a module of which only some paths are overlays (process_module). *)
LEMMA PartialFound ==
  ASSUME NEW L, NEW ds, NEW l \in PartialOverlay(L, ds).layers
  PROVE  Found(ds, l)
<1> DEFINE overlay == {d.rel : d \in Of(ds, "overlay")}
           tops == {d \in Of(ds, "overlay") : ~HasAncestorIn(d.rel, overlay)}
           A == {[target |-> d.target, mod |-> d.mod, rel |-> d.rel] : d \in {c \in tops : c.type = "dir"}}
<1>1. l \in A
  BY DEF PartialOverlay
<1>2. PICK d \in tops : l = [target |-> d.target, mod |-> d.mod, rel |-> d.rel]
  BY <1>1
<1>3. l.mod = d.mod /\ l.target = d.target
  BY <1>2
<1> QED
  BY <1>3 DEF Found

(* A single file is below the directory it is put into, but for one in the place of a
   partition (single_file_parent). *)
LEMMA FilesFound ==
  ASSUME NEW L, LayoutOk(L), NEW T, NEW ds, NEW id, SourcesOk(L, ds, id), NEW fs,
         FilesOk(L, ds, id, fs), NEW f \in fs
  PROVE  FoundBelow(L, T, ds, f)
<1>1. PICK d \in Of(ds, "overlay") :
        /\ f.mod = id /\ f.rel = d.rel /\ d.type # "dir" /\ Len(d.rel) > 1
        /\ f.target = MapTarget(L, Front(d.rel))
  BY DEF FilesOk
<1>2. d \in ds /\ d.mod = id /\ d.rel \in Paths /\ d.target = MapTarget(L, d.rel)
  BY DEF Of, SourcesOk
<1> DEFINE front == Front(d.rel)
           far == d.rel
<1>3. /\ front \in Paths \ {<< >>} /\ IsPrefix(front, far) /\ <<Last(far)>> \in Paths
      /\ Tail0(far, front) = <<Last(far)>> /\ Len(front) = Len(far) - 1
  BY <1>1, <1>2, FrontType
<1>4. far \in Paths /\ Len(far) \in Nat
  BY <1>2, LenType
<1> HIDE DEF front, far
<1>5. \/ MapTarget(L, far) = MapTarget(L, front) \o Tail0(far, front)
      \/ front = <<System>> /\ Misled(L, far)
  BY <1>3, <1>4, MapExtend
<1>6. CASE MapTarget(L, far) = MapTarget(L, front) \o Tail0(far, front)
  <2>1. MapTarget(L, front) \in Paths /\ Tail0(far, front) \in Paths
    BY <1>3, MapTargetType
  <2>2. IsPrefix(MapTarget(L, front), MapTarget(L, far))
    BY <1>6, <2>1, PrefixConcat
  <2> QED
    BY <1>1, <1>2, <2>2 DEF FoundBelow, front, far
<1>7. CASE front = <<System>> /\ Misled(L, far)
  <2>1. Len(front) = 1
    BY <1>7
  <2>2. Len(far) = 2
    BY <1>3, <1>4, <2>1
  <2>3. Stray(L, T, d)
    BY <1>1, <1>7, <2>2, StrayMeans DEF far
  <2> QED
    BY <1>1, <1>2, <2>3 DEF FoundBelow
<1> QED
  BY <1>5, <1>6, <1>7

(* So the report finds all that is planned for overlays where it is planned. *)
LEMMA PlanFound ==
  ASSUME NEW L, LayoutOk(L), NEW cfg, NEW v, NEW M, ModulesOk(M), NEW pl, pl = BuildPlan(cfg, v, L, M)
  PROVE  /\ \A l \in pl.layers : Found(pl.tree, l)
         /\ \A f \in pl.files : FoundBelow(L, pl.tree, pl.tree, f)
<1> DEFINE planned == Planned(cfg, M)
           rl(m) == ModuleRules(cfg, v, m.id)
           ds(m) == Decisions(L, rl(m), m)
           over(m) == OverlayOf(L, rl(m), ds(m))
           T == UNION {ds(m) : m \in planned}
           Ls == UNION {OneByTarget(over(m).layers) : m \in planned}
           Fs == UNION {over(m).files : m \in planned}
<1>1. pl.tree = T /\ pl.layers = Ls /\ pl.files = Fs
  BY DEF BuildPlan
<1>2. ModulesOk(planned)
  BY ModulesSubset DEF Planned
<1>3. ASSUME NEW m \in planned
      PROVE  /\ ds(m) \subseteq T
             /\ \A l \in over(m).layers : Found(ds(m), l)
             /\ \A f \in over(m).files : FoundBelow(L, T, ds(m), f)
  <2>1. ds(m) \subseteq T
    OBVIOUS
  <2>2. ModuleOk(m)
    BY <1>2 DEF ModulesOk
  <2>3. SourcesOk(L, ds(m), m.id)
    BY <2>2, DecisionsType
  <2> DEFINE D == ds(m)
             O == over(m)
  <2>4. O = OverlayOf(L, rl(m), D) /\ SourcesOk(L, D, m.id)
    BY <2>3
  <2> HIDE DEF ds, over, rl, T, D, O
  <2>5. ASSUME NEW l \in O.layers PROVE Found(D, l)
    <3>1. CASE O = WholeOverlay(L, D) /\ D = Of(D, "overlay")
      BY <2>4, <2>5, <3>1, WholeFound
    <3>2. CASE O = PartialOverlay(L, D)
      BY <2>5, <3>2, PartialFound
    <3> QED
      BY <2>4, <3>1, <3>2 DEF OverlayOf
  <2>6. FilesOk(L, D, m.id, O.files)
    BY <2>4, OverlayOfType
  <2>7. \A f \in O.files : FoundBelow(L, T, D, f)
    BY <2>4, <2>6, FilesFound
  <2> QED
    BY <2>1, <2>5, <2>7 DEF D, O
<1>4. ASSUME NEW l \in Ls PROVE Found(T, l)
  <2>1. PICK m \in planned : l \in OneByTarget(over(m).layers)
    BY <1>4
  <2>2. l \in over(m).layers
    BY <2>1 DEF OneByTarget
  <2>3. ds(m) \subseteq T /\ Found(ds(m), l)
    BY <1>3, <2>2
  <2> HIDE DEF T, Ls, Fs, ds, over
  <2> QED
    BY <2>3 DEF Found, Of
<1>5. ASSUME NEW f \in Fs PROVE FoundBelow(L, T, T, f)
  <2>1. PICK m \in planned : f \in over(m).files
    BY <1>5
  <2>2. ds(m) \subseteq T /\ FoundBelow(L, T, ds(m), f)
    BY <1>3, <2>1
  <2> HIDE DEF T, Ls, Fs, ds, over
  <2> QED
    BY <2>2 DEF FoundBelow, Of
<1> HIDE DEF T, Ls, Fs
<1> QED
  BY <1>1, <1>4, <1>5

-----------------------------------------------------------------------------
(* What a boot has to report *)

(* Where overlays have their targets, if the device has the directory. *)
Aims(pl, device) ==
  {l.target : l \in {k \in pl.layers \cup pl.files : PlaceOf(Stock(device), k.target).rest = << >>}}

(* What overlays show is of their sources, and what Magic mounts leave is that or of a
   module that a Magic mount was made for. *)
FromOverlays(pl) ==
  {q \in Paths \X Nodes :
     \/ q[2].kind = "dir" \/ q[2].from.mod = 0
     \/ \E s \in Of(pl.tree, "overlay") :
          q[2].from = [mod |-> s.mod, rel |-> s.rel] /\ s.mod \in ModulesOf(pl, "overlay")}
FromMounts(pl, ids) ==
  FromOverlays(pl) \cup {q \in Paths \X Nodes : q[2].from.mod \in ids \cap ModulesOf(pl, "magic")}

Listed(id) == \E r \in ledger.modules : r.id = id /\ r.mounted = TRUE

(* Until a boot is committed it has mounted at the targets that it need not wait for, and
   what is seen is of the backends; then whatever is seen is of a module that is listed
   as mounted and owned, or of one that the report does not find. *)
MountList ==
  /\ view \in Fitting(<< >>, FromOverlays(plan))
  /\ \A e \in shallow : e.mod \in ModulesOf(plan, "overlay")
  /\ Aims(plan, input.device) \subseteq made.overlay \cup direct \cup {e.at : e \in shallow}
BaseList ==
  /\ base \in Fitting(<< >>, FromMounts(plan, made.ids))
  /\ Aims(plan, input.device) \subseteq made.overlay
RulesList == \A r \in rules : r.mod \in made.ids \cap ModulesOf(plan, "vfs")
ReadyList ==
  /\ \A r \in ledger.modules : r = [id |-> r.id, mode |-> r.mode, mounted |-> r.mounted, enabled |-> r.enabled]
  /\ \A r, q \in ledger.modules : r.id = q.id => r = q
  /\ \A p \in DOMAIN base : base[p].from.mod # 0 /\ base[p].kind # "dir" =>
       /\ base[p].from.mod \in ledger.non_vfs
       /\ Listed(base[p].from.mod) \/ NotLookedFor(base[p].from)
  /\ \A r \in rules : Listed(r.mod)
  /\ ledger.generation > 0 => \A r \in ledger.modules : r.mounted = TRUE => r.id \in BootOwned

ListInv ==
  /\ pc = "mount" => MountList
  /\ pc \in {"inject", "done"} => BaseList
  /\ pc = "done" => RulesList
  /\ pc = "ready" => ReadyList

(* The overlays of a plan are of modules of the plan. *)
LEMMA OverlayOwners ==
  ASSUME NEW pl
  PROVE  /\ \A l \in pl.layers \cup pl.files : l.mod \in ModulesOf(pl, "overlay")
         /\ ModulesOf(pl, "magic") = {s.mod : s \in Of(pl.tree, "magic")}
         /\ ModulesOf(pl, "vfs") = {s.mod : s \in Of(pl.tree, "vfs")}
BY DEF ModulesOf

(* What overlays show may be shown by layers. *)
LEMMA FromOverlaysType ==
  ASSUME NEW pl
  PROVE  Lasting(FromOverlays(pl)) /\ Leading(FromOverlays(pl))
<1> DEFINE G == FromOverlays(pl)
<1>1. ASSUME NEW p \in Paths, NEW n \in Nodes, <<p, n>> \in G
      PROVE  <<p, [n EXCEPT !.opaque = FALSE]>> \in G
  <2> DEFINE m == [n EXCEPT !.opaque = FALSE]
  <2>1. m \in Nodes /\ m.kind = n.kind /\ m.from = n.from
    BY NodeTypes DEF Nodes
  <2> HIDE DEF m
  <2>2. <<p, m>> \in FromOverlays(pl)
    BY <1>1, <2>1 DEF FromOverlays
  <2> QED
    BY <2>2 DEF m
<1>2. \A p \in Paths : <<p, Dir>> \in G
  <2>1. Dir.kind = "dir"
    BY DEF Dir
  <2> QED
    BY <2>1, NodeTypes DEF FromOverlays
<1> QED
  BY <1>1, <1>2 DEF Lasting, Leading

(* The layers of a module of the overlays are of its sources for them. *)
LEMMA LayerFrom ==
  ASSUME NEW pl, Tree(pl.tree), NEW mod \in ModulesOf(pl, "overlay"), NEW rel \in Paths,
         NEW dest \in Paths, NEW at \in Paths
  PROVE  Layer(pl.tree, mod, rel, dest) \in Fitting(at, FromOverlays(pl))
<1> DEFINE T == pl.tree
           G == FromOverlays(pl)
<1>1. ASSUME NEW s \in Of(T, "overlay"), s.mod = mod, IsPrefix(rel, s.rel)
      PROVE  <<at \o (dest \o Tail0(s.rel, rel)), SourceNode(s)>> \in G
  <2>1. s \in T /\ s.rel \in Paths
    BY DEF Of, Tree, SourceSet
  <2>2. Tail0(s.rel, rel) \in Paths
    BY <1>1, <2>1, PrefixSplit
  <2>3. dest \o Tail0(s.rel, rel) \in Paths
    BY <2>2, ConcatType
  <2> DEFINE p == at \o (dest \o Tail0(s.rel, rel))
             n == SourceNode(s)
  <2>4. p \in Paths
    BY <2>3, ConcatType
  <2>5. n \in Nodes
    BY <2>1, SourceNodeType
  <2>6. n.from = [mod |-> s.mod, rel |-> s.rel]
    BY DEF SourceNode
  <2> HIDE DEF p, n
  <2>7. <<p, n>> \in FromOverlays(pl)
    BY <1>1, <2>4, <2>5, <2>6 DEF FromOverlays
  <2> QED
    BY <2>7 DEF p, n
<1>2. Leading(G)
  BY FromOverlaysType
<1> HIDE DEF G
<1>3. Layer(T, mod, rel, dest) \in Fitting(at, G)
  BY <1>1, <1>2, LayerFits
<1> QED
  BY <1>3 DEF G

(* A plan is made before anything is mounted. *)
LEMMA MakePlanList == ViewInv /\ MakePlan => ListInv'
<1> SUFFICES ASSUME ViewInv, MakePlan PROVE ListInv'
  OBVIOUS
<1> DEFINE p == PlanOf(input)
           v == Stock(input.device)
           L == LayoutOf(input)
<1>1. IsDevice(input.device) /\ AreDirectories(input.dirs) /\ view = v
  BY DEF ViewInv, MakePlan
<1>2. PlanOk(L, p)
  BY <1>1, PlanType
<1>3. pc' \in {"mount", "failed"} /\ input' = input /\ view' = v /\ plan' = p
  BY <1>1 DEF MakePlan
<1>4. v \in Fitting(<< >>, FromOverlays(p))
  <2>1. v \in Views /\ \A q \in DOMAIN v : v[q].from.mod = 0
    BY <1>1, StockType
  <2> HIDE DEF v, p
  <2>2. ASSUME NEW q \in DOMAIN v
        PROVE  q \in Paths \ {<< >>} /\ v[q] \in Nodes /\ <<q, v[q]>> \in FromOverlays(p)
    BY <2>1, ViewElim DEF FromOverlays
  <2>3. v = [q \in DOMAIN v |-> v[q]]
    BY <2>1, ViewElim
  <2> QED
    BY <2>2, <2>3, SeenIntro
<1>5. ASSUME pc' = "mount" PROVE MountList'
  <2>1. Placeable(p, v) /\ direct' = DirectTargets(p, v) /\ shallow' = ShallowEntries(p, v)
    BY <1>1, <1>5 DEF MakePlan
  <2> HIDE DEF v, p
  <2>2. ASSUME NEW e \in shallow' PROVE e.mod \in ModulesOf(p, "overlay")
    <3>1. \E l \in p.layers \cup p.files : e.mod = l.mod
      BY <2>1 DEF ShallowEntries
    <3> QED
      BY <3>1, OverlayOwners
  <2>3. ASSUME NEW t \in Aims(p, input.device)
        PROVE  t \in direct' \cup {e.at : e \in shallow'}
    <3>1. PICK l \in p.layers \cup p.files : t = l.target /\ PlaceOf(v, l.target).rest = << >>
      BY DEF Aims, v
    <3>2. CASE l \in p.layers
      BY <2>1, <3>1, <3>2 DEF DirectTargets
    <3>3. CASE l \in p.files
      <4> DEFINE e == [at |-> PlaceOf(v, l.target).at, mod |-> l.mod, rel |-> l.rel,
                       dest |-> Append(PlaceOf(v, l.target).rest, Last(l.rel))]
      <4>1. e \in shallow'
        BY <2>1, <3>3 DEF ShallowEntries
      <4>2. l.target \in Paths
        BY <1>2, <3>3 DEF PlanOk
      <4>3. Place(v, l.target) # {}
        BY <2>1 DEF Placeable
      <4>4. /\ PlaceOf(v, l.target).at \in Paths
            /\ PlaceOf(v, l.target).at \o PlaceOf(v, l.target).rest = l.target
        BY <4>2, <4>3, PlaceType
      <4>5. PlaceOf(v, l.target).at = l.target
        BY <3>1, <4>4, EmptyConcat
      <4>6. e.at = t
        BY <3>1, <4>5
      <4> HIDE DEF e
      <4> QED
        BY <4>1, <4>6
    <3> QED
      BY <3>2, <3>3
  <2> QED
    BY <1>3, <1>4, <2>2, <2>3 DEF MountList, v, p
<1> QED
  BY <1>3, <1>5 DEF ListInv

(* A failed boot has nothing to report. *)
LEMMA FailList == Fail => ListInv'
BY DEF Fail, ListInv

(* A mount shows what its layers have, and is one of those that were to be made. *)
LEMMA MountOverlayList ==
  ASSUME OwnersInv, ListInv, pc = "mount", NEW at \in Paths,
         NEW layers \in Seq(Fitting(at, FromOverlays(plan))),
         ChildrenSurvive(layers, at, mounted, view), MountOverlay(at, layers),
         direct \subseteq direct' \cup {at}, shallow' \subseteq shallow,
         \A e \in shallow : e.at = at \/ e \in shallow'
  PROVE  ListInv'
<1> DEFINE G == FromOverlays(plan)
<1>1. mounted \in SUBSET Paths /\ view \in Fitting(<< >>, G) /\ Lasting(G)
  BY FromOverlaysType DEF OwnersInv, ViewInv, ListInv, MountList
<1>2. view' = Overlaid(layers, at, mounted, view) /\ pc' = pc /\ plan' = plan /\ input' = input
  BY DEF MountOverlay
<1>3. made'.overlay = made.overlay \cup {at}
  BY DEF MountOverlay, OwnersInv, MadeInv
<1> HIDE DEF G
<1>4. view' \in Fitting(<< >>, G)
  <2>1. layers \in Seq(Fitting(at, G))
    BY DEF G
  <2> QED
    BY <1>1, <1>2, <2>1, OverlaidFits
<1>5. \A e \in shallow' : e.mod \in ModulesOf(plan, "overlay")
  BY DEF ListInv, MountList
<1>6. Aims(plan, input.device) \subseteq made'.overlay \cup direct' \cup {e.at : e \in shallow'}
  BY <1>3 DEF ListInv, MountList
<1> QED
  BY <1>2, <1>4, <1>5, <1>6 DEF ListInv, MountList, G

(* An overlay at its target (mount_overlay_phase). *)
LEMMA MountDirectList == OwnersInv /\ ListInv /\ MountDirect => ListInv'
<1> SUFFICES ASSUME OwnersInv, ListInv, MountDirect PROVE ListInv'
  OBVIOUS
<1> DEFINE at == CHOOSE t \in direct : \A u \in direct \ {t} : RelBefore(t, u)
           layers == DirectLayers(plan, at)
           L == LayoutOf(input)
<1>1. /\ pc = "mount" /\ IsDevice(input.device) /\ AreDirectories(input.dirs)
      /\ plan = PlanOf(input) /\ IsFiniteSet(direct) /\ direct \subseteq Paths /\ direct # {}
  BY DEF OwnersInv, ViewInv, MountDirect
<1>2. PlanOk(L, plan)
  BY <1>1, PlanType
<1>3. at \in Paths
  BY <1>1, FirstPath
<1>4. \/ /\ ChildrenSurvive(layers, at, mounted, view) /\ MountOverlay(at, layers)
         /\ direct' = direct \ {at} /\ UNCHANGED shallow
      \/ Fail
  BY DEF MountDirect
<1> HIDE DEF at
<1>5. layers \in Seq(Fitting(at, FromOverlays(plan)))
  <2>1. ASSUME NEW l \in plan.layers, l.target = at
        PROVE  Layer(plan.tree, l.mod, l.rel, << >>) \in Fitting(at, FromOverlays(plan))
    <3>1. l.rel \in Paths /\ l.mod \in ModulesOf(plan, "overlay") /\ << >> \in Paths /\ Tree(plan.tree)
      BY <1>2, OverlayOwners DEF PlanOk, TreeOk, Paths
    <3> QED
      BY <1>3, <3>1, LayerFrom
  <2>2. IsFiniteSet(plan.layers) /\ \A l \in plan.layers : l.mod \in Nat
    BY <1>2 DEF PlanOk
  <2>3. \A l, k \in plan.layers : l.target = k.target /\ l.mod = k.mod => l = k
    BY <1>2 DEF PlanOk
  <2> QED
    BY <2>1, <2>2, <2>3, DirectLayersType
<1> HIDE DEF layers
<1>6. CASE /\ ChildrenSurvive(layers, at, mounted, view) /\ MountOverlay(at, layers)
           /\ direct' = direct \ {at} /\ UNCHANGED shallow
  <2>1. direct \subseteq direct' \cup {at} /\ shallow' \subseteq shallow /\ \A e \in shallow : e \in shallow'
    BY <1>6
  <2> QED
    BY <1>1, <1>3, <1>5, <1>6, <2>1, MountOverlayList
<1> QED
  BY <1>4, <1>6, FailList

(* An overlay that needed a place (mount_overlay_files). *)
LEMMA MountShallowList == OwnersInv /\ ListInv /\ MountShallow => ListInv'
<1> SUFFICES ASSUME OwnersInv, ListInv, MountShallow PROVE ListInv'
  OBVIOUS
<1> DEFINE ats == {e.at : e \in shallow}
           at == CHOOSE t \in ats : \A u \in ats \ {t} : RelBefore(t, u)
           own == {e \in shallow : e.at = at}
           layers == ShallowLayers(plan, own)
           L == LayoutOf(input)
<1>1. /\ pc = "mount" /\ IsDevice(input.device) /\ AreDirectories(input.dirs)
      /\ plan = PlanOf(input) /\ shallow # {} /\ ShallowOk(L, plan.tree, shallow)
  BY DEF OwnersInv, ViewInv, MountShallow
<1>2. PlanOk(L, plan)
  BY <1>1, PlanType
<1>3. ats \in SUBSET Paths /\ ats # {}
  BY <1>1 DEF ShallowOk
<1>4. IsFiniteSet(ats)
  <2> DEFINE f == [e \in shallow |-> e.at]
  <2>1. \A t \in ats : \E e \in shallow : t = f[e]
    OBVIOUS
  <2>2. IsFiniteSet(shallow)
    BY <1>1 DEF ShallowOk
  <2> HIDE DEF f, ats
  <2> QED
    BY <2>1, <2>2, FiniteImage
<1> HIDE DEF ats
<1>5. at \in Paths
  BY <1>3, <1>4, FirstPath
<1>6. \/ /\ ChildrenSurvive(layers, at, mounted, view) /\ MountOverlay(at, layers)
         /\ shallow' = shallow \ own /\ UNCHANGED direct
      \/ Fail
  BY DEF MountShallow, ats
<1> HIDE DEF at
<1>7. layers \in Seq(Fitting(at, FromOverlays(plan)))
  <2>1. EntrySet(own)
    <3>1. IsFiniteSet(own)
      BY <1>1, FS_Subset DEF ShallowOk
    <3> QED
      BY <1>1, <3>1 DEF ShallowOk, EntrySet
  <2>2. ASSUME NEW e \in own
        PROVE  Layer(plan.tree, e.mod, e.rel, e.dest) \in Fitting(at, FromOverlays(plan))
    <3>1. e.rel \in Paths /\ e.dest \in Paths
      BY <1>1 DEF ShallowOk
    <3>2. e.mod \in ModulesOf(plan, "overlay")
      BY <1>1 DEF ListInv, MountList
    <3>3. Tree(plan.tree)
      BY <1>2 DEF PlanOk, TreeOk
    <3> QED
      BY <1>5, <3>1, <3>2, <3>3, LayerFrom
  <2> HIDE DEF own
  <2> QED
    BY <2>1, <2>2, ShallowLayersType
<1> HIDE DEF layers
<1>8. CASE /\ ChildrenSurvive(layers, at, mounted, view) /\ MountOverlay(at, layers)
           /\ shallow' = shallow \ own /\ UNCHANGED direct
  <2>1. direct \subseteq direct' \cup {at} /\ shallow' \subseteq shallow
        /\ \A e \in shallow : e.at = at \/ e \in shallow'
    BY <1>8
  <2> QED
    BY <1>1, <1>5, <1>7, <1>8, <2>1, MountOverlayList
<1> QED
  BY <1>6, <1>8, FailList

(* What is mounted for a Magic source is counted for its module (MagicMount::do_mount). *)
LEMMA MagicNodeMade ==
  ASSUME NEW L, NEW pl, TreeOk(L, pl.tree), NEW seen, NEW p \in MagicNodes(pl.tree),
         FileTypeFor(pl.tree, "magic", p) # "dir"
  PROVE  /\ p \in Paths \ {<< >>} /\ MagicNode(pl.tree, p) \in Nodes
         /\ MagicNode(pl.tree, p).from.mod \in MagicSuccesses(pl.tree, seen) \cap ModulesOf(pl, "magic")
<1> DEFINE T == pl.tree
           own == Of(At(T, p), "magic")
           top == Topmost(own)
<1>1. p \in Paths \ {<< >>} /\ HasBackend(T, "magic", p)
  BY MagicNodesType
<1>2. own # {}
  BY <1>1 DEF FileTypeFor, SourceFor
<1>3. SourceSet(own) /\ own \subseteq Of(T, "magic")
  <2>1. own \in SUBSET T /\ own \subseteq Of(T, "magic")
    BY DEF Of, At
  <2> HIDE DEF own
  <2> QED
    BY <2>1, SourceSubset DEF TreeOk, Tree
<1>4. SourceFor(T, "magic", p) = {top} /\ MagicNode(T, p) = SourceNode(top)
  BY <1>2 DEF SourceFor, MagicNode
<1>5. top \in own
  <2> HIDE DEF own
  <2> QED BY <1>2, <1>3, TopmostType
<1>6. top \in Of(T, "magic")
  <2> HIDE DEF own, top
  <2> QED BY <1>3, <1>5
<1>7. p \notin MagicDirs(T)
  <2> SUFFICES ASSUME MagicDir(T, p) PROVE FALSE
    BY <1>1 DEF MagicDirs
  <2>1. Len(p) \in 0..Len(p) /\ SubSeq(p, 1, Len(p)) = p
    BY <1>1, LenType DEF Paths
  <2>2. FileTypeFor(T, "magic", SubSeq(p, 1, Len(p))) = "dir"
    BY <2>1 DEF MagicDir
  <2> QED
    BY <2>1, <2>2
<1> HIDE DEF top, own
<1>8. top.mod \in MagicSuccesses(T, seen)
  <2> DEFINE N == MagicMoved(T, seen) \cup (MagicNodes(T) \ MagicDirs(T))
             U == UNION {SourceFor(T, "magic", n) : n \in N}
  <2>1. p \in N
    BY <1>7
  <2> HIDE DEF N
  <2>2. top \in U
    BY <1>4, <2>1
  <2>3. MagicSuccesses(T, seen) = {s.mod : s \in U}
    BY DEF MagicSuccesses, N
  <2> HIDE DEF U
  <2> QED
    BY <2>2, <2>3
<1>9. top.mod \in ModulesOf(pl, "magic")
  BY <1>6, OverlayOwners
<1>10. SourceNode(top) \in Nodes /\ SourceNode(top).from.mod = top.mod
  BY <1>6, SourceNodeType DEF TreeOk, Of, SourceNode
<1> QED
  BY <1>1, <1>4, <1>8, <1>9, <1>10

(* What Magic mounts leave is of the overlays or of a module they were made for. *)
LEMMA MagicFrom ==
  ASSUME NEW L, NEW pl, TreeOk(L, pl.tree), NEW seen \in Fitting(<< >>, FromOverlays(pl))
  PROVE  MagicView(pl.tree, seen) \in Fitting(<< >>, FromMounts(pl, MagicSuccesses(pl.tree, seen)))
<1> DEFINE T == pl.tree
           G == FromMounts(pl, MagicSuccesses(T, seen))
           nodes    == MagicNodes(T)
           type(p)  == FileTypeFor(T, "magic", p)
           built(p) == InTmpfs(T, seen, Front(p))
           paths    == {p \in nodes : IF built(p) THEN type(p) # "whiteout" ELSE p \in DOMAIN seen} \cup
                       {p \in DOMAIN seen \ nodes : Mirrored(T, p)}
           v == MagicView(T, seen)
<1>1. v = [p \in paths |-> IF p \notin nodes \/ (~built(p) /\ type(p) # "file") THEN seen[p]
                           ELSE MagicNode(T, p)]
  BY DEF MagicView
<1>2. ASSUME NEW p \in paths
      PROVE  p \in Paths \ {<< >>} /\ v[p] \in Nodes /\ <<p, v[p]>> \in G
  <2>1. CASE p \notin nodes \/ (~built(p) /\ type(p) # "file")
    <3>1. p \in DOMAIN seen /\ v[p] = seen[p]
      BY <1>1, <2>1
    <3>2. p \in Paths \ {<< >>} /\ seen[p] \in Nodes /\ <<p, seen[p]>> \in FromOverlays(pl)
      BY <3>1, SeenElim
    <3> QED
      BY <3>1, <3>2 DEF FromMounts
  <2>2. CASE ~(p \notin nodes \/ (~built(p) /\ type(p) # "file"))
    <3>1. p \in nodes /\ v[p] = MagicNode(T, p)
      BY <1>1, <2>2
    <3>2. CASE type(p) = "dir"
      <4>1. v[p] = Dir
        BY <3>1, <3>2 DEF MagicNode
      <4>2. p \in Paths \ {<< >>}
        BY <3>1, MagicNodesType
      <4>3. <<p, Dir>> \in FromOverlays(pl)
        BY <4>2, FromOverlaysType DEF Leading
      <4> QED
        BY <4>1, <4>2, <4>3, NodeTypes DEF FromMounts
    <3>3. CASE type(p) # "dir"
      <4>1. /\ p \in Paths \ {<< >>} /\ v[p] \in Nodes
            /\ v[p].from.mod \in MagicSuccesses(T, seen) \cap ModulesOf(pl, "magic")
        BY <3>1, <3>3, MagicNodeMade
      <4> QED
        BY <4>1 DEF FromMounts
    <3> QED
      BY <3>2, <3>3
  <2> QED
    BY <2>1, <2>2
<1>3. DOMAIN v = paths /\ v = [p \in DOMAIN v |-> v[p]]
  BY <1>1
<1> HIDE DEF v, paths, G
<1>4. v \in Fitting(<< >>, G)
  BY <1>2, <1>3, SeenIntro
<1> QED
  BY <1>4 DEF v, G

(* Magic mounts (magic_mount). *)
LEMMA MountMagicList == OwnersInv /\ ListInv /\ MountMagic => ListInv'
<1> SUFFICES ASSUME OwnersInv, ListInv, MountMagic PROVE ListInv'
  OBVIOUS
<1> DEFINE L == LayoutOf(input)
           T == plan.tree
           ids == MagicSuccesses(T, view)
           N == made.mounts \cup MagicTargets(T, view)
<1>1. /\ pc = "mount" /\ direct = {} /\ shallow = {} /\ MountList
      /\ IsDevice(input.device) /\ AreDirectories(input.dirs) /\ plan = PlanOf(input)
  BY DEF OwnersInv, ViewInv, ListInv, MountMagic
<1>2. TreeOk(L, T)
  BY <1>1, PlanType DEF PlanOk
<1>3. \/ /\ base' = MagicView(T, view) /\ pc' = "inject"
         /\ made' = [made EXCEPT !.magic = MagicTargets(T, view), !.mounts = N, !.ids = ids]
         /\ UNCHANGED <<input, plan>>
      \/ Fail
  BY DEF MountMagic
<1>4. CASE /\ base' = MagicView(T, view) /\ pc' = "inject"
           /\ made' = [made EXCEPT !.magic = MagicTargets(T, view), !.mounts = N, !.ids = ids]
           /\ UNCHANGED <<input, plan>>
  <2>1. MagicView(T, view) \in Fitting(<< >>, FromMounts(plan, ids))
    BY <1>1, <1>2, MagicFrom DEF MountList
  <2> HIDE DEF ids, N
  <2>2. made'.ids = ids /\ made'.overlay = made.overlay
    BY <1>4 DEF OwnersInv, MadeInv
  <2>3. Aims(plan, input.device) \subseteq made.overlay
    BY <1>1 DEF MountList
  <2> QED
    BY <1>4, <2>1, <2>2, <2>3 DEF ListInv, BaseList
<1> QED
  BY <1>3, <1>4, FailList

(* The provider with or without its rules (apply_vfs_phase). *)
LEMMA ApplyRulesList == OwnersInv /\ ListInv /\ ApplyRules => ListInv'
<1> SUFFICES ASSUME OwnersInv, ListInv, ApplyRules PROVE ListInv'
  OBVIOUS
<1> DEFINE L == LayoutOf(input)
           batch == VfsRules(plan.tree)
           ids == ModulesOf(plan, "vfs")
<1>1. /\ pc = "inject" /\ BaseList /\ rules = {}
      /\ IsDevice(input.device) /\ AreDirectories(input.dirs) /\ plan = PlanOf(input)
  BY DEF OwnersInv, ViewInv, MadeInv, ListInv, ApplyRules
<1>2. TreeOk(L, plan.tree)
  BY <1>1, PlanType DEF PlanOk
<1>3. \A r \in batch : r.mod \in ids
  <2>1. \A s \in Of(plan.tree, "vfs") : s.mod \in ids
    BY OverlayOwners
  <2> HIDE DEF ids
  <2> QED
    BY <1>2, <2>1, VfsRuleOwners DEF RuleSet
<1> HIDE DEF batch, ids
<1>4. CASE RulesTaken
  <2>1. /\ made' = [made EXCEPT !.ids = @ \cup ids] /\ pc' = "done" /\ rules' = batch
        /\ input' = input /\ plan' = plan /\ base' = base
    BY <1>4 DEF RulesTaken, batch, ids
  <2>2. made'.ids = made.ids \cup ids /\ made'.overlay = made.overlay
    BY <2>1 DEF OwnersInv, MadeInv
  <2>3. RulesList'
    BY <1>3, <2>1, <2>2 DEF RulesList, ids
  <2>4. base \in Fitting(<< >>, FromMounts(plan, made.ids \cup ids))
    <3>1. FromMounts(plan, made.ids) \subseteq FromMounts(plan, made.ids \cup ids)
      BY DEF FromMounts
    <3> QED
      BY <1>1, <3>1 DEF BaseList, Fitting
  <2>5. BaseList'
    BY <1>1, <2>1, <2>2, <2>4 DEF BaseList
  <2> QED
    BY <2>1, <2>3, <2>5 DEF ListInv
<1>5. CASE ProviderLeftOut
  <2>1. pc' = "done" /\ UNCHANGED <<input, plan, made, base, rules>>
    BY <1>5 DEF ProviderLeftOut, provider
  <2> QED
    BY <1>1, <2>1 DEF ListInv, BaseList, RulesList
<1> QED
  BY <1>4, <1>5, FailList DEF ApplyRules

-----------------------------------------------------------------------------
(* The list of modules *)

(* The table of the modules: a row for each, and no two for one. *)
Rows(rows) ==
  /\ \A r \in rows : r = [id |-> r.id, mode |-> r.mode, mounted |-> r.mounted, enabled |-> r.enabled]
  /\ \A r, q \in rows : r.id = q.id => r = q

(* The rows of some modules (app_modules). *)
LEMMA AppRows ==
  ASSUME NEW M, \A m, n \in M : m.id = n.id => m = n, NEW cfg, NEW p, NEW ids
  PROVE  /\ Rows(AppModules(M, cfg, p, ids))
         /\ \A m \in M : \E r \in AppModules(M, cfg, p, ids) :
              /\ r.id = m.id
              /\ r.mounted = (m.id \in ids \ cfg.blacklist)
         /\ \A r \in AppModules(M, cfg, p, ids) :
              (\E m \in M : r.id = m.id) /\ r.mounted = (r.id \in ids \ cfg.blacklist)
<1> DEFINE row(m) == [id |-> m.id, mode |-> ModeOf(p, cfg, m.id),
                      mounted |-> m.id \in ids \ cfg.blacklist,
                      enabled |-> ~m.disabled /\ m.id \notin cfg.blacklist]
           A == AppModules(M, cfg, p, ids)
<1>1. A = {row(m) : m \in M}
  BY DEF AppModules
<1>2. ASSUME NEW m
      PROVE  /\ row(m) = [id |-> row(m).id, mode |-> row(m).mode, mounted |-> row(m).mounted,
                          enabled |-> row(m).enabled]
             /\ row(m).id = m.id /\ row(m).mounted = (m.id \in ids \ cfg.blacklist)
  OBVIOUS
<1> HIDE DEF row, A
<1>3. Rows(A)
  BY <1>1, <1>2 DEF Rows
<1>4. \A m \in M : \E r \in A : r.id = m.id /\ r.mounted = (m.id \in ids \ cfg.blacklist)
  BY <1>1, <1>2
<1>5. \A r \in A : (\E m \in M : r.id = m.id) /\ r.mounted = (r.id \in ids \ cfg.blacklist)
  BY <1>1, <1>2
<1> QED
  BY <1>3, <1>4, <1>5 DEF A

(* A module that a backend was given something of is listed, if it took effect. *)
LEMMA PlannedRow ==
  ASSUME IsDevice(input.device), AreDirectories(input.dirs), plan = PlanOf(input),
         NEW s \in plan.tree, NEW ids, s.mod \in ids
  PROVE  \E r \in AppModules(InstalledIn(input.dirs, LayoutOf(input)), input.cfg, plan, ids) :
           r.id = s.mod /\ r.mounted = TRUE
<1> DEFINE L == LayoutOf(input)
           M == ListModules(input.dirs, ScanNames(L))
           T == plan.tree
<1>1. LayoutOk(L)
  BY PlanType
<1>2. T = BuildPlan(input.cfg, input.vfs, L, M).tree
  BY DEF PlanOf
<1>3. ModulesOk(M)
  <2> HIDE DEF L
  <2> QED BY ModulesType
<1>4. InstalledIn(input.dirs, L) = M
  BY DEF InstalledIn
<1> HIDE DEF L, M, T
<1>5. PICK m \in Planned(input.cfg, M) : s.mod = m.id
  BY <1>1, <1>2, <1>3, BuildPlanType DEF T
<1>6. m \in M /\ m.id \notin input.cfg.blacklist
  BY <1>5 DEF Planned
<1>7. \A a, b \in M : a.id = b.id => a = b
  BY <1>3 DEF ModulesOk
<1>8. PICK r \in AppModules(M, input.cfg, plan, ids) :
        r.id = m.id /\ r.mounted = (m.id \in ids \ input.cfg.blacklist)
  BY <1>6, <1>7, AppRows
<1>9. m.id \in ids \ input.cfg.blacklist
  BY <1>5, <1>6
<1>10. r.mounted = TRUE
  BY <1>8, <1>9
<1> QED
  BY <1>4, <1>5, <1>8, <1>10 DEF L

(* What the report counts for a target that was mounted
   (mounted_module_ids_for_snapshot). *)
LEMMA CountedAt ==
  ASSUME NEW p, NEW overlay, NEW magic, NEW t \in overlay, NEW s \in Of(p.tree, "overlay"),
         s.target = t \/ (IsPrefix(t, s.target) /\ \E f \in p.files : f.target = t)
  PROVE  s.mod \in MountedModuleIds(p, overlay, magic)
<1> DEFINE filed == overlay \cap {f.target : f \in p.files}
           A == UNION {ModuleIdsForSubtree(p.tree, "overlay", u) : u \in filed}
           B == UNION {ModuleIdsForTarget(p.tree, "overlay", u) : u \in overlay \ filed}
<1>1. A \cup B \subseteq MountedModuleIds(p, overlay, magic)
  BY DEF MountedModuleIds
<1>2. s.target = t => s.mod \in ModuleIdsForTarget(p.tree, "overlay", t)
  BY DEF ModuleIdsForTarget, Of, At
<1>3. IsPrefix(t, s.target) => s.mod \in ModuleIdsForSubtree(p.tree, "overlay", t)
  <2>1. CASE s.target = t
    BY <1>2, <2>1 DEF ModuleIdsForSubtree
  <2>2. CASE IsStrictPrefix(t, s.target)
    <3>1. s \in Of(Below(p.tree, t), "overlay")
      BY <2>2 DEF Of, Below
    <3> QED
      BY <3>1 DEF ModuleIdsForSubtree
  <2> QED
    BY <2>1, <2>2 DEF IsStrictPrefix
<1>4. CASE t \in filed
  <2>1. s.mod \in ModuleIdsForSubtree(p.tree, "overlay", t)
    BY <1>2, <1>3 DEF ModuleIdsForSubtree
  <2>2. s.mod \in A
    BY <1>4, <2>1
  <2> QED
    BY <1>1, <2>2
<1>5. CASE t \notin filed
  <2>1. s.mod \in ModuleIdsForTarget(p.tree, "overlay", t)
    BY <1>2, <1>5
  <2>2. s.mod \in B
    BY <1>5, <2>1
  <2> QED
    BY <1>1, <2>2
<1> QED
  BY <1>4, <1>5

(* A module of which an overlay shows a file is counted, or the report does not find it. *)
LEMMA OverlayCounted ==
  ASSUME IsDevice(input.device), AreDirectories(input.dirs), plan = PlanOf(input), NEW overlay, NEW magic,
         Aims(plan, input.device) \subseteq overlay,
         NEW s \in Of(plan.tree, "overlay"), NEW from, from = [mod |-> s.mod, rel |-> s.rel],
         ~NotLookedFor(from)
  PROVE  s.mod \in MountedModuleIds(plan, overlay, magic)
<1> DEFINE L == LayoutOf(input)
           M == ListModules(input.dirs, ScanNames(L))
           T == plan.tree
           here(l) == PlaceOf(Stock(input.device), l.target).rest = << >>
<1>1. LayoutOk(L)
  BY PlanType
<1>2. plan = BuildPlan(input.cfg, input.vfs, L, M)
  BY DEF PlanOf
<1>3. ModulesOk(M)
  <2> HIDE DEF L
  <2> QED BY ModulesType
<1>4. from.mod = s.mod
  OBVIOUS
<1>5. \/ \E l \in plan.layers : l.mod = s.mod /\ here(l)
      \/ \E f \in plan.files : /\ f.mod = s.mod /\ here(f)
                               /\ \A t \in T : t.mod = f.mod /\ t.rel = f.rel => ~Stray(L, T, t)
  BY <1>4 DEF NotLookedFor, Astray
<1>6. \A l \in plan.layers \cup plan.files : here(l) => l.target \in overlay
  BY DEF Aims
<1> HIDE DEF L, M, here, T
<1>7. /\ \A l \in plan.layers : Found(T, l)
      /\ \A f \in plan.files : FoundBelow(L, T, T, f)
  BY <1>1, <1>2, <1>3, PlanFound DEF T
<1>8. CASE \E l \in plan.layers : l.mod = s.mod /\ here(l)
  <2>1. PICK l \in plan.layers : l.mod = s.mod /\ here(l)
    BY <1>8
  <2>2. PICK d \in Of(T, "overlay") : d.mod = l.mod /\ d.target = l.target
    BY <1>7 DEF Found
  <2>3. d.mod \in MountedModuleIds(plan, overlay, magic)
    BY <1>6, <2>1, <2>2, CountedAt DEF T
  <2> QED
    BY <2>1, <2>2, <2>3
<1>9. CASE \E f \in plan.files : /\ f.mod = s.mod /\ here(f)
                                 /\ \A t \in T : t.mod = f.mod /\ t.rel = f.rel => ~Stray(L, T, t)
  <2>1. PICK f \in plan.files : /\ f.mod = s.mod /\ here(f)
                                /\ \A t \in T : t.mod = f.mod /\ t.rel = f.rel => ~Stray(L, T, t)
    BY <1>9
  <2>2. PICK d \in Of(T, "overlay") :
          d.mod = f.mod /\ d.rel = f.rel /\ (IsPrefix(f.target, d.target) \/ Stray(L, T, d))
    BY <1>7 DEF FoundBelow
  <2>3. d \in T
    BY DEF Of
  <2>4. IsPrefix(f.target, d.target)
    BY <2>1, <2>2, <2>3
  <2>5. d.mod \in MountedModuleIds(plan, overlay, magic)
    BY <1>6, <2>1, <2>4, CountedAt DEF T
  <2> QED
    BY <2>1, <2>2, <2>5
<1> QED
  BY <1>5, <1>8, <1>9

(* A committed boot reports what it mounted (scan.ret). *)
LEMMA CommitList == OwnersInv /\ ListInv /\ Commit => ListInv'
<1> SUFFICES ASSUME OwnersInv, ListInv, Commit PROVE ListInv'
  OBVIOUS
<1> DEFINE counted == made.ids \cup MountedModuleIds(plan, made.overlay, made.magic)
           rows == AppModules(InstalledIn(input.dirs, LayoutOf(input)), input.cfg, plan, counted)
           later(mod) == \E r \in ledger'.modules : r.id = mod /\ r.mounted = TRUE
<1>1. /\ pc = "done" /\ pc' = "ready" /\ BaseList /\ RulesList
      /\ IsDevice(input.device) /\ AreDirectories(input.dirs) /\ plan = PlanOf(input)
  BY DEF OwnersInv, ViewInv, ListInv, Commit
<1>2. /\ ledger' = [non_vfs |-> NonVfsModules(plan), mounts |-> made.mounts, modules |-> rows, generation |-> 0]
      /\ UNCHANGED <<input, plan, base, rules>>
  BY DEF Commit, provider
<1>3. ledger'.modules = rows /\ ledger'.non_vfs = NonVfsModules(plan) /\ ledger'.generation = 0
  BY <1>2
<1>4. Rows(rows)
  <2>1. ModulesOk(InstalledIn(input.dirs, LayoutOf(input)))
    BY <1>1, ModulesType DEF InstalledIn
  <2> QED
    BY <2>1, AppRows DEF ModulesOk
<1>5. ASSUME NEW s \in plan.tree, s.mod \in counted PROVE later(s.mod)
  <2> HIDE DEF counted
  <2>1. \E r \in rows : r.id = s.mod /\ r.mounted = TRUE
    BY <1>1, <1>5, PlannedRow
  <2> QED
    BY <1>3, <2>1
<1> HIDE DEF rows
<1>6. ASSUME NEW p \in DOMAIN base, base[p].from.mod # 0, base[p].kind # "dir"
      PROVE  /\ base[p].from.mod \in ledger'.non_vfs
             /\ later(base[p].from.mod) \/ NotLookedFor(base[p].from)
  <2>1. <<p, base[p]>> \in FromMounts(plan, made.ids)
    BY <1>1, SeenElim DEF BaseList
  <2>2. CASE base[p].from.mod \in made.ids \cap ModulesOf(plan, "magic")
    <3>1. PICK s \in Of(plan.tree, "magic") : base[p].from.mod = s.mod
      BY <2>2, OverlayOwners
    <3>2. s \in plan.tree /\ s.mod \in counted
      BY <2>2, <3>1 DEF Of
    <3> QED
      BY <1>3, <1>5, <2>2, <3>1, <3>2 DEF NonVfsModules
  <2>3. CASE \E s \in Of(plan.tree, "overlay") :
               base[p].from = [mod |-> s.mod, rel |-> s.rel] /\ s.mod \in ModulesOf(plan, "overlay")
    <3>1. PICK s \in Of(plan.tree, "overlay") :
            base[p].from = [mod |-> s.mod, rel |-> s.rel] /\ s.mod \in ModulesOf(plan, "overlay")
      BY <2>3
    <3>2. base[p].from.mod = s.mod /\ s \in plan.tree
      BY <3>1 DEF Of
    <3>3. base[p].from.mod \in ledger'.non_vfs
      BY <1>3, <3>1, <3>2 DEF NonVfsModules
    <3>4. ASSUME ~NotLookedFor(base[p].from) PROVE s.mod \in counted
      <4> DEFINE from == base[p].from
                 overlay == made.overlay
                 magic == made.magic
      <4>1. from = [mod |-> s.mod, rel |-> s.rel] /\ ~NotLookedFor(from)
            /\ Aims(plan, input.device) \subseteq overlay
        BY <1>1, <3>1, <3>4 DEF BaseList
      <4> HIDE DEF from, overlay, magic
      <4>2. s.mod \in MountedModuleIds(plan, overlay, magic)
        BY <1>1, <4>1, OverlayCounted
      <4> QED
        BY <4>2 DEF overlay, magic
    <3> QED
      BY <1>5, <3>2, <3>3, <3>4
  <2> QED
    BY <1>6, <2>1, <2>2, <2>3 DEF FromMounts, FromOverlays
<1>7. ASSUME NEW r \in rules PROVE later(r.mod)
  <2>1. r.mod \in made.ids \cap ModulesOf(plan, "vfs")
    BY <1>1 DEF RulesList
  <2>2. PICK s \in Of(plan.tree, "vfs") : r.mod = s.mod
    BY <2>1, OverlayOwners
  <2>3. s \in plan.tree /\ s.mod \in counted
    BY <2>1, <2>2 DEF Of
  <2> QED
    BY <1>5, <2>2, <2>3
<1> HIDE DEF counted
<1>8. ReadyList'
  <2>1. \A from : NotLookedFor(from) => NotLookedFor(from)'
    BY <1>2 DEF NotLookedFor, Astray
  <2>2. \A p \in DOMAIN base' : base'[p].from.mod # 0 /\ base'[p].kind # "dir" =>
          /\ base'[p].from.mod \in ledger'.non_vfs
          /\ later(base'[p].from.mod) \/ NotLookedFor(base[p].from)'
    BY <1>2, <1>6, <2>1
  <2>3. \A r \in rules' : later(r.mod)
    BY <1>2, <1>7
  <2>4. ~(ledger'.generation > 0)
    BY <1>3
  <2> QED
    BY <1>3, <1>4, <2>2, <2>3, <2>4 DEF ReadyList, Rows, Listed
<1> QED
  BY <1>1, <1>8 DEF ListInv

(* The rows after an operation on a module: those of the others, and one for it if it
   has rules now. *)
NewRows(id, after, rows) ==
  /\ Rows(rows)
  /\ \A r \in ledger.modules : r.id # id => r \in rows
  /\ after # {} => \E r \in rows : r.id = id

(* What an operation makes of the table: rows of modules that are mounted stay, and of the
   others those are mounted that have rules. *)
RefreshedWell(rows, table) ==
  /\ Rows(Refreshed(rows, table))
  /\ \A r \in rows : r.id \in ledger.non_vfs => r \in Refreshed(rows, table)
  /\ \A r \in rows : r.id \notin ledger.non_vfs /\ (\E o \in table : o.mod = r.id) =>
       \E q \in Refreshed(rows, table) : q.id = r.id /\ q.mounted = TRUE
  /\ \A q \in Refreshed(rows, table) :
       q.mounted = TRUE /\ q.id \notin ledger.non_vfs => \E o \in table : o.mod = q.id

(* The row of a module after an operation (refresh_modules). *)
LEMMA RefreshedRows ==
  ASSUME NEW rows, Rows(rows), NEW table
  PROVE  RefreshedWell(rows, table)
<1> DEFINE used(r) == \E o \in table : o.mod = r.id
           f(r) == IF r.id \in ledger.non_vfs THEN r ELSE [r EXCEPT !.mounted = used(r)]
           F == Refreshed(rows, table)
<1>1. F = {f(r) : r \in rows}
  BY DEF Refreshed
<1>2. \A r : used(r) => (\E o \in table : o.mod = r.id) /\ used(r) = TRUE
  OBVIOUS
<1>3. \A r : (\E o \in table : o.mod = r.id) => used(r)
  OBVIOUS
<1> HIDE DEF used, F
<1>4. ASSUME NEW r \in rows
      PROVE  /\ f(r).id = r.id
             /\ f(r) = [id |-> f(r).id, mode |-> f(r).mode, mounted |-> f(r).mounted, enabled |-> f(r).enabled]
             /\ r.id \in ledger.non_vfs => f(r) = r
             /\ r.id \notin ledger.non_vfs => f(r).mounted = used(r)
  <2>1. r = [id |-> r.id, mode |-> r.mode, mounted |-> r.mounted, enabled |-> r.enabled]
    BY DEF Rows
  <2>2. CASE r.id \in ledger.non_vfs
    BY <2>1, <2>2
  <2>3. CASE r.id \notin ledger.non_vfs
    <3> DEFINE new == [r EXCEPT !.mounted = used(r)]
    <3>1. new = [id |-> r.id, mode |-> r.mode, mounted |-> used(r), enabled |-> r.enabled]
      BY <2>1
    <3>2. /\ new.id = r.id /\ new.mounted = used(r)
          /\ new = [id |-> new.id, mode |-> new.mode, mounted |-> new.mounted, enabled |-> new.enabled]
      BY <3>1
    <3> HIDE DEF new
    <3>3. f(r) = new
      BY <2>3 DEF new
    <3> QED
      BY <2>3, <3>2, <3>3
  <2> QED
    BY <2>2, <2>3
<1> HIDE DEF f
<1>5. Rows(F)
  <2>1. \A a \in F : \E r \in rows : a = f(r)
    BY <1>1
  <2>2. \A a \in F : a = [id |-> a.id, mode |-> a.mode, mounted |-> a.mounted, enabled |-> a.enabled]
    BY <1>4, <2>1
  <2>3. \A a, b \in F : a.id = b.id => a = b
    BY <1>4, <2>1 DEF Rows
  <2> QED
    BY <2>2, <2>3 DEF Rows
<1>6. \A r \in rows : r.id \in ledger.non_vfs => r \in F
  BY <1>1, <1>4
<1>7. ASSUME NEW r \in rows, r.id \notin ledger.non_vfs, \E o \in table : o.mod = r.id
      PROVE  \E q \in F : q.id = r.id /\ q.mounted = TRUE
  <2>1. f(r) \in F
    BY <1>1
  <2>2. used(r)
    BY <1>3, <1>7
  <2>3. f(r).mounted = TRUE
    BY <1>2, <1>4, <1>7, <2>2
  <2> QED
    BY <1>4, <2>1, <2>3
<1>8. ASSUME NEW q \in F, q.mounted = TRUE, q.id \notin ledger.non_vfs
      PROVE  \E o \in table : o.mod = q.id
  <2>1. PICK r \in rows : q = f(r)
    BY <1>1
  <2>2. r.id = q.id
    BY <1>4, <2>1
  <2>3. used(r)
    BY <1>4, <1>8, <2>1, <2>2
  <2> QED
    BY <1>2, <2>2, <2>3
<1> QED
  BY <1>5, <1>6, <1>7, <1>8 DEF F, RefreshedWell

(* An operation on one module reports the others as they were. *)
LEMMA ReconcileList ==
  ASSUME OwnersInv, ListInv, pc = "ready", NEW id, id \notin ledger.non_vfs,
         NEW after, RuleSet({id}, after), NEW rows, NewRows(id, after, rows),
         Reconcile(RulesOf(id), after, rows)
  PROVE  ListInv'
<1> DEFINE S == (rules \ RulesOf(id)) \cup after
           F == Refreshed(rows, S)
           later(mod) == \E r \in F : r.id = mod /\ r.mounted = TRUE
<1>1. ReadyList
  BY DEF ListInv
<1>2. /\ rules' = S /\ UNCHANGED <<input, pc, plan, base>>
      /\ ledger' = [ledger EXCEPT !.generation = @ + 1, !.modules = F]
  BY DEF Reconcile
<1>3. /\ ledger'.modules = F /\ ledger'.non_vfs = ledger.non_vfs
      /\ ledger'.generation = ledger.generation + 1
  BY <1>2 DEF OwnersInv, MadeInv
<1>4. /\ \A o \in S : o.mod = id => o \in after
      /\ \A o \in S : o.mod # id => o \in rules
  BY DEF RulesOf, RuleSet
<1>5. /\ Rows(F)
      /\ \A r \in rows : r.id \in ledger.non_vfs => r \in F
      /\ \A r \in rows : r.id \notin ledger.non_vfs /\ (\E o \in S : o.mod = r.id) => later(r.id)
      /\ \A q \in F : q.mounted = TRUE /\ q.id \notin ledger.non_vfs => \E o \in S : o.mod = q.id
  <2> HIDE DEF S
  <2>1. Rows(rows)
    BY DEF NewRows
  <2>2. RefreshedWell(rows, S)
    BY <2>1, RefreshedRows
  <2> QED
    BY <2>2 DEF RefreshedWell
<1> HIDE DEF S, F
<1>6. ASSUME NEW mod, mod \in ledger.non_vfs, Listed(mod) PROVE later(mod)
  <2>1. PICK r \in ledger.modules : r.id = mod /\ r.mounted = TRUE
    BY <1>6 DEF Listed
  <2>2. r \in rows
    BY <1>6, <2>1 DEF NewRows
  <2> QED
    BY <1>5, <1>6, <2>1, <2>2
<1>7. ASSUME NEW o \in S PROVE later(o.mod)
  <2>1. PICK r \in rows : r.id = o.mod /\ (r.id \in ledger.non_vfs => r.mounted = TRUE)
    <3>1. CASE o.mod = id
      <4>1. o \in after
        BY <1>4, <3>1
      <4>2. PICK r \in rows : r.id = id
        BY <4>1 DEF NewRows
      <4> QED
        BY <3>1, <4>2
    <3>2. CASE o.mod # id
      <4>1. Listed(o.mod)
        BY <1>1, <1>4, <3>2 DEF ReadyList
      <4>2. PICK r \in ledger.modules : r.id = o.mod /\ r.mounted = TRUE
        BY <4>1 DEF Listed
      <4> QED
        BY <3>2, <4>2 DEF NewRows
    <3> QED
      BY <3>1, <3>2
  <2>2. CASE r.id \in ledger.non_vfs
    BY <1>5, <2>1, <2>2
  <2>3. CASE r.id \notin ledger.non_vfs
    BY <1>5, <2>1, <2>3
  <2> QED
    BY <2>2, <2>3
<1>8. ASSUME NEW p \in DOMAIN base, base[p].from.mod # 0, base[p].kind # "dir"
      PROVE  /\ base[p].from.mod \in ledger.non_vfs
             /\ later(base[p].from.mod) \/ NotLookedFor(base[p].from)
  <2>1. /\ base[p].from.mod \in ledger.non_vfs
        /\ Listed(base[p].from.mod) \/ NotLookedFor(base[p].from)
    BY <1>1, <1>8 DEF ReadyList
  <2> QED
    BY <1>6, <2>1
<1>9. \A r \in F : r.mounted = TRUE => r.id \in BootOwned'
  BY <1>2, <1>3, <1>5 DEF BootOwned
<1>10. ReadyList'
  <2>1. \A from : NotLookedFor(from) => NotLookedFor(from)'
    BY <1>2 DEF NotLookedFor, Astray
  <2>2. \A p \in DOMAIN base' : base'[p].from.mod # 0 /\ base'[p].kind # "dir" =>
          /\ base'[p].from.mod \in ledger'.non_vfs
          /\ later(base'[p].from.mod) \/ NotLookedFor(base[p].from)'
    BY <1>2, <1>3, <1>8, <2>1
  <2>3. \A r \in rules' : later(r.mod)
    BY <1>2, <1>7
  <2> QED
    BY <1>3, <1>5, <1>9, <2>2, <2>3 DEF ReadyList, Rows, Listed
<1> QED
  BY <1>2, <1>10 DEF ListInv

(* The rows that an operation starts from (load puts one in place of the module's own). *)
LEMMA InstalledRows ==
  ASSUME ReadyList, NEW m, NEW cfg, NEW p, NEW after, NEW own,
         own = {r \in ledger.modules : r.id = m.id}
  PROVE  NewRows(m.id, after, (ledger.modules \ own) \cup AppModules({m}, cfg, p, {m.id}))
<1> DEFINE ids == {m.id}
           A == AppModules({m}, cfg, p, ids)
           kept == ledger.modules \ own
           rows == kept \cup A
<1>1. /\ Rows(A)
      /\ \E r \in A : r.id = m.id
      /\ \A r \in A : r.id = m.id
  <2> DEFINE M == {m}
  <2>1. /\ \A a, b \in M : a.id = b.id => a = b
        /\ m \in M /\ \A n \in M : n = m
        /\ A = AppModules(M, cfg, p, ids)
    OBVIOUS
  <2> HIDE DEF ids, M, A
  <2>2. Rows(AppModules(M, cfg, p, ids))
    BY <2>1, AppRows
  <2>3. \E r \in AppModules(M, cfg, p, ids) : r.id = m.id
    BY <2>1, AppRows
  <2>4. \A r \in AppModules(M, cfg, p, ids) : \E n \in M : r.id = n.id
    BY <2>1, AppRows
  <2> QED
    BY <2>1, <2>2, <2>3, <2>4
<1> HIDE DEF A, ids
<1>2. \A r \in kept : r \in ledger.modules /\ r.id # m.id
  OBVIOUS
<1>3. \A r \in ledger.modules : r.id # m.id => r \in kept
  OBVIOUS
<1> HIDE DEF kept
<1>4. Rows(rows)
  <2>1. \A r \in rows : r = [id |-> r.id, mode |-> r.mode, mounted |-> r.mounted, enabled |-> r.enabled]
    BY <1>1, <1>2 DEF Rows, ReadyList
  <2>2. ASSUME NEW r \in rows, NEW q \in rows, r.id = q.id PROVE r = q
    <3>1. CASE r \in kept /\ q \in kept
      BY <1>2, <2>2, <3>1 DEF ReadyList
    <3>2. CASE r \in A /\ q \in A
      BY <1>1, <2>2, <3>2 DEF Rows
    <3>3. CASE r \in kept /\ q \in A
      BY <1>1, <1>2, <2>2, <3>3
    <3>4. CASE r \in A /\ q \in kept
      BY <1>1, <1>2, <2>2, <3>4
    <3> QED
      BY <3>1, <3>2, <3>3, <3>4
  <2> QED
    BY <2>1, <2>2 DEF Rows
<1>5. /\ \A r \in ledger.modules : r.id # m.id => r \in rows
      /\ \E r \in rows : r.id = m.id
  BY <1>1, <1>3
<1> HIDE DEF rows
<1>6. NewRows(m.id, after, rows)
  BY <1>4, <1>5 DEF NewRows
<1> QED
  BY <1>6 DEF rows, kept, A, ids

(* Load and reload put a row of the module in place of the one it had. *)
LEMMA InstallList == OwnersInv /\ ListInv /\ (Load \/ Reload) => ListInv'
<1> SUFFICES ASSUME OwnersInv, ListInv, Load \/ Reload PROVE ListInv'
  OBVIOUS
<1>1. pc = "ready" /\ ReadyList
  BY DEF Load, Reload, HotReady, ListInv
<1>2. PICK m \in InstalledIn(now.dirs, LayoutNow) : Install(m, LayoutNow)
  BY DEF Load, Reload
<1> DEFINE p == HotPlan(LayoutNow, m)
           after == VfsRules(p.tree)
           own == {r \in ledger.modules : r.id = m.id}
           rows == (ledger.modules \ own) \cup AppModules({m}, now.cfg, p, {m.id})
<1>3. RuleSet({m.id}, after)
  BY HotRules
<1>4. m.id \notin ledger.non_vfs /\ Reconcile(RulesOf(m.id), after, rows)
  BY <1>2 DEF Install, PlanHotModule
<1> DEFINE id == m.id
           cfg == now.cfg
<1> HIDE DEF p, after
<1>5. NewRows(id, after, rows)
  <2>1. own = {r \in ledger.modules : r.id = m.id}
    OBVIOUS
  <2> HIDE DEF own, cfg
  <2>2. NewRows(m.id, after, (ledger.modules \ own) \cup AppModules({m}, cfg, p, {m.id}))
    BY <1>1, <2>1, InstalledRows
  <2> QED
    BY <2>2 DEF cfg
<1> HIDE DEF rows, id
<1>6. RuleSet({id}, after) /\ id \notin ledger.non_vfs /\ Reconcile(RulesOf(id), after, rows)
  BY <1>3, <1>4 DEF id
<1> QED
  BY <1>1, <1>5, <1>6, ReconcileList

(* Unload leaves the rows. *)
LEMMA UnloadList == OwnersInv /\ ListInv /\ Unload => ListInv'
<1> SUFFICES ASSUME OwnersInv, ListInv, Unload PROVE ListInv'
  OBVIOUS
<1>1. pc = "ready" /\ ReadyList
  BY DEF Unload, HotReady, ListInv
<1>2. PICK id \in {r.mod : r \in rules} \ ledger.non_vfs : Reconcile(RulesOf(id), {}, ledger.modules)
  BY DEF Unload
<1> DEFINE rows == ledger.modules
           after == {}
<1>3. NewRows(id, after, rows) /\ RuleSet({id}, after)
  BY <1>1 DEF NewRows, Rows, ReadyList, RuleSet
<1>4. id \notin ledger.non_vfs /\ Reconcile(RulesOf(id), after, rows)
  BY <1>2
<1> HIDE DEF rows, after
<1> QED
  BY <1>1, <1>3, <1>4, ReconcileList

(* What the user changes is not of the boot. *)
LEMMA StillList ==
  ASSUME ListInv, UNCHANGED <<vars, ledger>>
  PROVE  ListInv'
<1>1. /\ input' = input /\ pc' = pc /\ plan' = plan /\ view' = view /\ made' = made
      /\ direct' = direct /\ shallow' = shallow /\ base' = base /\ rules' = rules
      /\ ledger' = ledger
  BY DEF vars, overlays, provider
<1>2. MountList => MountList'
  BY <1>1 DEF MountList
<1>3. BaseList => BaseList'
  BY <1>1 DEF BaseList
<1>4. RulesList => RulesList'
  BY <1>1 DEF RulesList
<1>5. ReadyList => ReadyList'
  BY <1>1 DEF ReadyList, Listed, NotLookedFor, Astray, BootOwned
<1> QED
  BY <1>1, <1>2, <1>3, <1>4, <1>5 DEF ListInv

(* Every step keeps the list. *)
LEMMA ListInductive == OwnersInv /\ ListInv /\ [HotNext]_hotVars => ListInv'
<1> SUFFICES ASSUME OwnersInv, ListInv, [HotNext]_hotVars PROVE ListInv'
  OBVIOUS
<1>1. CASE UNCHANGED hotVars
  <2>1. UNCHANGED <<vars, ledger>>
    BY <1>1 DEF hotVars
  <2> QED
    BY <2>1, StillList
<1>2. CASE Next
  <2>1. MakePlan => ListInv'
    BY MakePlanList DEF OwnersInv
  <2> QED
    BY <1>2, <2>1, FailList, MountDirectList, MountShallowList, MountMagicList, ApplyRulesList DEF Next
<1>3. CASE Commit
  BY <1>3, CommitList
<1>4. CASE Load \/ Reload \/ Unload
  BY <1>4, InstallList, UnloadList
<1>5. CASE Change
  <2>1. UNCHANGED <<vars, ledger>>
    BY <1>5 DEF Change
  <2> QED
    BY <2>1, StillList
<1> QED
  BY <1>1, <1>2, <1>3, <1>4, <1>5 DEF HotNext

(* Whatever is seen is of a module that the report counts, or of one that it does not
   find, from the targets that are mounted (mounted_module_ids_for_snapshot) to the rows
   that hot operations refresh (refresh_modules). *)
THEOREM ViewListed == HotSpec => []ListInv
<1>1. HotInit => ListInv
  BY DEF HotInit, Init, ListInv
<1> QED
  BY <1>1, OwnersInit, OwnersInductive, ListInductive, PTL DEF HotSpec

(* A row of the scan as it is answered: with what the ledger says of it. *)
Answered(r, a, b) == [r EXCEPT !.mode = a, !.mounted = b]

(* A row has its four fields. *)
IsRow(r) == r = [id |-> r.id, mode |-> r.mode, mounted |-> r.mounted, enabled |-> r.enabled]

(* A row has the fields it had when one is given a value. *)
LEMMA RowFields ==
  ASSUME NEW r, IsRow(r), NEW a, NEW b
  PROVE  LET n == Answered(r, a, b)
         IN  IsRow(n) /\ n.id = r.id /\ n.mounted = b
<1> DEFINE i == r.id
           m == r.mode
           t == r.mounted
           e == r.enabled
           q == [r EXCEPT !.mode = a]
<1>1. r = [id |-> i, mode |-> m, mounted |-> t, enabled |-> e]
  BY DEF IsRow
<1> HIDE DEF i, m, t, e
<1>2. q = [id |-> i, mode |-> a, mounted |-> t, enabled |-> e]
  BY <1>1
<1>3. Answered(r, a, b) = [q EXCEPT !.mounted = b]
  BY <1>1 DEF Answered
<1> HIDE DEF q
<1>4. [q EXCEPT !.mounted = b] = [id |-> i, mode |-> a, mounted |-> b, enabled |-> e]
  BY <1>2
<1> DEFINE n == Answered(r, a, b)
<1>5. n = [id |-> i, mode |-> a, mounted |-> b, enabled |-> e]
  BY <1>3, <1>4
<1> HIDE DEF n
<1>6. n.id = i /\ n.mode = a /\ n.mounted = b /\ n.enabled = e
  BY <1>5
<1> QED
  BY <1>5, <1>6 DEF i, n, IsRow

(* The same when it is listed as enabled or not. *)
LEMMA RowEnabled ==
  ASSUME NEW r, IsRow(r), NEW b
  PROVE  LET n == [r EXCEPT !.enabled = b]
         IN  IsRow(n) /\ n.id = r.id /\ n.mounted = r.mounted
<1> DEFINE i == r.id
           m == r.mode
           t == r.mounted
           e == r.enabled
           n == [r EXCEPT !.enabled = b]
<1>1. r = [id |-> i, mode |-> m, mounted |-> t, enabled |-> e]
  BY DEF IsRow
<1> HIDE DEF i, m, t, e
<1>2. n = [id |-> i, mode |-> m, mounted |-> t, enabled |-> b]
  BY <1>1
<1> HIDE DEF n
<1>3. n.id = i /\ n.mode = m /\ n.mounted = t /\ n.enabled = b
  BY <1>2
<1> QED
  BY <1>2, <1>3 DEF i, t, n, IsRow

(* A row that the ledger has as mounted, of a module that still owns something, is in
   the answer of the query. *)
LEMMA MergedShown ==
  ASSUME ReadyList, NEW installed, NEW c \in ledger.modules, c.mounted = TRUE, c.id \in BootOwned
  PROVE  \E q \in MergeModuleSnapshot(ledger.modules, installed) : q.id = c.id /\ q.mounted = TRUE
<1> DEFINE of(id)    == {k \in ledger.modules : k.id = id}
           pick(id)  == CHOOSE k \in of(id) : TRUE
           merged(r) == IF of(r.id) = {} THEN r ELSE [r EXCEPT !.mode = pick(r.id).mode, !.mounted = pick(r.id).mounted]
           rows      == FallbackAppModules(installed)
           removed   == {r \in ledger.modules : /\ r.id \notin {m.id : m \in installed}
                                                /\ r.mounted /\ r.id \in BootOwned}
           all       == {merged(r) : r \in rows} \cup {[r EXCEPT !.enabled = FALSE] : r \in removed}
<1>1. MergeModuleSnapshot(ledger.modules, installed) = SyncAppModuleRules(all)
  BY DEF MergeModuleSnapshot
<1>2. c = [id |-> c.id, mode |-> c.mode, mounted |-> c.mounted, enabled |-> c.enabled]
  BY DEF ReadyList
<1>3. \E r \in all : /\ r = [id |-> r.id, mode |-> r.mode, mounted |-> r.mounted, enabled |-> r.enabled]
                     /\ r.id = c.id /\ r.mounted = TRUE
  <2>1. CASE c.id \in {m.id : m \in installed}
    <3>1. PICK m \in installed : c.id = m.id
      BY <2>1
    <3> DEFINE r == [id |-> m.id, mode |-> ModeOf(FallbackPlan(installed), now.cfg, m.id),
                     mounted |-> m.id \in {} \ now.cfg.blacklist,
                     enabled |-> ~m.disabled /\ m.id \notin now.cfg.blacklist]
               n == Answered(r, c.mode, c.mounted)
    <3>2. r \in rows
      BY DEF FallbackAppModules, AppModules
    <3>3. r.id = c.id /\ n.id = c.id /\ n.mounted = TRUE
          /\ n = [id |-> n.id, mode |-> n.mode, mounted |-> n.mounted, enabled |-> n.enabled]
      <4> DEFINE a == c.mode
                 b == c.mounted
      <4>1. r.id = c.id /\ IsRow(r)
        BY <3>1 DEF IsRow
      <4>2. n = Answered(r, a, b)
        BY DEF a, b
      <4> HIDE DEF r, a, b, n
      <4>3. IsRow(n) /\ n.id = r.id /\ n.mounted = b
        BY <4>1, <4>2, RowFields
      <4> QED
        BY <4>1, <4>3 DEF b, IsRow
    <3>4. c \in of(c.id) /\ pick(c.id) = c
      <4>1. c \in of(c.id)
        OBVIOUS
      <4>2. \A k \in of(c.id) : k = c
        BY DEF ReadyList
      <4> QED
        BY <4>1, <4>2
    <3> HIDE DEF of, pick, rows
    <3>5. merged(r) = n
      <4> HIDE DEF r
      <4> QED BY <3>3, <3>4 DEF Answered
    <3> HIDE DEF r, n, merged
    <3> QED
      BY <3>2, <3>3, <3>5
  <2>2. CASE c.id \notin {m.id : m \in installed}
    <3> DEFINE n == [c EXCEPT !.enabled = FALSE]
    <3>1. c \in removed
      BY <2>2
    <3>2. n.id = c.id /\ n.mounted = TRUE
          /\ n = [id |-> n.id, mode |-> n.mode, mounted |-> n.mounted, enabled |-> n.enabled]
      <4> DEFINE b == FALSE
      <4>1. IsRow(c) /\ n = [c EXCEPT !.enabled = b]
        BY <1>2 DEF IsRow
      <4> HIDE DEF b, n, removed, all, merged, rows
      <4>2. IsRow(n) /\ n.id = c.id /\ n.mounted = c.mounted
        BY <4>1, RowEnabled
      <4> QED
        BY <4>2 DEF IsRow
    <3> HIDE DEF removed, merged, rows
    <3>3. n \in all
      BY <3>1
    <3> HIDE DEF n, all
    <3> QED
      BY <3>2, <3>3
  <2> QED
    BY <2>1, <2>2
<1> HIDE DEF all
<1>4. PICK r \in all : /\ r = [id |-> r.id, mode |-> r.mode, mounted |-> r.mounted, enabled |-> r.enabled]
                       /\ r.id = c.id /\ r.mounted = TRUE
  BY <1>3
<1> DEFINE b == r.enabled /\ r.id \notin now.cfg.blacklist
           q == [r EXCEPT !.enabled = b]
<1>5. q \in SyncAppModuleRules(all)
  BY DEF SyncAppModuleRules
<1>6. q.id = c.id /\ q.mounted = TRUE
  <2> HIDE DEF b
  <2> QED BY <1>4
<1> HIDE DEF q
<1> QED
  BY <1>1, <1>5, <1>6

(* A row of the answer that says mounted is one that the ledger has so. *)
LEMMA ShownMerged ==
  ASSUME NEW installed, NEW q \in MergeModuleSnapshot(ledger.modules, installed), q.mounted = TRUE,
         ReadyList
  PROVE  \E c \in ledger.modules : c.id = q.id /\ c.mounted = TRUE
<1> DEFINE of(id)    == {k \in ledger.modules : k.id = id}
           pick(id)  == CHOOSE k \in of(id) : TRUE
           merged(r) == IF of(r.id) = {} THEN r ELSE [r EXCEPT !.mode = pick(r.id).mode, !.mounted = pick(r.id).mounted]
           rows      == FallbackAppModules(installed)
           removed   == {r \in ledger.modules : /\ r.id \notin {m.id : m \in installed}
                                                /\ r.mounted /\ r.id \in BootOwned}
           all       == {merged(r) : r \in rows} \cup {[r EXCEPT !.enabled = FALSE] : r \in removed}
           synced(r) == [r EXCEPT !.enabled = @ /\ r.id \notin now.cfg.blacklist]
<1>1. MergeModuleSnapshot(ledger.modules, installed) = {synced(r) : r \in all}
  BY DEF MergeModuleSnapshot, SyncAppModuleRules
<1>2. ReadyList
  OBVIOUS
<1>3. ASSUME NEW r \in all
      PROVE  /\ r = [id |-> r.id, mode |-> r.mode, mounted |-> r.mounted, enabled |-> r.enabled]
             /\ r.mounted = TRUE => \E c \in ledger.modules : c.id = r.id /\ c.mounted = TRUE
  <2>1. CASE \E k \in rows : r = merged(k)
    <3>1. PICK k \in rows : r = merged(k)
      BY <2>1
    <3>2. PICK m \in installed :
            k = [id |-> m.id, mode |-> ModeOf(FallbackPlan(installed), now.cfg, m.id),
                 mounted |-> m.id \in {} \ now.cfg.blacklist,
                 enabled |-> ~m.disabled /\ m.id \notin now.cfg.blacklist]
      BY DEF FallbackAppModules, AppModules
    <3>3. k = [id |-> k.id, mode |-> k.mode, mounted |-> k.mounted, enabled |-> k.enabled] /\ k.mounted # TRUE
      BY <3>2
    <3>4. CASE of(k.id) = {}
      BY <3>1, <3>3, <3>4
    <3>5. CASE of(k.id) # {}
      <4> DEFINE c == pick(k.id)
                 n == Answered(k, c.mode, c.mounted)
      <4>1. c \in ledger.modules /\ c.id = k.id
        BY <3>5
      <4> HIDE DEF of, pick, c
      <4>2. n.id = k.id /\ n.mounted = c.mounted
            /\ n = [id |-> n.id, mode |-> n.mode, mounted |-> n.mounted, enabled |-> n.enabled]
        <5> DEFINE a == c.mode
                   b == c.mounted
        <5>1. IsRow(k)
          BY <3>3 DEF IsRow
        <5>2. n = Answered(k, a, b)
          BY DEF a, b
        <5> HIDE DEF a, b, n, rows, all, merged, removed
        <5>3. IsRow(n) /\ n.id = k.id /\ n.mounted = b
          BY <5>1, <5>2, RowFields
        <5> QED
          BY <5>3 DEF b, IsRow
      <4>3. r = n
        BY <3>1, <3>5 DEF c, Answered
      <4> HIDE DEF n
      <4> QED
        BY <4>1, <4>2, <4>3
    <3> QED
      BY <3>4, <3>5
  <2>2. CASE \E c \in removed : r = [c EXCEPT !.enabled = FALSE]
    <3>1. PICK c \in removed : r = [c EXCEPT !.enabled = FALSE]
      BY <2>2
    <3>2. c \in ledger.modules /\ c = [id |-> c.id, mode |-> c.mode, mounted |-> c.mounted, enabled |-> c.enabled]
      BY DEF ReadyList
    <3> HIDE DEF removed
    <3>3. /\ r = [id |-> r.id, mode |-> r.mode, mounted |-> r.mounted, enabled |-> r.enabled]
          /\ r.id = c.id /\ r.mounted = c.mounted
      BY <3>1, <3>2
    <3> QED
      BY <3>2, <3>3
  <2> QED
    BY <1>3, <2>1, <2>2
<1> HIDE DEF all
<1>4. PICK r \in all : q = synced(r)
  BY <1>1
<1>5. r = [id |-> r.id, mode |-> r.mode, mounted |-> r.mounted, enabled |-> r.enabled]
  BY <1>3
<1> DEFINE b == r.enabled /\ r.id \notin now.cfg.blacklist
           n == [r EXCEPT !.enabled = b]
<1>6. q = n
  BY <1>4
<1>7. n.id = r.id /\ n.mounted = r.mounted
  <2> HIDE DEF b
  <2> QED BY <1>5
<1> HIDE DEF n
<1>8. r.id = q.id /\ r.mounted = TRUE
  BY <1>6, <1>7
<1> QED
  BY <1>3, <1>8

(* What the invariant says of the answer. *)
LEMMA ListMeans == OwnersInv /\ ListInv => ListIsTrue
<1> SUFFICES ASSUME OwnersInv, ListInv, pc = "ready"
             PROVE  LET listed == {r.id : r \in {q \in Query.rows : q.mounted}}
                    IN  /\ \A p \in DOMAIN view :
                             view[p].from.mod # 0 /\ view[p].kind # "dir" =>
                               view[p].from.mod \in listed \/ NotLookedFor(view[p].from)
                        /\ ledger.generation > 0 => listed \subseteq BootOwned
  BY DEF ListIsTrue
<1> DEFINE installed == InstalledIn(now.dirs, QueryLayout)
           rows == MergeModuleSnapshot(ledger.modules, installed)
           listed == {r.id : r \in {q \in Query.rows : q.mounted}}
<1>1. ReadyList /\ RuleSet(Ids(input.dirs), rules) /\ view = RuledView(rules, base)
  BY DEF ListInv, OwnersInv, MadeInv
<1>2. Query.rows = rows
  BY DEF Query
<1> HIDE DEF installed, rows
<1>3. \A id : id \in listed <=> \E q \in rows : q.id = id /\ q.mounted = TRUE
  BY <1>2
<1> HIDE DEF listed
<1>4. ASSUME NEW id, id \in BootOwned, Listed(id) PROVE id \in listed
  <2>1. PICK c \in ledger.modules : c.id = id /\ c.mounted = TRUE
    BY <1>4 DEF Listed
  <2>2. \E q \in rows : q.id = c.id /\ q.mounted = TRUE
    BY <1>1, <1>4, <2>1, MergedShown DEF rows
  <2> QED
    BY <1>3, <2>1, <2>2
<1>5. ASSUME NEW p \in DOMAIN view, view[p].from.mod # 0, view[p].kind # "dir"
      PROVE  view[p].from.mod \in listed \/ NotLookedFor(view[p].from)
  <2>1. \/ \E r \in rules : view[p] = r.node
        \/ p \in DOMAIN base /\ view[p] = base[p]
        \/ view[p] = Dir
    <3> DEFINE put    == {r \in rules : r.action # "whiteout"}
               gone(u) == \E r \in rules : \/ IsStrictPrefix(r.at, u)
                                          \/ (r.at = u /\ r.action = "whiteout")
               led    == (UNION {Steps(Front(r.at)) : r \in put}) \ {r.at : r \in put}
               kept   == {u \in DOMAIN base : ~gone(u)}
               value(u) == IF \E r \in put : r.at = u THEN (CHOOSE r \in put : r.at = u).node
                           ELSE IF u \in kept THEN base[u] ELSE Dir
    <3>1. view = [u \in kept \cup led \cup {r.at : r \in put} |-> value(u)]
      BY <1>1 DEF RuledView
    <3> HIDE DEF led
    <3>2. view[p] = value(p)
      <4> HIDE DEF value, kept, put
      <4> QED BY <3>1
    <3>3. kept \subseteq DOMAIN base /\ put \subseteq rules
      OBVIOUS
    <3> HIDE DEF put, kept
    <3>4. CASE \E r \in put : r.at = p
      <4>1. (CHOOSE r \in put : r.at = p) \in put
        BY <3>4
      <4> QED
        BY <3>2, <3>3, <3>4, <4>1
    <3>5. CASE ~\E r \in put : r.at = p
      BY <3>2, <3>3, <3>5
    <3> QED
      BY <3>4, <3>5
  <2>2. CASE \E r \in rules : view[p] = r.node
    <3>1. PICK r \in rules : view[p] = r.node
      BY <2>2
    <3>2. view[p].from.mod = r.mod
      BY <1>1, <1>5, <3>1 DEF RuleSet
    <3>3. r.mod \in BootOwned /\ Listed(r.mod)
      BY <1>1 DEF BootOwned, ReadyList
    <3> QED
      BY <1>4, <3>2, <3>3
  <2>3. CASE p \in DOMAIN base /\ view[p] = base[p]
    <3>1. /\ base[p].from.mod \in ledger.non_vfs
          /\ Listed(base[p].from.mod) \/ NotLookedFor(base[p].from)
      BY <1>1, <1>5, <2>3 DEF ReadyList
    <3> QED
      BY <1>4, <2>3, <3>1 DEF BootOwned
  <2>4. CASE view[p] = Dir
    BY <1>5, <2>4 DEF Dir
  <2> QED
    BY <2>1, <2>2, <2>3, <2>4
<1>6. ASSUME ledger.generation > 0, NEW id \in listed PROVE id \in BootOwned
  <2>1. PICK q \in rows : q.id = id /\ q.mounted = TRUE
    BY <1>3, <1>6
  <2>2. \E c \in ledger.modules : c.id = id /\ c.mounted = TRUE
    BY <1>1, <2>1, ShownMerged DEF rows
  <2> QED
    BY <1>1, <1>6, <2>2 DEF ReadyList
<1> QED
  BY <1>5, <1>6 DEF listed

(* The answer of the modules query (state.rs, merge_module_snapshot) names as mounted
   every module of which a file is seen, but for one whose overlays the report does not
   find, and after a hot operation nobody who owns nothing, for every device,
   configuration and history of operations and of changes by the user. *)
THEOREM HotListIsTrue == HotSpec => []ListIsTrue
<1> QED
  BY OwnersInit, OwnersInductive, ViewListed, ListMeans, PTL DEF HotSpec
===============================================================================
