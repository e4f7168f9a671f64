--------------------------- MODULE RuleTableProofs ---------------------------
(* The properties of RuleTable for every tree of paths, set of UIDs and payloads. *)
EXTENDS RuleTable, TLAPS

(* The paths are a tree: two different ones are never above each other. *)
LEMMA AncAntisymmetric ==
  ASSUME NEW p \in Paths, NEW q \in Anc[p] PROVE p \notin Anc[q] /\ p # q /\ q \in Paths
  BY PathAssumption

(* The rule an ADD finds at a path is at that path, and its UID can pass it. *)
LEMMA EntryType ==
  ASSUME NEW p \in Paths, NEW u \in Uids
  PROVE  /\ Entry(p, u) \in Keys
         /\ Entry(p, u)[1] = p
         /\ Entry(p, u)[2] \in {u, Global}
  BY PayloadAssumption DEF Entry, Keys

(* A generated directory is above the rule, for its UID, and neither the UID nor the
   global one has a rule there yet. *)
LEMMA GeneratedNew ==
  ASSUME NEW k \in Keys, NEW x \in Generated(k)
  PROVE  /\ x \in Keys /\ x = <<x[1], k[2]>> /\ x # k
         /\ x[1] \in Missing(k) /\ x[1] \in Anc[k[1]]
         /\ rules[x] = None /\ rules[<<x[1], Global>>] = None
<1>1. PICK m \in Missing(k) : x = <<m, k[2]>>
  BY DEF Generated
<1>2. k[1] \in Paths /\ k[2] \in Uids /\ m \in Anc[k[1]]
  BY DEF Missing, Keys
<1>3. m \in Paths /\ m # k[1]
  BY <1>2, AncAntisymmetric
<1>4. ~Covered(m, k[2])
  BY <1>2 DEF Missing
<1>5. rules[<<m, k[2]>>] = None /\ rules[<<m, Global>>] = None
  BY <1>4 DEF Covered, Entry
<1> QED
  BY <1>1, <1>2, <1>3, <1>5 DEF Keys

(* Nothing that is generated for a rule is installed. *)
LEMMA GeneratedApart ==
  ASSUME NEW k \in Keys PROVE Generated(k) \subseteq Keys \ (Installed \cup {k})
  BY GeneratedNew DEF Installed

(* A new rule and its generated directories hang from the directory right above. *)
LEMMA LinkPlace ==
  ASSUME NEW x \in Keys, NEW generated
  PROVE  \/ Parent[x[1]] = Root /\ Link(x, generated) = Native
         \/ /\ Parent[x[1]] # Root
            /\ Link(x, generated) \in Keys
            /\ Link(x, generated)[1] = Parent[x[1]]
            /\ Link(x, generated)[2] \in {x[2], Global}
<1>1. x[1] \in Paths /\ x[2] \in Uids
  BY DEF Keys
<1>2. CASE Parent[x[1]] = Root
  BY <1>2 DEF Link
<1>3. CASE Parent[x[1]] # Root
  <2>1. Parent[x[1]] \in Paths
    BY <1>1, <1>3, PathAssumption
  <2>2. <<Parent[x[1]], x[2]>> \in Keys
    BY <1>1, <2>1 DEF Keys
  <2> QED
    BY <1>1, <1>3, <2>1, <2>2, EntryType DEF Link
<1> QED
  BY <1>2, <1>3

(* A rule and its generated directories are for one UID, and the directories right above
   them are above the rule. *)
LEMMA AddedPlace ==
  ASSUME NEW k \in Keys, NEW x \in Generated(k) \cup {k}
  PROVE  /\ x \in Keys /\ x[2] = k[2] /\ x[1] \in Paths
         /\ k[1] \in Paths /\ k[2] \in Uids
         /\ x = k \/ x[1] \in Anc[k[1]]
         /\ Parent[x[1]] # Root => Parent[x[1]] \in Anc[k[1]] \ {k[1]}
<1>1. k[1] \in Paths /\ k[2] \in Uids
  BY DEF Keys
<1>2. /\ x \in Keys /\ x[2] = k[2] /\ x[1] \in Paths
      /\ x = k \/ x[1] \in Anc[k[1]]
  <2>1. CASE x = k
    BY <1>1, <2>1
  <2>2. CASE x \in Generated(k)
    <3>1. x \in Keys /\ x = <<x[1], k[2]>> /\ x[1] \in Anc[k[1]]
      BY <2>2, GeneratedNew
    <3> QED
      BY <1>1, <3>1, AncAntisymmetric
  <2> QED
    BY <2>1, <2>2
<1>3. ASSUME Parent[x[1]] # Root PROVE Parent[x[1]] \in Anc[k[1]]
  <2>1. Parent[x[1]] \in Anc[x[1]]
    BY <1>2, <1>3, PathAssumption
  <2>2. x = k \/ Anc[x[1]] \subseteq Anc[k[1]]
    BY <1>1, <1>2, PathAssumption
  <2> QED
    BY <2>1, <2>2
<1> QED
  BY <1>1, <1>2, <1>3, AncAntisymmetric

(* The directory above the rule, or above a generated one, is generated as well or
   is covered: the walk up stops at the nearest rule and leaves no gap. *)
LEMMA NoGap ==
  ASSUME NEW k \in Keys, NEW x \in Generated(k) \cup {k}, Parent[x[1]] # Root,
         Parent[x[1]] \notin Missing(k)
  PROVE  Covered(Parent[x[1]], k[2])
<1> DEFINE p == Parent[x[1]]
<1>1. k[1] \in Paths /\ x[1] \in Paths
  BY AddedPlace
<1>2. Anc[x[1]] = {p} \cup Anc[p] /\ p \in Paths
  BY <1>1, PathAssumption
<1>3. p \in Anc[k[1]]
  BY AddedPlace
<1>4. PICK b \in Anc[k[1]] : (b = p \/ p \in Anc[b]) /\ Covered(b, k[2])
  BY <1>3 DEF Missing
<1>5. b \in Paths
  BY <1>1, AncAntisymmetric
<1>6. b = p \/ b = x[1] \/ x[1] \in Anc[b]
  <2>1. b \in Anc[x[1]] \/ b = x[1] \/ x[1] \in Anc[b]
    BY <1>1, <1>4, AddedPlace, PathAssumption
  <2>2. b \in Anc[p] => p \notin Anc[b] /\ b # p
    BY <1>2, AncAntisymmetric
  <2> QED
    BY <1>2, <1>4, <2>1, <2>2
<1>7. CASE x = k
  <2>1. k[1] \notin Anc[b] /\ b # k[1]
    BY <1>1, AncAntisymmetric
  <2> QED
    BY <1>4, <1>6, <1>7, <2>1
<1>8. CASE x \in Generated(k)
  <2>1. b = x[1] \/ x[1] \in Anc[b] => ~Covered(b, k[2])
    BY <1>8, GeneratedNew DEF Missing
  <2> QED
    BY <1>4, <1>6, <2>1
<1> QED
  BY <1>7, <1>8

(* What an attachable rule and its generated directories hang from is generated with
   them, or is another installed directory. *)
LEMMA LinkLive ==
  ASSUME NEW k \in Keys, Attachable(k), NEW x \in Generated(k) \cup {k},
         Link(x, Generated(k)) \in Keys
  PROVE  \/ Link(x, Generated(k)) \in Generated(k)
         \/ /\ Link(x, Generated(k)) \in Installed \ {k}
            /\ IsDir(Link(x, Generated(k)))
<1> DEFINE l == Link(x, Generated(k))
<1> DEFINE p == Parent[x[1]]
<1>1. x \in Keys /\ x[2] = k[2] /\ x[1] \in Paths /\ k[1] \in Paths /\ k[2] \in Uids
  BY AddedPlace
<1>2. p # Root /\ l[1] = p
  BY <1>1, LinkPlace, PayloadAssumption DEF Marks
<1>3. CASE <<p, k[2]>> \in Generated(k)
  BY <1>1, <1>2, <1>3 DEF Link
<1>4. CASE <<p, k[2]>> \notin Generated(k)
  <2>1. p \notin Missing(k)
    BY <1>4 DEF Generated
  <2>2. Covered(p, k[2])
    BY <1>2, <2>1, NoGap
  <2>3. l = Entry(p, k[2])
    BY <1>1, <1>2, <1>4 DEF Link
  <2>4. l \in Installed
    BY <2>2, <2>3 DEF Covered, Installed
  <2>5. IsDir(l)
    BY <2>4 DEF Attachable
  <2>6. p # k[1]
    BY <1>2, AddedPlace
  <2> QED
    BY <1>2, <2>4, <2>5, <2>6
<1> QED
  BY <1>3, <1>4

-----------------------------------------------------------------------------
(* Type correctness *)

LEMMA AddType ==
  ASSUME TableTypeOK, NEW k \in Keys, NEW v \in Payloads, Add(k, v) PROVE TableTypeOK'
<1>1. rules' \in [Keys -> Payloads \cup {Derived, None}]
  BY DEF Add, TableTypeOK
<1>2. \A x \in Generated(k) \cup {k} : x \in Keys /\ Link(x, Generated(k)) \in Keys \cup Marks
  BY GeneratedNew, LinkPlace DEF Marks
<1>3. \A x \in Keys : Heir(x, k, v) \in Keys \cup Marks
  BY DEF Heir, TableTypeOK, Marks
<1>4. up' \in [Keys -> Keys \cup Marks]
  BY <1>2, <1>3 DEF Add
<1>5. Others(k) \subseteq Keys /\ Generated(k) \subseteq Keys
  BY GeneratedNew DEF Others, Installed
<1>6. ahead' \in [Keys -> SUBSET Keys]
  BY <1>5 DEF Add, TableTypeOK
<1> QED
  BY <1>1, <1>4, <1>6 DEF TableTypeOK

LEMMA DropType ==
  ASSUME TableTypeOK, NEW gone, Drop(gone) PROVE TableTypeOK'
  BY DEF Drop, TableTypeOK, Marks

LEMMA PreserveType ==
  ASSUME TableTypeOK, NEW k \in Keys, Preserve(k) PROVE TableTypeOK'
<1>1. Others(k) \subseteq Keys
  BY DEF Others, Installed
<1> QED
  BY <1>1 DEF Preserve, TableTypeOK

(* A step adds a rule, drops a set of keys, preserves a directory, or changes nothing. *)
LEMMA StepShapes ==
  ASSUME [TableNext]_table
  PROVE  \/ \E k \in Keys, v \in Payloads : Add(k, v)
         \/ \E gone \in SUBSET Keys : Drop(gone)
         \/ \E k \in Keys : k \in Installed /\ Preserve(k)
         \/ UNCHANGED table
<1>1. ASSUME NEW k \in Keys, AddLoses(k) PROVE \E gone \in SUBSET Keys : Drop(gone)
  BY <1>1 DEF AddLoses
<1>2. ASSUME NEW k \in Keys, Del(k)
      PROVE  (\E gone \in SUBSET Keys : Drop(gone)) \/ (k \in Installed /\ Preserve(k))
  <2>1. {k} \cup Pruned(k) \in SUBSET Keys
    BY DEF Pruned, VirtualAbove
  <2> QED
    BY <1>2, <2>1 DEF Del, Removable
<1>3. Clear => \E gone \in SUBSET Keys : Drop(gone)
  BY DEF Clear, Installed
<1> QED
  BY <1>1, <1>2, <1>3 DEF TableNext

(* The rule table has its types after every sequence of calls (TableTypeOK). *)
THEOREM TypeCorrect == TableSpec => []TableTypeOK
<1>1. TableInit => TableTypeOK
  BY DEF TableInit, TableTypeOK, Marks
<1>2. TableTypeOK /\ [TableNext]_table => TableTypeOK'
  <2> SUFFICES ASSUME TableTypeOK, [TableNext]_table PROVE TableTypeOK'
    OBVIOUS
  <2>1. UNCHANGED table => TableTypeOK'
    BY DEF table, TableTypeOK
  <2> QED
    BY <2>1, StepShapes, AddType, DropType, PreserveType
<1> QED
  BY <1>1, <1>2, PTL DEF TableSpec

-----------------------------------------------------------------------------
(* Every rule hangs from a live directory *)

(* What is said of one key. *)
LinkOK(k) ==
  IF k \notin Installed THEN up[k] = None
  ELSE /\ up[k] # None
       /\ up[k] = Native <=> Parent[k[1]] = Root
       /\ up[k] \in Keys => /\ up[k] \in Installed /\ IsDir(up[k])
                            /\ up[k][1] = Parent[k[1]]
                            /\ up[k][2] \in {k[2], Global}

LEMMA LinkOKEach == LinksAreLive <=> \A k \in Keys : LinkOK(k)
  BY DEF LinksAreLive, LinkOK

LEMMA MarksApart ==
  /\ Native \notin Keys /\ Orphan \notin Keys /\ None \notin Keys
  /\ Native # Orphan /\ Native # None /\ Orphan # None
  BY PayloadAssumption DEF Marks

LEMMA AddLinks ==
  ASSUME TableTypeOK, LinksAreLive, NEW k \in Keys, NEW v \in Payloads, Add(k, v)
  PROVE  LinksAreLive'
<1> SUFFICES ASSUME NEW x \in Keys PROVE LinkOK(x)'
  BY DEF LinksAreLive, LinkOK
<1> DEFINE new == Generated(k) \cup {k}
<1>1. LinkOK(x)
  BY LinkOKEach
<1>2. v # None /\ Derived # None
  BY PayloadAssumption
<1>3. Installed' = Installed \cup new
  <2>1. \A y \in Keys : rules'[y] = IF y = k THEN v ELSE IF y \in Generated(k) THEN Derived ELSE rules[y]
    BY DEF Add
  <2> QED
    BY <1>2, <2>1, GeneratedApart DEF Installed
<1>4. \A y \in Keys \ new : rules'[y] = rules[y]
  BY DEF Add
<1>5. \A y \in Generated(k) : IsDir(y)'
  BY GeneratedApart DEF Add, IsDir
<1>6. CASE x \in new
  <2>1. up'[x] = Link(x, Generated(k))
    BY <1>6 DEF Add
  <2>2. x \in Installed'
    BY <1>3, <1>6
  <2>3. CASE Parent[x[1]] = Root
    BY <2>1, <2>2, <2>3, LinkPlace, MarksApart DEF LinkOK
  <2>4. CASE Parent[x[1]] # Root
    <3>1. /\ up'[x] \in Keys
          /\ up'[x][1] = Parent[x[1]]
          /\ up'[x][2] \in {x[2], Global}
      BY <2>1, <2>4, LinkPlace
    <3>2. Attachable(k)
      BY DEF Add
    <3>3. \/ up'[x] \in Generated(k)
          \/ up'[x] \in Installed \ {k} /\ IsDir(up'[x])
      BY <1>6, <2>1, <3>1, <3>2, LinkLive
    <3>4. up'[x] \in Installed \ {k} => up'[x] \notin new
      BY GeneratedApart
    <3>5. up'[x] \in Installed' /\ IsDir(up[x])'
      BY <1>3, <1>4, <1>5, <3>1, <3>3, <3>4 DEF IsDir
    <3> QED
      BY <2>2, <2>4, <3>1, <3>5, MarksApart DEF LinkOK
  <2> QED
    BY <2>3, <2>4
<1>7. CASE x \notin new
  <2>1. up'[x] = Heir(x, k, v)
    BY <1>7 DEF Add
  <2>2. x \in Installed' <=> x \in Installed
    BY <1>3, <1>7
  <2>3. CASE up[x] = k /\ v \notin Dirs
    BY <1>1, <2>1, <2>2, <2>3, MarksApart DEF LinkOK, Heir
  <2>4. CASE up[x] = k /\ v \in Dirs
    <3>1. up'[x] = k /\ IsDir(k)' /\ k \in Installed'
      BY <1>3, <2>1, <2>4 DEF Heir, IsDir, Add
    <3> QED
      BY <1>1, <2>2, <2>4, <3>1, MarksApart DEF LinkOK
  <2>5. CASE up[x] # k
    <3>1. up'[x] = up[x]
      BY <2>1, <2>5 DEF Heir
    <3>2. up[x] \in Installed => up[x] \notin new /\ up[x] \in Installed'
      BY <1>3, <2>5, GeneratedApart
    <3>3. up[x] \in Installed /\ IsDir(up[x]) => IsDir(up[x])'
      BY <1>4, <3>1, <3>2 DEF IsDir, Installed
    <3> QED
      BY <1>1, <2>2, <3>1, <3>2, <3>3 DEF LinkOK
  <2> QED
    BY <2>3, <2>4, <2>5
<1> QED
  BY <1>6, <1>7

LEMMA DropLinks ==
  ASSUME TableTypeOK, LinksAreLive, NEW gone \in SUBSET Keys, Drop(gone)
  PROVE  LinksAreLive'
<1> SUFFICES ASSUME NEW x \in Keys PROVE LinkOK(x)'
  BY DEF LinksAreLive, LinkOK
<1>1. LinkOK(x)
  BY LinkOKEach
<1>2. Installed' = Installed \ gone
  BY DEF Drop, Installed
<1>3. \A y \in Keys \ gone : rules'[y] = rules[y]
  BY DEF Drop
<1>4. CASE x \in gone
  BY <1>2, <1>4 DEF LinkOK, Drop
<1>5. CASE x \notin gone /\ up[x] \in gone
  BY <1>1, <1>2, <1>5, MarksApart DEF LinkOK, Drop
<1>6. CASE x \notin gone /\ up[x] \notin gone
  <2>1. up'[x] = up[x]
    BY <1>6 DEF Drop
  <2>2. up[x] \in Keys /\ IsDir(up[x]) => IsDir(up[x])'
    BY <1>3, <1>6, <2>1 DEF IsDir
  <2> QED
    BY <1>1, <1>2, <1>6, <2>1, <2>2 DEF LinkOK
<1> QED
  BY <1>4, <1>5, <1>6

LEMMA PreserveLinks ==
  ASSUME TableTypeOK, LinksAreLive, NEW k \in Installed, Preserve(k)
  PROVE  LinksAreLive'
<1> SUFFICES ASSUME NEW x \in Keys PROVE LinkOK(x)'
  BY DEF LinksAreLive, LinkOK
<1>1. LinkOK(x)
  BY LinkOKEach
<1>2. rules' = [rules EXCEPT ![k] = Derived] /\ up' = up /\ k \in Keys
  BY DEF Preserve, Installed
<1>3. Installed' = Installed
  BY <1>2, PayloadAssumption DEF Installed, TableTypeOK
<1>4. up[x] \in Keys /\ IsDir(up[x]) => IsDir(up[x])'
  BY <1>2 DEF IsDir, TableTypeOK
<1> QED
  BY <1>1, <1>2, <1>3, <1>4 DEF LinkOK

(* Every installed rule hangs from a live directory right above it, from a native one,
   or is marked as cut off, after every sequence of calls (LinksAreLive). *)
THEOREM LinksAlwaysLive == TableSpec => []LinksAreLive
<1>1. TableInit => LinksAreLive
  BY DEF TableInit, LinksAreLive, Installed
<1>2. TableTypeOK /\ LinksAreLive /\ [TableNext]_table => LinksAreLive'
  <2> SUFFICES ASSUME TableTypeOK, LinksAreLive, [TableNext]_table PROVE LinksAreLive'
    OBVIOUS
  <2>1. UNCHANGED table => LinksAreLive'
    BY DEF table, LinksAreLive, Installed, IsDir
  <2> QED
    BY <2>1, StepShapes, AddLinks, DropLinks, PreserveLinks
<1> QED
  BY <1>1, <1>2, TypeCorrect, PTL DEF TableSpec

-----------------------------------------------------------------------------
(* The list is exact *)

(* Two directories generated for the same rule are listed top down. *)
LEMMA GeneratedOrder ==
  ASSUME NEW k \in Keys, NEW x \in Generated(k), NEW y \in Generated(k), x # y
  PROVE  (x[1] \in Anc[y[1]] /\ y[1] \notin Anc[x[1]]) \/ (y[1] \in Anc[x[1]] /\ x[1] \notin Anc[y[1]])
<1>1. /\ x = <<x[1], k[2]>> /\ x[1] \in Anc[k[1]]
      /\ y = <<y[1], k[2]>> /\ y[1] \in Anc[k[1]]
  BY GeneratedNew
<1>2. k[1] \in Paths /\ x[1] \in Paths /\ y[1] \in Paths
  BY AddedPlace
<1>3. x[1] # y[1]
  BY <1>1
<1>4. x[1] \in Anc[y[1]] \/ y[1] \in Anc[x[1]]
  BY <1>1, <1>2, <1>3, PathAssumption
<1> QED
  BY <1>2, <1>4, AncAntisymmetric

LEMMA AddList ==
  ASSUME TableTypeOK, ListIsExact, NEW k \in Keys, NEW v \in Payloads, Add(k, v)
  PROVE  ListIsExact'
<1> DEFINE gen == Generated(k)
<1> DEFINE new == gen \cup {k}
<1> DEFINE old == Installed \ {k}
<1> DEFINE Above(x) == {y \in gen : y[1] \in Anc[x[1]]}
<1>1. gen \subseteq Keys /\ gen \cap Installed = {} /\ k \notin gen
  BY GeneratedApart
<1>2. Installed' = old \cup new /\ old \cap new = {} /\ old \subseteq Keys
  <2>1. \A y \in Keys : rules'[y] = IF y = k THEN v ELSE IF y \in gen THEN Derived ELSE rules[y]
    BY DEF Add
  <2>2. v # None /\ Derived # None
    BY PayloadAssumption
  <2> QED
    BY <1>1, <2>1, <2>2 DEF Installed
<1>3. \A x \in new : ahead'[x] = old \cup Above(x)
  BY <1>1 DEF Add, Others
<1>4. \A x \in Keys \ new : ahead'[x] = ahead[x] \ {k}
  BY DEF Add
<1>5. \A x \in Keys : ahead[x] \subseteq Installed \ {x}
  BY DEF ListIsExact
<1>6. \A x \in new : x \notin Above(x)
  <2>1. \A x \in gen : x[1] \notin Anc[x[1]]
    BY AddedPlace, PathAssumption
  <2> QED
    BY <1>1, <2>1
<1>7. \A x \in Keys : ahead'[x] \subseteq Installed' \ {x}
  BY <1>1, <1>2, <1>3, <1>4, <1>5, <1>6
<1>8. \A x \in Keys \ Installed' : ahead'[x] = {}
  BY <1>2, <1>4 DEF ListIsExact
<1>9. ASSUME NEW i \in Installed', NEW j \in Installed', i # j
      PROVE  (i \in ahead'[j]) # (j \in ahead'[i])
  <2>1. CASE i \in old /\ j \in old
    <3>1. i \in ahead'[j] <=> i \in ahead[j]
      BY <1>2, <1>4, <2>1
    <3>2. j \in ahead'[i] <=> j \in ahead[i]
      BY <1>2, <1>4, <2>1
    <3> QED
      BY <1>9, <2>1, <3>1, <3>2 DEF ListIsExact
  <2>2. ASSUME NEW x \in old, NEW y \in new PROVE x \in ahead'[y] /\ y \notin ahead'[x]
    <3>1. y \notin ahead'[x]
      BY <1>1, <1>2, <1>4, <1>5
    <3> QED
      BY <1>3, <3>1
  <2>3. CASE i \in new /\ j \in new
    <3>1. i \in ahead'[j] <=> i \in Above(j)
      BY <1>2, <1>3, <2>3
    <3>2. j \in ahead'[i] <=> j \in Above(i)
      BY <1>2, <1>3, <2>3
    <3>3. CASE i \in gen /\ j \in gen
      BY <1>9, <3>1, <3>2, <3>3, GeneratedOrder
    <3>4. \A x \in gen : x \in Above(k) /\ k \notin Above(x)
      BY <1>1, GeneratedNew
    <3> QED
      BY <1>9, <2>3, <3>1, <3>2, <3>3, <3>4
  <2> QED
    BY <1>2, <2>1, <2>2, <2>3
<1>10. ASSUME NEW i \in Installed', NEW j \in Installed', j \in ahead'[i]
       PROVE  ahead'[j] \subseteq ahead'[i]
  <2>1. CASE i \in old
    <3>1. j \in ahead[i] /\ j \in old
      BY <1>2, <1>4, <1>5, <1>10, <2>1
    <3>2. ahead[j] \subseteq ahead[i]
      BY <2>1, <3>1 DEF ListIsExact
    <3> QED
      BY <1>2, <1>4, <2>1, <3>1, <3>2
  <2>2. CASE i \in new /\ j \in old
    <3>1. ahead'[j] \subseteq old
      BY <1>2, <1>4, <1>5, <2>2
    <3> QED
      BY <1>3, <2>2, <3>1
  <2>3. CASE i \in new /\ j \in new
    <3>1. j \in gen /\ j[1] \in Anc[i[1]]
      BY <1>2, <1>3, <1>10, <2>3
    <3>2. i[1] \in Paths
      BY <2>3, AddedPlace
    <3>3. Anc[j[1]] \subseteq Anc[i[1]]
      BY <3>1, <3>2, PathAssumption
    <3> QED
      BY <1>3, <2>3, <3>3
  <2> QED
    BY <1>2, <2>1, <2>2, <2>3
<1> QED
  BY <1>7, <1>8, <1>9, <1>10 DEF ListIsExact

LEMMA DropList ==
  ASSUME TableTypeOK, ListIsExact, NEW gone \in SUBSET Keys, Drop(gone)
  PROVE  ListIsExact'
<1>1. Installed' = Installed \ gone
  BY DEF Drop, Installed
<1>2. \A x \in Keys \ gone : ahead'[x] = ahead[x] \ gone
  BY DEF Drop
<1>3. \A x \in gone : ahead'[x] = {}
  BY DEF Drop
<1>4. Installed \subseteq Keys
  BY DEF Installed
<1>5. \A x \in Keys : ahead'[x] \subseteq Installed' \ {x}
  BY <1>1, <1>2, <1>3 DEF ListIsExact
<1>6. \A x \in Keys \ Installed' : ahead'[x] = {}
  BY <1>1, <1>2, <1>3 DEF ListIsExact
<1>7. ASSUME NEW i \in Installed', NEW j \in Installed'
      PROVE  /\ i \in ahead'[j] <=> i \in ahead[j]
             /\ j \in ahead'[i] <=> j \in ahead[i]
             /\ ahead[j] \subseteq ahead[i] => ahead'[j] \subseteq ahead'[i]
  BY <1>1, <1>2, <1>4
<1>8. \A i, j \in Installed' : i # j => (i \in ahead'[j]) # (j \in ahead'[i])
  BY <1>1, <1>7 DEF ListIsExact
<1>9. \A i, j \in Installed' : j \in ahead'[i] => ahead'[j] \subseteq ahead'[i]
  BY <1>1, <1>7 DEF ListIsExact
<1> QED
  BY <1>5, <1>6, <1>8, <1>9 DEF ListIsExact

LEMMA PreserveList ==
  ASSUME TableTypeOK, ListIsExact, NEW k \in Installed, Preserve(k)
  PROVE  ListIsExact'
<1>1. Installed' = Installed /\ k \in Keys /\ Installed \subseteq Keys
  BY PayloadAssumption DEF Preserve, Installed, TableTypeOK
<1>2. ahead'[k] = Installed \ {k}
  BY <1>1 DEF Preserve, Others
<1>3. \A x \in Keys \ {k} : ahead'[x] = ahead[x] \ {k}
  BY DEF Preserve
<1>4. \A x \in Keys : ahead'[x] \subseteq Installed' \ {x}
  BY <1>1, <1>2, <1>3 DEF ListIsExact
<1>5. \A x \in Keys \ Installed' : ahead'[x] = {}
  BY <1>1, <1>3 DEF ListIsExact
<1>6. ASSUME NEW i \in Installed', NEW j \in Installed', i # j
      PROVE  (i \in ahead'[j]) # (j \in ahead'[i])
  <2>1. CASE i = k
    BY <1>1, <1>2, <1>3, <1>6, <2>1
  <2>2. CASE j = k
    BY <1>1, <1>2, <1>3, <1>6, <2>2
  <2>3. CASE i # k /\ j # k
    <3>1. i \in ahead'[j] <=> i \in ahead[j]
      BY <1>1, <1>3, <2>3
    <3>2. j \in ahead'[i] <=> j \in ahead[i]
      BY <1>1, <1>3, <2>3
    <3> QED
      BY <1>1, <1>6, <3>1, <3>2 DEF ListIsExact
  <2> QED
    BY <2>1, <2>2, <2>3
<1>7. ASSUME NEW i \in Installed', NEW j \in Installed', j \in ahead'[i]
      PROVE  ahead'[j] \subseteq ahead'[i]
  <2>1. j # k /\ i # j
    BY <1>1, <1>2, <1>3, <1>4, <1>7
  <2>2. CASE i = k
    BY <1>1, <1>2, <1>3, <2>1, <2>2 DEF ListIsExact
  <2>3. CASE i # k
    BY <1>1, <1>3, <1>7, <2>1, <2>3 DEF ListIsExact
  <2> QED
    BY <2>2, <2>3
<1> QED
  BY <1>4, <1>5, <1>6, <1>7 DEF ListIsExact

(* GET_LIST shows each installed rule once, after every sequence of calls: the list is
   a strict total order of exactly the installed rules (ListIsExact). *)
THEOREM ListAlwaysExact == TableSpec => []ListIsExact
<1>1. TableInit => ListIsExact
  BY DEF TableInit, ListIsExact, Installed
<1>2. TableTypeOK /\ ListIsExact /\ [TableNext]_table => ListIsExact'
  <2> SUFFICES ASSUME TableTypeOK, ListIsExact, [TableNext]_table PROVE ListIsExact'
    OBVIOUS
  <2>1. UNCHANGED table => ListIsExact'
    BY DEF table, ListIsExact, Installed
  <2> QED
    BY <2>1, StepShapes, AddList, DropList, PreserveList
<1> QED
  BY <1>1, <1>2, TypeCorrect, PTL DEF TableSpec

-----------------------------------------------------------------------------
(* Deleting and refreshing keep what others see *)

(* A set of rules that a caller can walk, each from one of the set or from a native
   directory, and preferred in its directory. *)
Walk(S, u) ==
  /\ S \in SUBSET {k \in Installed : k[2] \in {u, Global}}
  /\ \A k \in S : /\ up[k] = Native \/ up[k] \in S
                  /\ k[2] = u \/ up[<<k[1], u>>] # up[k]

LEMMA VisibleWalk ==
  ASSUME NEW u PROVE \A x : x \in Visible(u) <=> \E S : Walk(S, u) /\ x \in S
  BY DEF Visible, Walk

(* The same of the state after a step. *)
LEMMA VisibleWalkNext ==
  ASSUME NEW u PROVE \A x : (\E S : Walk(S, u)' /\ x \in S) => x \in Visible(u)'
  BY DEF Visible, Walk

(* What a delete prunes is a virtual directory above the deleted rule, and what hangs from
   it is pruned as well or is the deleted rule. *)
LEMMA PrunedClosed ==
  ASSUME NEW k, NEW d \in Pruned(k)
  PROVE  d \in VirtualAbove(k) /\ Children(d) \subseteq Pruned(k) \cup {k}
  BY DEF Pruned

(* The only explicit rules it prunes are opaque directories that become empty. *)
LEMMA PrunedEmptied ==
  ASSUME NEW k, NEW d \in Pruned(k), Explicit(d)
  PROVE  Emptied(d, k)
<1>1. Pruned(k) \subseteq VirtualAbove(k)
  BY PrunedClosed
<1>2. d \in VirtualAbove(k) /\ Children(d) \subseteq {k} \cup VirtualAbove(k)
  BY <1>1, PrunedClosed
<1>3. rules[d] # Derived
  BY PayloadAssumption DEF Explicit
<1> QED
  BY <1>2, <1>3 DEF Emptied, VirtualAbove

LEMMA DelKeeps ==
  ASSUME NEW k \in Keys, Del(k), NEW u \in Uids, NEW x \in Visible(u) \ {k},
         Explicit(x), ~Emptied(x, k)
  PROVE  rules'[x] = rules[x] /\ x \in Visible(u)'
<1>1. PICK S : Walk(S, u) /\ x \in S
  BY VisibleWalk
<1>2. x \in Keys /\ S \subseteq Keys
  BY <1>1 DEF Walk, Installed
<1>3. CASE Children(k) # {} /\ Preserve(k)
  <2>1. \A y \in Keys : y \in Installed => y \in Installed'
    BY PayloadAssumption, <1>3 DEF Preserve, Installed
  <2>2. Walk(S, u)'
    BY <1>1, <1>2, <1>3, <2>1 DEF Preserve, Walk, Installed
  <2>3. x \in Visible(u)'
    BY <1>1, <2>2, VisibleWalkNext
  <2>4. rules'[x] = rules[x]
    BY <1>3 DEF Preserve
  <2> QED
    BY <2>3, <2>4
<1>4. CASE Children(k) = {} /\ Drop({k} \cup Pruned(k))
  <2> DEFINE gone == {k} \cup Pruned(k)
  <2>0. PICK T : T = S \ gone
    OBVIOUS
  <2>1. x \in T
    BY <1>1, <2>0, PrunedEmptied
  <2>2. ASSUME NEW y \in T PROVE up[y] \notin gone
    <3>1. \A d : up[y] = d => y \in Children(d)
      BY <1>2, <2>0 DEF Children
    <3> QED
      BY <1>4, <2>0, <3>1, PrunedClosed
  <2>3. \A y \in Keys : up'[y] = IF y \in gone THEN None ELSE IF up[y] \in gone THEN Orphan ELSE up[y]
    BY <1>4 DEF Drop
  <2>4. \A y \in Keys \ gone : rules'[y] = rules[y]
    BY <1>4 DEF Drop
  <2>5. \A y \in T : up'[y] = up[y]
    BY <1>2, <2>0, <2>2, <2>3
  <2>6. T \in SUBSET {y \in Installed' : y[2] \in {u, Global}}
    BY <1>1, <1>2, <2>0, <2>4 DEF Walk, Installed
  <2>7. ASSUME NEW y \in T
        PROVE  (up'[y] = Native \/ up'[y] \in T) /\ (y[2] = u \/ up'[<<y[1], u>>] # up'[y])
    <3>1. up[y] = Native \/ up[y] \in S
      BY <1>1, <2>0 DEF Walk
    <3>2. up'[y] = Native \/ up'[y] \in T
      BY <2>0, <2>2, <2>5, <3>1
    <3>3. up'[y] # None /\ up'[y] # Orphan
      BY <1>2, <2>0, <3>2, MarksApart
    <3>4. <<y[1], u>> \in Keys
      BY <1>2, <2>0 DEF Keys
    <3>5. y[2] = u \/ up[<<y[1], u>>] # up[y]
      BY <1>1, <2>0 DEF Walk
    <3> QED
      BY <2>3, <2>5, <3>2, <3>3, <3>4, <3>5
  <2>8. Walk(T, u)'
    BY <2>6, <2>7 DEF Walk
  <2> QED
    BY <1>2, <2>0, <2>1, <2>4, <2>8, VisibleWalkNext
<1> QED
  BY <1>3, <1>4 DEF Del

(* No delete changes another explicit rule or hides one from a caller that saw it, but
   opaque directories that it leaves empty (DelKeepsOthers), whatever was installed. *)
THEOREM DelAlwaysKeepsOthers == TableSpec => DelKeepsOthers
<1>1. [TableNext]_table =>
        [\A k \in Installed : Del(k) =>
           \A u \in Uids : \A x \in Visible(u) \ {k} :
             Explicit(x) /\ ~Emptied(x, k) => rules'[x] = rules[x] /\ x \in Visible(u)']_table
  BY DelKeeps DEF Installed
<1> QED
  BY <1>1, PTL DEF TableSpec, DelKeepsOthers

LEMMA RefreshKeeps ==
  ASSUME NEW k \in Installed, NEW v \in Dirs, Add(k, v), up'[k] = up[k], NEW u \in Uids
  PROVE  Visible(u) \subseteq Visible(u)'
<1> SUFFICES ASSUME NEW x \in Visible(u) PROVE x \in Visible(u)'
  OBVIOUS
<1> DEFINE gen == Generated(k)
<1>1. PICK S : Walk(S, u) /\ x \in S
  BY VisibleWalk
<1>2. S \subseteq Installed /\ Installed \subseteq Keys /\ k \in Keys
  BY <1>1 DEF Walk, Installed
<1>3. gen \cap Installed = {}
  BY <1>2, GeneratedApart
<1>4. \A y \in Keys \ gen : up'[y] = up[y]
  BY DEF Add, Heir
<1>5. Installed \subseteq Installed'
  <2>1. v # None
    BY PayloadAssumption DEF Payloads
  <2> QED
    BY <1>3, <2>1 DEF Add, Installed
<1>6. ASSUME NEW y \in S
      PROVE  (up'[y] = Native \/ up'[y] \in S) /\ (y[2] = u \/ up'[<<y[1], u>>] # up'[y])
  <2>1. up'[y] = up[y]
    BY <1>2, <1>3, <1>4
  <2>2. y \in Keys /\ y[2] \in {u, Global} /\ y = <<y[1], y[2]>>
    BY <1>1, <1>2 DEF Walk, Keys
  <2>3. CASE y[2] = u
    BY <1>1, <2>1, <2>3 DEF Walk
  <2>4. CASE y[2] = Global /\ y[2] # u
    <3>1. rules[<<y[1], Global>>] # None
      BY <1>2, <2>2, <2>4 DEF Installed
    <3>2. <<y[1], u>> \notin gen
      BY <1>2, <3>1, GeneratedNew
    <3>3. <<y[1], u>> \in Keys
      BY <2>2 DEF Keys
    <3> QED
      BY <1>1, <1>4, <2>1, <2>4, <3>2, <3>3 DEF Walk
  <2> QED
    BY <2>2, <2>3, <2>4
<1>7. S \in SUBSET {y \in Installed' : y[2] \in {u, Global}}
  BY <1>1, <1>5 DEF Walk
<1>8. Walk(S, u)'
  BY <1>6, <1>7 DEF Walk
<1> QED
  BY <1>1, <1>8, VisibleWalkNext

(* Replacing a directory where it hangs hides nothing from anybody
   (RefreshKeepsSubtree), whatever was installed before. *)
THEOREM RefreshAlwaysKeeps == TableSpec => RefreshKeepsSubtree
<1>1. [TableNext]_table =>
        [\A k \in Installed :
           IsDir(k) /\ up'[k] = up[k] /\ rules'[k] \in Dirs /\ Add(k, rules'[k]) =>
             \A u \in Uids : Visible(u) \subseteq Visible(u)']_table
  <2> SUFFICES ASSUME NEW k \in Installed, up'[k] = up[k], rules'[k] \in Dirs,
                      Add(k, rules'[k]), NEW u \in Uids
               PROVE  Visible(u) \subseteq Visible(u)'
    OBVIOUS
  <2>1. PICK v \in Dirs : v = rules'[k]
    OBVIOUS
  <2> QED
    BY <2>1, RefreshKeeps
<1> QED
  BY <1>1, PTL DEF TableSpec, RefreshKeepsSubtree
=============================================================================
