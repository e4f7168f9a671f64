------------------------ MODULE RuleTransactionProofs ------------------------
(***************************************************************************)
(* The properties of RuleTransaction for every tree of paths, every two     *)
(* plans, page length and number of failures and commands.                   *)
(***************************************************************************)
EXTENDS RuleTransaction, RuleTableProofs, FiniteSetTheorems

-----------------------------------------------------------------------------
(* Depths and batches *)

(* A function into the naturals has a least value. *)
LEMMA LeastValue ==
  ASSUME NEW S, S # {}, NEW f \in [S -> Nat]
  PROVE  \E x \in S : \A y \in S : f[x] =< f[y]
<1> DEFINE T == {f[x] : x \in S}
<1>1. T \subseteq Nat /\ T # {}
  OBVIOUS
<1> DEFINE R == {ss \in Nat \X Nat : ss[1] < ss[2]}
<1>2. IsWellFoundedOn(R, Nat)
  BY NatLessThanWellFounded DEF OpToRel
<1>3. PICK n \in T : \A m \in T : ~(<<m, n>> \in R)
  <2> HIDE DEF T, R
  <2> QED BY <1>1, <1>2, WFMin
<1>4. n \in Nat
  BY <1>1, <1>3
<1>5. ASSUME NEW m \in T PROVE n =< m
  <2>1. m \in Nat /\ <<m, n>> \notin R
    BY <1>1, <1>3
  <2>2. ~(m < n)
    BY <1>4, <2>1
  <2> QED
    BY <1>4, <2>1, <2>2
<1> QED
  BY <1>3, <1>5

(* There are finitely many keys. *)
LEMMA KeysFinite == IsFiniteSet(Keys)
  BY FiniteAssumption, FS_Product DEF Keys

LEMMA DepthType ==
  ASSUME NEW p \in Paths PROVE IsFiniteSet(Anc[p]) /\ Depth(p) \in Nat
  BY PathAssumption, FiniteAssumption, FS_Subset, FS_CardinalityType DEF Depth

(* A directory is less deep than what is below it. *)
LEMMA DepthLess ==
  ASSUME NEW p \in Paths, NEW a \in Anc[p]
  PROVE  a \in Paths /\ Depth(a) < Depth(p)
<1>1. a \in Paths /\ Anc[a] \subseteq Anc[p] /\ Anc[a] # Anc[p]
  BY PathAssumption
<1>2. Depth(a) =< Depth(p) /\ Depth(a) # Depth(p)
  BY <1>1, DepthType, FS_Subset DEF Depth
<1> QED
  BY <1>1, <1>2, DepthType

(* Parents first: nothing above the next path of a batch is still to be sent. *)
LEMMA ShallowestFirst ==
  ASSUME NEW S \in SUBSET Paths, NEW p \in Shallowest(S)
  PROVE  p \in S /\ Anc[p] \cap S = {}
<1>1. p \in S /\ p \in Paths /\ \A q \in S : Depth(p) =< Depth(q)
  BY DEF Shallowest
<1>2. \A a \in Anc[p] : Depth(a) < Depth(p) /\ a \in Paths
  BY <1>1, DepthLess
<1> QED
  BY <1>1, <1>2, DepthType

-----------------------------------------------------------------------------
(* Pages: the ranks of the installed rules are 0, 1, ... without a gap *)

Rank(k) == Cardinality(ahead[k])

LEMMA RankType ==
  ASSUME TableTypeOK, NEW k \in Keys PROVE IsFiniteSet(ahead[k]) /\ Rank(k) \in Nat
  BY KeysFinite, FS_Subset, FS_CardinalityType DEF TableTypeOK, Rank

LEMMA RankLess ==
  ASSUME TableTypeOK, ListIsExact, NEW k \in Installed, NEW j \in ahead[k]
  PROVE  j \in Installed /\ Rank(j) < Rank(k)
<1>1. k \in Keys /\ j \in Installed /\ j \in Keys
  BY DEF ListIsExact, Installed
<1>2. ahead[j] \subseteq ahead[k] /\ j \notin ahead[j]
  BY <1>1 DEF ListIsExact
<1>3. Rank(j) =< Rank(k) /\ Rank(j) # Rank(k)
  BY <1>1, <1>2, RankType, FS_Subset DEF Rank
<1> QED
  BY <1>1, <1>3, RankType

LEMMA RankApart ==
  ASSUME TableTypeOK, ListIsExact, NEW j \in Installed, NEW k \in Installed, Rank(j) = Rank(k)
  PROVE  j = k
<1>1. j # k => j \in ahead[k] \/ k \in ahead[j]
  BY DEF ListIsExact
<1>2. j \in Keys /\ k \in Keys
  BY DEF Installed
<1> QED
  BY <1>1, <1>2, RankLess, RankType

(* As many rules are ahead of one as there are ranks below its own, at most. *)
LEMMA RanksDistinct ==
  ASSUME TableTypeOK, ListIsExact, NEW S \in SUBSET Installed, NEW m \in Nat, NEW n \in Nat,
         \A k \in S : Rank(k) \in m .. m + n - 1
  PROVE  IsFiniteSet(S) /\ Cardinality(S) =< n
<1> DEFINE f == [k \in S |-> Rank(k)]
<1> DEFINE T == m .. m + n - 1
<1>1. f \in [S -> T]
  OBVIOUS
<1>2. \A j, k \in S : f[j] = f[k] => j = k
  BY RankApart
<1>3. f \in Injection(S, T)
  BY <1>1, <1>2 DEF Injection, IsInjective
<1>4. IsFiniteSet(T) /\ Cardinality(T) = n
  BY FS_Interval
<1> QED
  BY <1>3, <1>4, FS_Injection

(* A page has no more records than its length. *)
LEMMA PageFits ==
  ASSUME TableTypeOK, ListIsExact, cursor \in Nat
  PROVE  Cardinality(Page) \in Nat /\ Cardinality(Page) =< PageLen
<1>1. Page \subseteq Installed /\ \A k \in Page : Rank(k) \in cursor .. cursor + PageLen - 1
  BY DEF Page, Rank
<1> QED
  BY <1>1, RanksDistinct, PlanAssumption, FS_CardinalityType

(* An empty page is the end of the list. *)
LEMMA LastPage ==
  ASSUME TableTypeOK, ListIsExact, cursor \in Nat, Page = {}, NEW k \in Installed
  PROVE  Rank(k) < cursor
<1> SUFFICES ASSUME Rank(k) >= cursor PROVE FALSE
  BY RankType DEF Installed
<1> DEFINE S == {j \in Installed : Rank(j) >= cursor}
<1> DEFINE f == [j \in S |-> Rank(j)]
<1>1. S # {} /\ f \in [S -> Nat]
  BY RankType DEF Installed
<1>2. PICK j \in S : \A i \in S : f[j] =< f[i]
  <2> HIDE DEF S, f
  <2> QED BY <1>1, LeastValue
<1>3. j \in Installed /\ j \in Keys /\ Rank(j) \in Nat /\ Rank(j) >= cursor
  BY RankType DEF Installed
<1>4. \A i \in ahead[j] : i \in Installed /\ Rank(i) \in 0 .. 0 + cursor - 1
  <2> SUFFICES ASSUME NEW i \in ahead[j] PROVE i \in Installed /\ Rank(i) \in 0 .. cursor - 1
    OBVIOUS
  <2>1. i \in Installed /\ Rank(i) < Rank(j) /\ Rank(i) \in Nat
    BY <1>3, RankLess, RankType DEF Installed
  <2>2. ~(Rank(i) >= cursor)
    BY <1>2, <1>3, <2>1
  <2> QED
    BY <2>1, <2>2
<1>5. Rank(j) =< cursor
  <2> HIDE DEF S, f
  <2> QED BY <1>4, RanksDistinct DEF Rank
<1>6. j \in Page
  BY <1>3, <1>5, PlanAssumption DEF Page, Rank
<1> QED
  BY <1>6

-----------------------------------------------------------------------------
(* The inductive invariant *)

Records == Keys \X (Payloads \cup {Derived})

Wanted == Planned(before) \cup Planned(after)

(* Paths at which the calls sent so far may have changed a rule of a plan. *)
Touched == Planned(before) \cup Planned(Tried)

Changing == {"delete", "put", "verify", "survey", "undo", "resurvey", "restore", "confirm"}

TypeInv ==
  /\ TableTypeOK
  /\ before \in Plans /\ after \in Plans
  /\ pc \in {"boot"} \cup Listing \cup Sending \cup Over
  /\ todo \in SUBSET Paths /\ page \in {"between", "locked", "failing"}
  /\ cursor \in Nat /\ seen \in SUBSET Records /\ foreign \in SUBSET Records
  /\ attempted \in BOOLEAN /\ quiet \in BOOLEAN
  /\ ext \in Nat /\ faults \in Nat
  /\ start.rules \in [Keys -> Payloads \cup {Derived, None}]
  /\ start.visible \in [Uids -> SUBSET Keys]

(* What each batch holds. *)
BatchInv ==
  /\ pc \in {"boot", "restore"} => todo \subseteq Planned(before)
  /\ pc = "delete" => todo \subseteq Obsolete
  /\ pc = "put" => todo \subseteq Planned(Tried)
  /\ pc = "undo" => todo \subseteq Planned(Tried) \ Planned(before)
  /\ pc \in Listing \cup Over => todo = {}
  /\ pc \in {"boot", "check", "refused", "delete"} => ~attempted
  /\ pc \in {"boot", "check"} => foreign = {}
  /\ page # "between" => pc \in {"boot", "delete", "put"} /\ todo # {}

(* No record that is held to be foreign lies at a path of the two plans, and no explicit
   one above. *)
ForeignInv ==
  \A r \in foreign :
    /\ r[1] \notin {Own(p) : p \in Wanted}
    /\ r[2] # Derived => \A p \in Wanted : r[1][1] \notin Anc[p]

(* What has been listed is there, and nothing before the cursor is missing. *)
SeenInv ==
  quiet /\ pc \in Listing =>
    /\ \A r \in seen : rules[r[1]] = r[2]
    /\ \A k \in Installed : Rank(k) < cursor => <<k, rules[k]>> \in seen

(* Nothing has changed before the check. *)
StartInv ==
  quiet /\ pc = "check" =>
    start.rules = rules /\ \A u \in Uids : start.visible[u] = Visible(u)

(* The explicit rules that no call was sent for are those of the start. *)
Frame ==
  \A k \in Keys \ {Own(p) : p \in Touched} :
    Explicit(k) \/ start.rules[k] \in Payloads => rules[k] = start.rules[k]

(* Foreign explicit rules are neither at, above nor below a path of the plans. *)
Apart ==
  \A k \in Keys \ {Own(p) : p \in Planned(before)} : start.rules[k] \in Payloads =>
    \A p \in Wanted : k[1] # p /\ k[1] \notin Anc[p] /\ p \notin Anc[k[1]]

QuietInv == quiet /\ pc \in Changing => Frame /\ Apart /\ OthersVisible

FinalInv == OkIsExact /\ CleanIsBefore

Way(p) == Anc[p] \cup {p}
Ways == UNION {Way(p) : p \in Planned(after)}

(* Its rule has been put again. *)
Renewed(p) == pc \in {"put", "verify"} /\ p \in Planned(after) \ todo

(* On the way to a wanted path, what has no way up was cut off before, or is below
   something that was, and that has not been put again. *)
CutBefore ==
  \A a \in Ways : up[Own(a)] = Orphan => \E b \in Way(a) : CutOff(b) /\ ~Renewed(b)

(* What has been put since lies below nothing that is still to be put. *)
NewBelowNone ==
  \A a \in Paths : Own(a) \in Installed /\ start.rules[Own(a)] = None =>
    pc # "delete" /\ Anc[a] \cap todo = {}

ParentsPut == pc = "put" => \A a \in Planned(after) \ todo : Anc[a] \cap todo = {}

Forward == {"delete", "put", "verify"}

(* No call has failed: the page that is being processed has no failing record either. *)
Unfailed == pc \in Forward /\ page # "failing"

WaysInv == quiet /\ Unfailed => CutBefore /\ NewBelowNone /\ ParentsPut

(* What a caller could reach when reconcile began, it reached by way of all above. *)
StartClosed ==
  pc # "boot" =>
    \A a \in Paths : Own(a) \in start.visible[Global] =>
      \A b \in Anc[a] : Own(b) \in start.visible[Global]

(* Calls change the rules of the plans only to what one of the plans has there. *)
Values == \A p \in Touched : rules[Own(p)] \in {before[p], Tried[p], Derived, None}

(* Before the first failure: what was sent is done. *)
Sent ==
  /\ \A p \in Obsolete : Explicit(Own(p)) => pc = "delete" /\ p \in todo
  /\ pc \in {"put", "verify"} => \A p \in Planned(after) \ todo : rules[Own(p)] = after[p]

(* If there was just one failure, the rollback succeeds in all it sends. *)
Restored ==
  /\ \A p \in Planned(Tried) \ Planned(before) :
       Explicit(Own(p)) => pc = "survey" \/ (pc = "undo" /\ p \in todo)
  /\ pc \in {"restore", "confirm"} => \A p \in Planned(before) \ todo : rules[Own(p)] = before[p]

ForeignStart == \A r \in foreign : start.rules[r[1]] = r[2]

RepairInv ==
  /\ start.faults \in Nat
  /\ quiet /\ pc \in Changing => Values /\ ForeignStart
  /\ quiet /\ pc = "check" => faults = start.faults
  /\ quiet /\ Unfailed => faults = start.faults /\ Sent
  /\ quiet /\ pc \in Changing /\ ~Unfailed =>
       faults < start.faults /\ (pc \notin Forward /\ faults + 1 = start.faults => Restored)
  /\ SingleFailureRepaired

TableInv == TableTypeOK /\ ListIsExact /\ LinksAreLive

IInv ==
  /\ TypeInv /\ TableInv /\ BatchInv /\ ForeignInv /\ SeenInv /\ StartInv
  /\ QuietInv /\ StartClosed /\ WaysInv /\ FinalInv /\ RepairInv

-----------------------------------------------------------------------------
(* What a call can do to the table *)

(* An ADD or a DEL for a path of a plan, done or failed half way. *)
OwnCall(p) ==
  \/ \E v \in Payloads : Add(Own(p), v)
  \/ AddLoses(Own(p)) \/ Del(Own(p))

LEMMA OwnKey ==
  ASSUME NEW p \in Paths PROVE Own(p) \in Keys /\ Own(p)[1] = p /\ Own(p)[2] = Global
  BY PayloadAssumption DEF Own, Keys

LEMMA PlannedPayload ==
  ASSUME NEW plan \in Plans, NEW p \in Planned(plan) PROVE p \in Paths /\ plan[p] \in Payloads
  BY PlanAssumption DEF Planned

LEMMA PutFailsIsCall ==
  ASSUME NEW p \in Paths, NEW v \in Payloads, PutFails(p, v) PROVE UNCHANGED table \/ OwnCall(p)
  BY DEF PutFails, OwnCall

LEMMA DeletedIsCall ==
  ASSUME NEW p \in Paths, Deleted(p) PROVE UNCHANGED table \/ OwnCall(p)
  BY DEF Deleted, OwnCall

LEMMA DeleteFailsIsCall ==
  ASSUME NEW p \in Paths, DeleteFails(p) PROVE UNCHANGED table \/ OwnCall(p)
  BY DeletedIsCall DEF DeleteFails

(* The steps that send a call, and those that only read. *)
Call == BootPut \/ Delete \/ Put \/ Undo \/ Restore

LEMMA ReadSteps ==
  ASSUME [Next]_vars, ~Call, ~Command PROVE UNCHANGED table
  BY DEF Next, Reconcile, Call, vars, Begin, ReadPage, Check, CheckFails, PutBegin, PutEnd, Verify,
     VerifyFails, Survey, UndoEnd, Resurvey, RestoreEnd, Confirm, RollbackFails

(* Every call of a batch is for one of the paths still to be sent. *)
LEMMA BatchCalls ==
  ASSUME TypeInv, BatchInv, Call
  PROVE  \E p \in todo : /\ UNCHANGED table \/ OwnCall(p)
                         /\ p \in Touched
<1>1. \A p \in Planned(before) : p \in Paths /\ before[p] \in Payloads
  BY PlannedPayload DEF TypeInv
<1>2. \A p \in Planned(after) : p \in Paths /\ after[p] \in Payloads
  BY PlannedPayload DEF TypeInv
<1>3. Planned(Nothing) = {}
  BY DEF Planned, Nothing
<1>4. Planned(Tried) \subseteq Planned(after)
  BY <1>3 DEF Tried
<1>5. CASE BootPut
  <2>1. PICK p \in Shallowest(todo) : Add(Own(p), before[p]) \/ PutFails(p, before[p])
    BY <1>5 DEF BootPut, Record
  <2>2. p \in todo /\ p \in Planned(before)
    BY <1>5, <2>1 DEF BootPut, BatchInv, Shallowest
  <2> QED
    BY <1>1, <2>1, <2>2, PutFailsIsCall DEF OwnCall, Touched
<1>6. CASE Delete
  <2>1. PICK p \in Deepest(todo) : Deleted(p) \/ DeleteFails(p)
    BY <1>6 DEF Delete
  <2>2. p \in todo /\ p \in Planned(before)
    BY <1>6, <2>1 DEF Delete, BatchInv, Deepest, Obsolete
  <2> QED
    BY <1>1, <2>1, <2>2, DeletedIsCall, DeleteFailsIsCall DEF Touched
<1>7. CASE Put
  <2>1. PICK p \in Shallowest(todo) : Add(Own(p), after[p]) \/ PutFails(p, after[p])
    BY <1>7 DEF Put, Record
  <2>2. p \in todo /\ p \in Planned(Tried)
    BY <1>7, <2>1 DEF Put, BatchInv, Shallowest
  <2> QED
    BY <1>2, <1>4, <2>1, <2>2, PutFailsIsCall DEF OwnCall, Touched
<1>8. CASE Undo
  <2>1. PICK p \in Deepest(todo) : Deleted(p) \/ DeleteFails(p)
    BY <1>8 DEF Undo
  <2>2. p \in todo /\ p \in Planned(Tried)
    BY <1>8, <2>1 DEF Undo, BatchInv, Deepest
  <2> QED
    BY <1>2, <1>4, <2>1, <2>2, DeletedIsCall, DeleteFailsIsCall DEF Touched
<1>9. CASE Restore
  <2>1. PICK p \in Shallowest(todo) : Add(Own(p), before[p]) \/ PutFails(p, before[p])
    BY <1>9 DEF Restore
  <2>2. p \in todo /\ p \in Planned(before)
    BY <1>9, <2>1 DEF Restore, BatchInv, Shallowest
  <2> QED
    BY <1>1, <2>1, <2>2, PutFailsIsCall DEF OwnCall, Touched
<1> QED
  BY <1>5, <1>6, <1>7, <1>8, <1>9 DEF Call

(* All other steps but the command line's leave the table alone. *)
LEMMA StepCalls ==
  ASSUME TypeInv, BatchInv, [Next]_vars, ext' = ext
  PROVE  \/ UNCHANGED table
         \/ \E p \in todo : OwnCall(p) /\ p \in Touched
<1>1. ~Command
  BY DEF Command, TypeInv
<1> QED
  BY <1>1, BatchCalls, ReadSteps

(* The table stays what RuleTable says of it. *)
LEMMA CallKeepsTable ==
  ASSUME TableInv, NEW k \in Keys, AddLoses(k) \/ Del(k) \/ \E v \in Payloads : Add(k, v)
  PROVE  TableInv'
<1>1. ASSUME NEW v \in Payloads, Add(k, v) PROVE TableInv'
  BY <1>1, AddType, AddLinks, AddList DEF TableInv
<1>2. ASSUME NEW gone \in SUBSET Keys, Drop(gone) PROVE TableInv'
  BY <1>2, DropType, DropLinks, DropList DEF TableInv
<1>3. CASE k \in Installed /\ Preserve(k)
  BY <1>3, PreserveType, PreserveLinks, PreserveList DEF TableInv
<1>4. CASE AddLoses(k)
  BY <1>2, <1>4 DEF AddLoses
<1>5. CASE Del(k)
  <2>1. {k} \cup Pruned(k) \subseteq Keys
    BY DEF Pruned, VirtualAbove
  <2> QED
    BY <1>2, <1>3, <1>5, <2>1 DEF Del, Removable
<1> QED
  BY <1>1, <1>4, <1>5

LEMMA TableStep ==
  ASSUME TypeInv, BatchInv, TableInv, [Next]_vars PROVE TableInv'
<1>1. CASE UNCHANGED table
  BY <1>1 DEF table, TableInv, TableTypeOK, ListIsExact, LinksAreLive, Installed, IsDir
<1>2. CASE \E p \in todo : OwnCall(p)
  BY <1>2, CallKeepsTable, OwnKey DEF OwnCall, TypeInv
<1>3. CASE Command
  <2>1. CASE Clear
    <3>1. Installed \in SUBSET Keys
      BY DEF Installed
    <3> QED
      BY <2>1, <3>1, DropType, DropLinks, DropList DEF Clear, TableInv
  <2>2. CASE \E k \in Keys : Del(k) \/ AddLoses(k) \/ \E v \in ExtPayloads : Add(k, v)
    BY <2>2, CallKeepsTable, PlanAssumption
  <2> QED
    BY <1>3, <2>1, <2>2 DEF Command
<1>4. CASE ~Command
  BY <1>1, <1>2, <1>4, BatchCalls, ReadSteps
<1> QED
  BY <1>3, <1>4

-----------------------------------------------------------------------------
(* Types, batches and foreign records *)

LEMMA PageRecords ==
  ASSUME TableTypeOK PROVE {<<k, rules[k]>> : k \in Page} \subseteq Records
  BY DEF Page, Installed, TableTypeOK, Records

LEMMA VisibleType ==
  ASSUME NEW u PROVE Visible(u) \subseteq Keys
  BY DEF Visible, Installed

LEMMA ObservedType ==
  ASSUME TableTypeOK
  PROVE  /\ Observed.rules = rules
         /\ Observed.rules \in [Keys -> Payloads \cup {Derived, None}]
         /\ Observed.visible = [u \in Uids |-> Visible(u)]
         /\ Observed.visible \in [Uids -> SUBSET Keys]
  BY VisibleType DEF Observed, TableTypeOK

LEMMA TypeStep ==
  ASSUME TypeInv, TableInv, TableInv', [Next]_vars PROVE TypeInv'
<1>22. ASSUME Command PROVE ext' \in Nat /\ quiet' \in BOOLEAN
  <2>1. ext \in Nat
    BY DEF TypeInv
  <2>2. ext > 0 /\ ext' = ext - 1 /\ quiet' = FALSE
    BY <1>22 DEF Command
  <2>3. ext' \in Nat
    BY ONLY <2>1, <2>2
  <2>4. quiet' \in BOOLEAN
    BY ONLY <2>2
  <2> QED
    BY ONLY <2>3, <2>4
<1> USE DEF TypeInv, TableInv, local, Read, Send, End, Listing, Sending, Over
<1>0. /\ \A plan \in Plans : Planned(plan) \subseteq Paths
      /\ Planned(Nothing) \subseteq Paths
  BY DEF Planned
<1>23. Fault => faults' \in Nat
  BY DEF Fault
<1>1. CASE BootPut
  BY <1>1, <1>23 DEF BootPut, Record, PutFails, FailsAt
<1>2. CASE Begin
  BY <1>2, ObservedType DEF Begin
<1>3. CASE ReadPage
  BY <1>3, PageRecords, PageFits DEF ReadPage
<1>4. CASE Check
  BY <1>0, <1>4 DEF Check, Obsolete, NotOwned
<1>5. CASE CheckFails
  BY <1>5, <1>23 DEF CheckFails
<1>6. CASE Delete
  BY <1>6, <1>23 DEF Delete, DeleteFails, FailsAt
<1>7. CASE PutBegin
  BY <1>0, <1>7 DEF PutBegin
<1>8. CASE Put
  BY <1>8, <1>23 DEF Put, Record, PutFails, FailsAt
<1>9. CASE PutEnd
  BY <1>9 DEF PutEnd
<1>10. CASE Verify
  BY <1>10 DEF Verify
<1>11. CASE VerifyFails
  BY <1>11, <1>23 DEF VerifyFails
<1>12. CASE Survey
  BY <1>0, <1>12 DEF Survey, Introduced, Tried
<1>13. CASE Undo
  BY <1>13, <1>23 DEF Undo, DeleteFails
<1>14. CASE UndoEnd
  BY <1>14 DEF UndoEnd
<1>15. CASE Resurvey
  BY <1>0, <1>15 DEF Resurvey, Lost
<1>16. CASE Restore
  BY <1>16, <1>23 DEF Restore, PutFails
<1>17. CASE RestoreEnd
  BY <1>17 DEF RestoreEnd
<1>18. CASE Confirm
  BY <1>18 DEF Confirm
<1>19. CASE RollbackFails
  BY <1>19, <1>23 DEF RollbackFails
<1>20. CASE Command
  <2>1. UNCHANGED <<local, pc, todo, page, cursor, seen, faults>>
    BY <1>20 DEF Command
  <2> QED
    BY <1>20, <1>22, <2>1
<1>21. CASE UNCHANGED vars
  BY <1>21 DEF vars
<1> QED
  BY <1>1, <1>2, <1>3, <1>4, <1>5, <1>6, <1>7, <1>8, <1>9, <1>10, <1>11, <1>12, <1>13, <1>14,
     <1>15, <1>16, <1>17, <1>18, <1>19, <1>20, <1>21 DEF Next, Reconcile

LEMMA BatchStep ==
  ASSUME TypeInv, BatchInv, [Next]_vars PROVE BatchInv'
<1> USE DEF BatchInv, local, Read, Send, End, Listing, Sending, Over
<1>0. /\ Planned(before)' = Planned(before') /\ Planned(after)' = Planned(after')
      /\ Planned(Tried)' = Planned(Tried')
      /\ Tried' = IF attempted' THEN after' ELSE Nothing
      /\ Obsolete' = Planned(before') \ Planned(after')
  BY DEF Planned, Tried, Obsolete, Nothing
<1>1. CASE BootPut
  BY <1>0, <1>1 DEF BootPut, Record, FailsAt, Shallowest
<1>2. CASE Begin
  BY <1>0, <1>2 DEF Begin
<1>3. CASE ReadPage
  BY <1>0, <1>3 DEF ReadPage
<1>4. CASE Check
  <2>1. UNCHANGED <<before, after, attempted>> /\ pc = "check"
    BY <1>4 DEF Check, Listed
  <2>2. \/ pc' = "delete" /\ todo' = Obsolete
        \/ pc' = "refused" /\ todo' = {}
    BY <1>4 DEF Check
  <2>3. Obsolete' = Obsolete
    BY <1>0, <2>1 DEF Obsolete
  <2>4. page' = "between"
    BY <1>4 DEF Check
  <2> QED
    BY <1>0, <2>1, <2>2, <2>3, <2>4
<1>5. CASE CheckFails
  BY <1>0, <1>5 DEF CheckFails
<1>6. CASE Delete
  BY <1>0, <1>6 DEF Delete, DeleteFails, FailsAt, Deepest, Obsolete, Tried
<1>7. CASE PutBegin
  BY <1>0, <1>7 DEF PutBegin
<1>8. CASE Put
  BY <1>0, <1>8 DEF Put, Record, PutFails, FailsAt, Shallowest, Tried
<1>9. CASE PutEnd
  BY <1>0, <1>9 DEF PutEnd
<1>10. CASE Verify
  BY <1>0, <1>10 DEF Verify
<1>11. CASE VerifyFails
  BY <1>0, <1>11 DEF VerifyFails
<1>12. CASE Survey
  BY <1>0, <1>12 DEF Survey, Introduced, Tried
<1>13. CASE Undo
  BY <1>0, <1>13 DEF Undo, DeleteFails, Tried
<1>14. CASE UndoEnd
  BY <1>0, <1>14 DEF UndoEnd
<1>15. CASE Resurvey
  BY <1>0, <1>15 DEF Resurvey, Lost
<1>16. CASE Restore
  BY <1>0, <1>16 DEF Restore, PutFails
<1>17. CASE RestoreEnd
  BY <1>0, <1>17 DEF RestoreEnd
<1>18. CASE Confirm
  BY <1>0, <1>18 DEF Confirm
<1>19. CASE RollbackFails
  BY <1>0, <1>19 DEF RollbackFails
<1>20. CASE Command
  BY <1>0, <1>20 DEF Command, Tried, Obsolete
<1>21. CASE UNCHANGED vars
  BY <1>0, <1>21 DEF vars, Tried, Obsolete
<1> QED
  BY <1>1, <1>2, <1>3, <1>4, <1>5, <1>6, <1>7, <1>8, <1>9, <1>10, <1>11, <1>12, <1>13, <1>14,
     <1>15, <1>16, <1>17, <1>18, <1>19, <1>20, <1>21 DEF Next, Reconcile

(* Only Check takes records to be foreign, and refuses any at a wanted path. *)
LEMMA ForeignSteps ==
  ASSUME [Next]_vars
  PROVE  /\ UNCHANGED <<before, after>>
         /\ ~Check => UNCHANGED foreign
<1> DEFINE Unmoved == UNCHANGED <<before, after, foreign>>
<1>1. Call => Unmoved
  BY DEF Call, BootPut, Delete, Put, Undo, Restore, local
<1>2. Begin \/ ReadPage \/ PutBegin \/ UNCHANGED vars => Unmoved
  BY DEF Begin, ReadPage, PutBegin, vars, local
<1>3. Command => Unmoved
  BY DEF Command, local
<1>4. CheckFails \/ PutEnd \/ Verify \/ VerifyFails => Unmoved
  BY DEF CheckFails, PutEnd, Verify, VerifyFails, local
<1>5. Survey \/ UndoEnd \/ Resurvey \/ RestoreEnd \/ Confirm \/ RollbackFails => Unmoved
  BY DEF Survey, UndoEnd, Resurvey, RestoreEnd, Confirm, RollbackFails, local
<1>6. Check => UNCHANGED <<before, after>>
  BY DEF Check
<1> QED
  BY <1>1, <1>2, <1>3, <1>4, <1>5, <1>6 DEF Next, Reconcile, Call

LEMMA AcceptedForeign ==
  ASSUME TypeInv, Acceptable, NEW r \in NotOwned, NEW p \in Wanted
  PROVE  r[1] # Own(p) /\ (r[2] # Derived => r[1][1] \notin Anc[p])
<1>1. p \in Paths
  BY DEF Wanted, Planned
<1>2. ~Conflicts(r, p)
  BY DEF Acceptable, Wanted
<1> QED
  BY <1>1, <1>2, OwnKey, PathAssumption DEF Conflicts

LEMMA ForeignStep ==
  ASSUME TypeInv, ForeignInv, [Next]_vars PROVE ForeignInv'
<1>1. UNCHANGED <<before, after>> /\ (~Check => UNCHANGED foreign)
  BY ForeignSteps
<1>2. Wanted' = Wanted
  BY <1>1 DEF Wanted, Planned
<1>3. CASE ~Check
  BY <1>1, <1>2, <1>3 DEF ForeignInv, Own
<1>4. CASE Check
  <2>1. UNCHANGED foreign \/ (Acceptable /\ foreign' = NotOwned)
    BY <1>4 DEF Check
  <2>2. Acceptable =>
          \A r \in NotOwned : /\ r[1] \notin {Own(p) : p \in Wanted}
                              /\ r[2] # Derived => \A p \in Wanted : r[1][1] \notin Anc[p]
    BY AcceptedForeign
  <2> QED
    BY <1>2, <2>1, <2>2 DEF ForeignInv, Own
<1> QED
  BY <1>3, <1>4

-----------------------------------------------------------------------------
(* Foreign records are kept *)

(* A rule is what it was, or it was derived or missing and still is. *)
Kept(k) == rules'[k] = rules[k] \/ {rules[k], rules'[k]} \subseteq {Derived, None}

(* An ADD changes one explicit rule, that at its key. *)
LEMMA AddKeeps ==
  ASSUME NEW p \in Paths, NEW v, Add(Own(p), v), NEW k \in Keys \ {Own(p)}
  PROVE  Kept(k)
<1>1. k \in Generated(Own(p)) => rules[k] = None
  BY GeneratedNew, OwnKey
<1> QED
  BY <1>1 DEF Add, Kept

(* A call changes one key; besides, it makes or removes derived directories, and a DEL
   removes opaque ones above. *)
LEMMA CallKeeps ==
  ASSUME NEW p \in Paths, OwnCall(p), NEW k \in Keys \ {Own(p)}
  PROVE  Kept(k) \/ (k[1] \in Anc[p] /\ Explicit(k) /\ rules'[k] = None)
<1>1. CASE \E v \in Payloads : Add(Own(p), v)
  BY <1>1, AddKeeps
<1>2. CASE AddLoses(Own(p))
  BY <1>2 DEF AddLoses, Drop, Kept
<1>3. CASE Del(Own(p))
  <2>1. k \in Pruned(Own(p)) => k[1] \in Anc[p] /\ (Explicit(k) \/ rules[k] = Derived)
    BY PrunedClosed, OwnKey, PayloadAssumption DEF VirtualAbove, Explicit, Payloads
  <2>2. CASE Drop({Own(p)} \cup Pruned(Own(p)))
    BY <2>1, <2>2 DEF Drop, Kept
  <2>3. CASE Preserve(Own(p))
    BY <2>3 DEF Preserve, Kept
  <2> QED
    BY <1>3, <2>2, <2>3 DEF Del
<1> QED
  BY <1>1, <1>2, <1>3 DEF OwnCall

-----------------------------------------------------------------------------
(* Listings are exact while nobody else writes *)

(* A listing that begins has shown nothing yet. *)
LEMMA NothingSeen ==
  ASSUME TableTypeOK', seen' = {}, cursor' = 0 PROVE SeenInv'
<1>1. \A k \in Keys : Cardinality(ahead'[k]) \in Nat
  BY KeysFinite, FS_Subset, FS_CardinalityType DEF TableTypeOK
<1>2. \A k \in Installed' : ~(Rank(k)' < 0)
  BY <1>1 DEF Installed, Rank
<1> QED
  BY <1>2 DEF SeenInv

LEMMA PageSeen ==
  ASSUME TypeInv, TableInv, SeenInv, ReadPage PROVE SeenInv'
<1> USE DEF TypeInv, TableInv
<1>1. /\ pc' = pc /\ quiet' = quiet /\ Installed' = Installed
      /\ \A k : rules'[k] = rules[k] /\ Rank(k)' = Rank(k)
  BY DEF ReadPage, Installed, Rank, table
<1>2. /\ seen' = seen \cup {<<k, rules[k]>> : k \in Page}
      /\ cursor' = cursor + Cardinality(Page)
  BY DEF ReadPage
<1>3. ASSUME NEW k \in Installed, Rank(k) < cursor', quiet, pc \in Listing
      PROVE  <<k, rules[k]>> \in seen'
  <2>1. Rank(k) \in Nat
    BY RankType DEF Installed
  <2>2. Rank(k) < cursor + PageLen
    BY <1>2, <1>3, <2>1, PageFits, PlanAssumption
  <2>3. CASE Rank(k) < cursor
    BY <1>2, <1>3, <2>3 DEF SeenInv
  <2>4. CASE ~(Rank(k) < cursor)
    <3>1. Rank(k) \in cursor .. cursor + PageLen - 1
      BY <2>1, <2>2, <2>4, PlanAssumption
    <3> QED
      BY <1>2, <3>1 DEF Page, Rank
  <2> QED
    BY <2>3, <2>4
<1>4. \A k \in Page : rules[k] = rules[k]
  OBVIOUS
<1> QED
  BY <1>1, <1>2, <1>3, <1>4 DEF SeenInv

LEMMA SeenStep ==
  ASSUME TypeInv, TableInv, TableInv', BatchInv, SeenInv, [Next]_vars PROVE SeenInv'
<1> DEFINE Fresh == seen' = {} /\ cursor' = 0
<1> DEFINE Elsewhere == pc' \notin Listing
<1> USE DEF Read, Send, End, Listing, Sending, Over, local
<1>1. CASE Fresh \/ Elsewhere
  BY <1>1, NothingSeen DEF SeenInv, TableInv
<1>2. CASE ReadPage
  BY <1>2, PageSeen
<1>3. CASE Command
  BY <1>3 DEF Command, SeenInv
<1>4. CASE UNCHANGED vars
  BY <1>4 DEF vars, SeenInv, Rank, Installed, table
<1>5. Begin \/ Check \/ CheckFails \/ PutBegin \/ PutEnd => Fresh
  BY DEF Begin, Check, CheckFails, PutBegin, PutEnd
<1>6. Verify \/ VerifyFails \/ Survey \/ UndoEnd \/ Resurvey => Fresh
  BY DEF Verify, VerifyFails, Survey, UndoEnd, Resurvey
<1>7. RestoreEnd \/ Confirm \/ RollbackFails => Fresh
  BY DEF RestoreEnd, Confirm, RollbackFails
<1>8. BootPut \/ Undo \/ Restore => Elsewhere
  BY DEF BootPut, Record, FailsAt, Undo, Restore
<1>9. Delete \/ Put => Fresh \/ Elsewhere
  BY DEF Delete, Put, Record, FailsAt
<1> QED
  BY <1>1, <1>2, <1>3, <1>4, <1>5, <1>6, <1>7, <1>8, <1>9 DEF Next, Reconcile

(* What a listing has shown when its last page was empty. *)
LEMMA ListedAll ==
  ASSUME TypeInv, TableInv, SeenInv, quiet, NEW l \in Listing, Listed(l)
  PROVE  /\ \A r \in seen : rules[r[1]] = r[2]
         /\ \A k \in Installed : <<k, rules[k]>> \in seen
<1>1. pc = l /\ Page = {} /\ cursor \in Nat
  BY DEF Listed, TypeInv
<1>2. \A k \in Installed : Rank(k) < cursor
  BY <1>1, LastPage DEF TableInv
<1> QED
  BY <1>1, <1>2 DEF SeenInv

-----------------------------------------------------------------------------
(* Other rules stay as they were and where they can be reached *)

(* A caller's way to a rule leads only past the directories above it. *)
LEMMA StraightWalk ==
  ASSUME TableInv, NEW u \in Uids, NEW x \in Visible(u)
  PROVE  \E S : /\ Walk(S, u) /\ x \in S
                /\ \A y \in S : y[1] \in Anc[x[1]] \cup {x[1]}
<1>1. PICK S : Walk(S, u) /\ x \in S
  BY VisibleWalk
<1> DEFINE T == {y \in S : y[1] \in Anc[x[1]] \cup {x[1]}}
<1>2. x \in Keys /\ x[1] \in Paths /\ S \subseteq Installed /\ S \subseteq Keys
  BY <1>1 DEF Walk, Installed, Keys
<1>3. ASSUME NEW y \in T PROVE up[y] = Native \/ up[y] \in T
  <2>1. up[y] = Native \/ (up[y] \in S /\ up[y] \in Keys)
    BY <1>1, <1>2 DEF Walk
  <2>2. CASE up[y] \in S /\ up[y] \in Keys
    <3>1. up[y][1] = Parent[y[1]] /\ up[y] # Native /\ y[1] \in Paths
      BY <1>2, <2>2, MarksApart DEF TableInv, LinksAreLive, Keys
    <3>2. Parent[y[1]] # Root
      BY <1>2, <2>2, <3>1 DEF TableInv, LinksAreLive
    <3>3. Parent[y[1]] \in Anc[y[1]] /\ Anc[y[1]] \subseteq Anc[x[1]]
      BY <1>2, <3>1, <3>2, PathAssumption
    <3> QED
      BY <2>2, <3>1, <3>3
  <2> QED
    BY <2>1, <2>2
<1>4. Walk(T, u)
  BY <1>1, <1>3 DEF Walk
<1> QED
  BY <1>1, <1>4

LEMMA OthersKept ==
  ASSUME TableInv, NEW p \in Paths, OwnCall(p), NEW u \in Uids, NEW x \in Visible(u), Explicit(x),
         p # x[1], p \notin Anc[x[1]], x[1] \notin Anc[p]
  PROVE  x \in Visible(u)'
<1> DEFINE o == Own(p)
<1> DEFINE gen == Generated(o)
<1>1. PICK S : /\ Walk(S, u) /\ x \in S
               /\ \A y \in S : y[1] \in Anc[x[1]] \cup {x[1]}
  BY StraightWalk
<1>2. /\ S \subseteq Installed /\ S \subseteq Keys /\ o \in Keys /\ o[1] = p /\ o[2] = Global
      /\ o \notin S
  BY <1>1, OwnKey DEF Walk, Installed
<1>3. \A y \in S : up[y] = Native \/ up[y] \in S
  BY <1>1 DEF Walk
<1>4. \A y \in S : up[y] # o
  BY <1>2, <1>3, MarksApart
<1>5. CASE Del(o)
  BY <1>1, <1>2, <1>5, DelKeeps DEF Emptied
<1>6. ASSUME \A y \in S : rules'[y] = rules[y] /\ up'[y] = up[y],
             \A y \in S : y[2] = Global /\ u # Global =>
               up'[<<y[1], u>>] \in {up[<<y[1], u>>], Orphan, None}
      PROVE  x \in Visible(u)'
  <2>1. S \in SUBSET {y \in Installed' : y[2] \in {u, Global}}
    BY <1>1, <1>2, <1>6 DEF Walk, Installed
  <2>2. ASSUME NEW y \in S
        PROVE  (up'[y] = Native \/ up'[y] \in S) /\ (y[2] = u \/ up'[<<y[1], u>>] # up'[y])
    <3>1. y[2] = u \/ (y[2] = Global /\ u # Global)
      BY <1>1 DEF Walk
    <3>2. y[2] = u \/ up[<<y[1], u>>] # up[y]
      BY <1>1 DEF Walk
    <3>3. up[y] # Orphan /\ up[y] # None
      BY <1>2, <1>3, MarksApart
    <3> QED
      BY <1>3, <1>6, <3>1, <3>2, <3>3
  <2>3. Walk(S, u)'
    BY <2>1, <2>2 DEF Walk
  <2> QED
    BY <1>1, <2>3, VisibleWalkNext
<1>7. \A y \in S : <<y[1], u>> \in Keys
  BY <1>2 DEF Keys
<1>8. CASE AddLoses(o)
  <2>1. /\ \A y \in Keys : rules'[y] = IF y = o THEN None ELSE rules[y]
        /\ \A y \in Keys : up'[y] = IF y = o THEN None ELSE IF up[y] = o THEN Orphan ELSE up[y]
    BY <1>8 DEF AddLoses, Drop
  <2>2. \A y \in S : rules'[y] = rules[y] /\ up'[y] = up[y]
    BY <1>2, <1>4, <2>1
  <2>3. \A y \in S : up'[<<y[1], u>>] \in {up[<<y[1], u>>], Orphan, None}
    BY <1>7, <2>1
  <2> QED
    BY <1>6, <2>2, <2>3
<1>9. ASSUME NEW v \in Payloads, Add(o, v) PROVE x \in Visible(u)'
  <2>1. /\ \A y \in Keys : rules'[y] = IF y = o THEN v ELSE IF y \in gen THEN Derived ELSE rules[y]
        /\ \A y \in Keys : up'[y] = IF y \in gen \cup {o} THEN Link(y, gen) ELSE Heir(y, o, v)
    BY <1>9 DEF Add
  <2>2. gen \cap Installed = {} /\ \A y \in gen : y[2] = Global
    <3>1. gen \cap Installed = {}
      BY <1>2, GeneratedApart
    <3>2. \A y \in gen : y = <<y[1], o[2]>>
      BY <1>2, GeneratedNew
    <3> QED
      BY <1>2, <3>1, <3>2
  <2>3. \A y \in S : rules'[y] = rules[y] /\ up'[y] = up[y]
    BY <1>2, <1>4, <2>1, <2>2 DEF Heir
  <2>4. \A y \in S : u # Global => <<y[1], u>> \notin gen \cup {o}
    BY <1>2, <2>2
  <2>5. \A y \in S : u # Global => up'[<<y[1], u>>] \in {up[<<y[1], u>>], Orphan}
    BY <1>7, <2>1, <2>4 DEF Heir
  <2> QED
    BY <1>6, <2>3, <2>5
<1> QED
  BY <1>5, <1>8, <1>9 DEF OwnCall

LEMMA StartStep ==
  ASSUME TypeInv, StartInv, [Next]_vars PROVE StartInv'
<1> USE DEF Read, Send, End, local
<1> DEFINE Elsewhere == pc' # "check"
<1>1. CASE Elsewhere
  BY <1>1 DEF StartInv
<1>2. CASE Begin
  BY <1>2 DEF Begin, StartInv, Observed, Visible, Installed, table
<1>3. CASE UNCHANGED <<table, start, quiet, pc>>
  BY <1>3 DEF StartInv, Visible, Installed, table
<1>4. CASE Command
  BY <1>4 DEF Command, StartInv
<1>5. ReadPage => UNCHANGED <<table, start, quiet, pc>>
  BY DEF ReadPage
<1>6. Check \/ CheckFails \/ PutBegin \/ PutEnd \/ BootPut => Elsewhere
  BY DEF Check, CheckFails, PutBegin, PutEnd, BootPut, Record, FailsAt
<1>7. Verify \/ VerifyFails \/ Survey \/ UndoEnd \/ Resurvey => Elsewhere
  BY DEF Verify, VerifyFails, Survey, UndoEnd, Resurvey
<1>8. RestoreEnd \/ Confirm \/ RollbackFails \/ Undo \/ Restore => Elsewhere
  BY DEF RestoreEnd, Confirm, RollbackFails, Undo, Restore
<1>9. Delete \/ Put => Elsewhere
  BY DEF Delete, Put, Record, FailsAt
<1> QED
  BY <1>1, <1>2, <1>3, <1>4, <1>5, <1>6, <1>7, <1>8, <1>9 DEF Next, Reconcile, vars

(* Once reconcile has read the table, its observation of the start stands. *)
LEMMA StartStands ==
  ASSUME [Next]_vars, pc # "boot" PROVE UNCHANGED <<start, before, after>> /\ pc' # "boot"
<1> USE DEF Read, Send, End, local
<1> DEFINE Unmoved == UNCHANGED <<start, before, after>> /\ pc' # "boot"
<1>1. ~BootPut /\ ~Begin
  BY DEF BootPut, Begin
<1>2. Delete \/ Put \/ Undo \/ Restore => Unmoved
  BY DEF Delete, Put, Record, FailsAt, Undo, Restore
<1>3. ReadPage \/ Check \/ CheckFails \/ PutBegin \/ UNCHANGED vars => Unmoved
  BY DEF ReadPage, Check, CheckFails, PutBegin, vars
<1>4. PutEnd \/ Verify \/ VerifyFails \/ Survey \/ UndoEnd \/ Command => Unmoved
  BY DEF PutEnd, Verify, VerifyFails, Survey, UndoEnd, Command
<1>5. Resurvey \/ RestoreEnd \/ Confirm \/ RollbackFails => Unmoved
  BY DEF Resurvey, RestoreEnd, Confirm, RollbackFails
<1> QED
  BY <1>1, <1>2, <1>3, <1>4, <1>5 DEF Next, Reconcile

(* What Check accepts has no foreign explicit rule around the wanted paths. *)
LEMMA CheckQuiet ==
  ASSUME TypeInv, TableInv, SeenInv, StartInv, quiet, Listed("check"), Acceptable
  PROVE  start.rules = rules /\ Frame /\ Apart /\ OthersVisible
<1>1. start.rules = rules /\ \A u \in Uids : start.visible[u] = Visible(u)
  BY DEF StartInv, Listed
<1>2. \A k \in Installed : <<k, rules[k]>> \in seen
  BY ListedAll DEF Listing
<1>3. Frame
  BY <1>1 DEF Frame
<1>4. OthersVisible
  BY <1>1 DEF OthersVisible
<1>5. ASSUME NEW k \in Keys \ {Own(p) : p \in Planned(before)}, rules[k] \in Payloads,
             NEW p \in Wanted
      PROVE  k[1] # p /\ k[1] \notin Anc[p] /\ p \notin Anc[k[1]]
  <2>1. k \in Installed
    BY <1>5, PayloadAssumption DEF Installed
  <2>2. <<k, rules[k]>> \in NotOwned
    BY <1>2, <2>1 DEF NotOwned
  <2>3. ~Conflicts(<<k, rules[k]>>, p)
    BY <2>2 DEF Acceptable, Wanted
  <2>4. rules[k] # Derived
    BY <1>5, PayloadAssumption
  <2> QED
    BY <2>3, <2>4 DEF Conflicts
<1>6. Apart
  BY <1>1, <1>5 DEF Apart
<1> QED
  BY <1>1, <1>3, <1>4, <1>6

LEMMA TouchedType ==
  /\ Touched \subseteq Paths /\ Touched \subseteq Wanted /\ Planned(Tried) \subseteq Planned(after)
  /\ \A p \in Planned(Tried) : Tried = after
  BY DEF Touched, Tried, Planned, Nothing, Wanted

(* At a wanted path and above no explicit rule is anybody else's. *)
LEMMA ApartAbove ==
  ASSUME Frame, Apart, NEW p \in Wanted, NEW k \in Keys, k[1] \in Anc[p] \cup {p},
         k \notin {Own(q) : q \in Touched}
  PROVE  ~Explicit(k)
<1> SUFFICES ASSUME Explicit(k) PROVE FALSE
  OBVIOUS
<1>1. start.rules[k] \in Payloads
  BY DEF Frame, Explicit
<1>2. k \notin {Own(q) : q \in Planned(before)}
  BY DEF Touched
<1> QED
  BY <1>1, <1>2 DEF Apart

LEMMA ApartAbovePath ==
  ASSUME Frame, Apart, NEW p \in Wanted, NEW a \in Anc[p] \cup {p}, a \notin Touched
  PROVE  ~Explicit(Own(a))
<1>1. a \in Paths /\ Own(a) \in Keys /\ Own(a)[1] = a
  BY PathAssumption, OwnKey DEF Wanted, Planned
<1>2. \A q \in Touched : Own(a) # Own(q)
  BY <1>1, TouchedType, OwnKey
<1> QED
  BY <1>1, <1>2, ApartAbove

(* A call for a touched path leaves what it is not for. *)
LEMMA CallQuiet ==
  ASSUME TypeInv, TableInv, Frame, Apart, OthersVisible, NEW p \in Touched, OwnCall(p),
         UNCHANGED <<before, after, attempted, start>>
  PROVE  Frame' /\ Apart' /\ OthersVisible'
<1>1. p \in Paths /\ p \in Wanted
  BY DEF Touched, Wanted, Tried, Planned, Nothing
<1>2. /\ Touched' = Touched /\ Wanted' = Wanted /\ OwnedKeys' = OwnedKeys
      /\ \A q : Own(q)' = Own(q) /\ Planned(before)' = Planned(before)
  BY DEF Touched, Wanted, Tried, Planned, Nothing, OwnedKeys, Own
<1>3. ASSUME NEW k \in Keys \ {Own(q) : q \in Touched},
             rules'[k] \in Payloads \/ start.rules[k] \in Payloads
      PROVE  rules'[k] = start.rules[k]
  <2>1. Kept(k)
    BY <1>1, <1>3, CallKeeps, ApartAbove
  <2>2. Derived \notin Payloads /\ None \notin Payloads
    BY PayloadAssumption
  <2> QED
    BY <1>3, <2>1, <2>2 DEF Frame, Explicit, Kept
<1>4. Frame'
  BY <1>2, <1>3 DEF Frame, Explicit
<1>5. Apart'
  BY <1>2 DEF Apart
<1>6. ASSUME NEW u \in Uids, NEW k \in start.visible[u] \ OwnedKeys, start.rules[k] \in Payloads
      PROVE  k \in Visible(u)'
  <2>1. k \in Visible(u) /\ k \in Keys
    BY <1>6, VisibleType DEF OthersVisible
  <2>2. k \notin {Own(q) : q \in Planned(before)} /\ k \notin {Own(q) : q \in Touched}
    BY <1>6 DEF OwnedKeys, Touched, Tried, Planned, Nothing
  <2>3. k[1] # p /\ p \notin Anc[k[1]] /\ k[1] \notin Anc[p]
    BY <1>1, <1>6, <2>1, <2>2 DEF Apart
  <2>4. Explicit(k)
    BY <1>6, <2>1, <2>2 DEF Frame, Explicit
  <2> QED
    BY <1>1, <2>1, <2>3, <2>4, OthersKept
<1>7. OthersVisible'
  BY <1>2, <1>6 DEF OthersVisible
<1> QED
  BY <1>4, <1>5, <1>7

LEMMA QuietStep ==
  ASSUME TypeInv, TableInv, BatchInv, SeenInv, StartInv, QuietInv, [Next]_vars PROVE QuietInv'
<1> USE DEF Read, Send, End, local
<1> SUFFICES ASSUME quiet', pc' \in Changing PROVE Frame' /\ Apart' /\ OthersVisible'
  BY DEF QuietInv
<1>1. ASSUME UNCHANGED <<table, start, before, after>>, Touched \subseteq Touched',
             Frame, Apart, OthersVisible
      PROVE  Frame' /\ Apart' /\ OthersVisible'
  <2>1. /\ Wanted' = Wanted /\ OwnedKeys' = OwnedKeys
        /\ \A q : Own(q)' = Own(q) /\ Planned(before)' = Planned(before)
    BY <1>1 DEF Wanted, Planned, OwnedKeys, Own
  <2>2. Frame'
    BY <1>1, <2>1 DEF Frame, Explicit, table
  <2>3. Apart'
    BY <1>1, <2>1 DEF Apart
  <2>4. OthersVisible'
    BY <1>1, <2>1 DEF OthersVisible, Visible, Installed, table
  <2> QED
    BY <2>2, <2>3, <2>4
<1>2. UNCHANGED <<before, after, attempted>> => Touched' = Touched
  BY DEF Touched, Tried, Planned, Nothing
<1>3. CASE Check
  <2>1. UNCHANGED <<table, start, before, after, attempted, quiet>> /\ Listed("check") /\ Acceptable
    BY <1>3 DEF Check, Changing
  <2>2. quiet
    BY <2>1
  <2> QED
    BY <1>1, <1>2, <2>1, <2>2, CheckQuiet
<1>4. CASE PutBegin
  <2>1. UNCHANGED <<table, start, before, after, quiet>> /\ pc = "delete"
    BY <1>4 DEF PutBegin
  <2>2. Touched \subseteq Touched'
    BY <2>1 DEF BatchInv, Touched, Tried, Planned, Nothing
  <2>3. Frame /\ Apart /\ OthersVisible
    BY <2>1 DEF QuietInv, Changing
  <2> QED
    BY <1>1, <2>1, <2>2, <2>3
<1>5. CASE Call
  <2>1. UNCHANGED <<before, after, attempted, start, quiet>> /\ pc \in Changing
    BY <1>5 DEF Call, BootPut, Record, FailsAt, Delete, Put, Undo, Restore, Changing
  <2>2. Frame /\ Apart /\ OthersVisible
    BY <2>1 DEF QuietInv
  <2>3. PICK p \in Touched : UNCHANGED table \/ OwnCall(p)
    BY <1>5, BatchCalls
  <2> QED
    BY <1>1, <1>2, <2>1, <2>2, <2>3, CallQuiet
<1>6. CASE Command
  BY <1>6 DEF Command
<1>7. ASSUME UNCHANGED <<table, local, quiet>>, pc \in Changing
      PROVE  Frame' /\ Apart' /\ OthersVisible'
  BY <1>1, <1>2, <1>7 DEF QuietInv
<1>8. ReadPage \/ UNCHANGED vars => UNCHANGED <<table, local, quiet>> /\ pc \in Changing
  BY DEF ReadPage, vars
<1>9. PutEnd \/ Verify \/ VerifyFails \/ Survey =>
        UNCHANGED <<table, local, quiet>> /\ pc \in Changing
  BY DEF PutEnd, Verify, VerifyFails, Survey, Changing, Listed
<1>10. UndoEnd \/ Resurvey \/ RestoreEnd => UNCHANGED <<table, local, quiet>> /\ pc \in Changing
  BY DEF UndoEnd, Resurvey, RestoreEnd, Changing, Listed
<1>11. ~Begin /\ ~CheckFails /\ ~Confirm /\ ~RollbackFails
  BY DEF Begin, CheckFails, Confirm, RollbackFails, Changing
<1> QED
  BY <1>3, <1>4, <1>5, <1>6, <1>7, <1>8, <1>9, <1>10, <1>11 DEF Next, Reconcile, Call

-----------------------------------------------------------------------------
(* What can be reached *)

LEMMA AncParent ==
  ASSUME NEW c \in Paths, Parent[c] # Root
  PROVE  Parent[c] \in Anc[c] /\ Parent[c] \in Paths /\ Anc[c] = {Parent[c]} \cup Anc[Parent[c]]
  BY PathAssumption

(* A global rule hangs from the global rule right above. *)
LEMMA GlobalLink ==
  ASSUME TableInv, NEW c \in Paths, Own(c) \in Installed, up[Own(c)] # Orphan
  PROVE  \/ Parent[c] = Root /\ up[Own(c)] = Native
         \/ Parent[c] # Root /\ up[Own(c)] = Own(Parent[c]) /\ Own(Parent[c]) \in Installed
<1>1. Own(c) \in Keys /\ Own(c)[1] = c /\ Own(c)[2] = Global
  BY OwnKey
<1>2. up[Own(c)] \in Keys \cup Marks /\ up[Own(c)] # None
  BY <1>1 DEF TableInv, TableTypeOK, LinksAreLive
<1>3. CASE up[Own(c)] = Native
  BY <1>1, <1>3 DEF TableInv, LinksAreLive
<1>4. CASE up[Own(c)] \in Keys
  <2>1. up[Own(c)] \in Installed /\ up[Own(c)][1] = Parent[c] /\ up[Own(c)][2] = Global
    BY <1>1, <1>4 DEF TableInv, LinksAreLive
  <2>2. up[Own(c)] = Own(Parent[c])
    BY <1>4, <2>1 DEF Own, Keys
  <2>3. Parent[c] # Root
    BY <1>1, <1>4, MarksApart DEF TableInv, LinksAreLive
  <2> QED
    BY <2>1, <2>2, <2>3
<1> QED
  BY <1>2, <1>3, <1>4 DEF Marks

(* Who reaches a global rule reaches those of all directories above. *)
LEMMA VisibleUpward ==
  ASSUME TableInv, NEW a \in Paths, Own(a) \in Visible(Global), NEW b \in Anc[a]
  PROVE  Own(b) \in Visible(Global)
<1>1. PICK S : Walk(S, Global) /\ Own(a) \in S
  BY VisibleWalk
<1> DEFINE T == {c \in Way(a) : Own(c) \in S /\ b \in Anc[c]}
<1> DEFINE f == [c \in T |-> Depth(c)]
<1>2. Anc[a] \subseteq Paths /\ T \subseteq Paths /\ T # {}
  BY <1>1, PathAssumption DEF Way
<1>3. f \in [T -> Nat]
  BY <1>2, DepthType
<1>4. PICK c \in T : \A d \in T : f[c] =< f[d]
  <2> HIDE DEF T, f
  <2> QED BY <1>2, <1>3, LeastValue
<1>5. /\ c \in Paths /\ Own(c) \in S /\ b \in Anc[c] /\ c \in Way(a)
      /\ Own(c) \in Installed /\ (up[Own(c)] = Native \/ up[Own(c)] \in S)
  BY <1>1, <1>2, <1>4 DEF Walk
<1>6. S \subseteq Keys
  BY <1>1 DEF Walk, Installed
<1>7. up[Own(c)] # Orphan
  BY <1>5, <1>6, MarksApart
<1>8. Parent[c] # Root
  BY <1>5, PathAssumption
<1>9. up[Own(c)] = Own(Parent[c]) /\ Own(Parent[c]) \in S
  <2>1. up[Own(c)] = Own(Parent[c]) /\ Own(Parent[c]) \in Installed
    BY <1>5, <1>7, <1>8, GlobalLink
  <2>2. Own(Parent[c]) # Native
    BY <2>1, MarksApart DEF Installed
  <2> QED
    BY <1>5, <2>1, <2>2
<1>10. Parent[c] \in Anc[c] /\ Parent[c] \in Paths /\ Anc[c] = {Parent[c]} \cup Anc[Parent[c]]
  BY <1>5, <1>8, AncParent
<1>11. b = Parent[c]
  <2> SUFFICES ASSUME b \in Anc[Parent[c]] PROVE FALSE
    BY <1>5, <1>10
  <2>1. Parent[c] \in T
    BY <1>5, <1>9, <1>10, PathAssumption DEF Way
  <2>2. Depth(c) =< Depth(Parent[c])
    BY <1>4, <2>1
  <2>3. Depth(Parent[c]) < Depth(c)
    BY <1>5, <1>10, DepthLess
  <2> QED
    BY <1>5, <1>10, <2>2, <2>3, DepthType
<1> QED
  BY <1>1, <1>9, <1>11, VisibleWalk

(* A global rule can be reached if nothing on its way is cut off. *)
LEMMA ReachedByWay ==
  ASSUME TableInv, NEW p \in Paths, Own(p) \in Installed, \A c \in Way(p) : up[Own(c)] # Orphan
  PROVE  Own(p) \in Visible(Global)
<1> DEFINE W == {c \in Way(p) : Own(c) \in Installed}
<1> DEFINE S == {Own(c) : c \in W}
<1>1. W \subseteq Paths /\ p \in W
  BY PathAssumption DEF Way
<1>2. \A c \in W : Parent[c] # Root => Parent[c] \in Way(p)
  BY <1>1, AncParent, PathAssumption DEF Way
<1>3. ASSUME NEW c \in W
      PROVE  /\ Own(c) \in Installed /\ Own(c)[2] = Global
             /\ up[Own(c)] = Native \/ up[Own(c)] \in S
  BY <1>1, <1>2, GlobalLink, OwnKey
<1>4. Walk(S, Global)
  BY <1>3 DEF Walk
<1> QED
  BY <1>1, <1>4, VisibleWalk

LEMMA ClosedStep ==
  ASSUME TypeInv, TableInv, StartClosed, [Next]_vars PROVE StartClosed'
<1>1. CASE pc # "boot"
  BY <1>1, StartStands DEF StartClosed, Own
<1>2. CASE Begin
  <2>1. start'.visible[Global] = Visible(Global)
    BY <1>2, ObservedType, PayloadAssumption DEF Begin, TypeInv
  <2> QED
    BY <2>1, VisibleUpward DEF StartClosed, Own
<1>3. CASE pc = "boot" /\ ~Begin
  <2>1. pc' = "boot"
    BY <1>3 DEF Next, Reconcile, vars, BootPut, Record, FailsAt, Read, Send, ReadPage, Check,
       CheckFails, Delete, PutBegin, Put, PutEnd, Verify, VerifyFails, Survey, Undo, UndoEnd,
       Resurvey, Restore, RestoreEnd, Confirm, RollbackFails, Command, Listed, Listing
  <2> QED
    BY <2>1 DEF StartClosed
<1> QED
  BY <1>1, <1>2, <1>3

(* A DEL installs nothing and cuts nothing off. *)
LEMMA DelCutsNothing ==
  ASSUME TableInv, NEW k \in Keys, Del(k), NEW x \in Keys
  PROVE  /\ up'[x] = Orphan => up[x] = Orphan
         /\ x \in Installed' => x \in Installed
<1>1. CASE Children(k) # {} /\ Preserve(k)
  BY <1>1 DEF Preserve, Installed, Del, Removable
<1>2. CASE Children(k) = {} /\ Drop({k} \cup Pruned(k))
  <2>1. up[x] \in {k} \cup Pruned(k) => x \in {k} \cup Pruned(k)
    BY <1>2, PrunedClosed DEF Children
  <2>2. up'[x] = IF x \in {k} \cup Pruned(k) THEN None
                 ELSE IF up[x] \in {k} \cup Pruned(k) THEN Orphan ELSE up[x]
    BY <1>2 DEF Drop
  <2>3. up'[x] = Orphan => up[x] = Orphan
    BY <2>1, <2>2, MarksApart
  <2>4. x \in Installed' => x \in Installed
    BY <1>2 DEF Drop, Installed
  <2> QED
    BY <2>3, <2>4
<1> QED
  BY <1>1, <1>2 DEF Del

LEMMA WayType ==
  ASSUME NEW a \in Ways, TypeInv
  PROVE  /\ a \in Paths /\ Own(a) \in Keys
         /\ \A b \in Anc[a] : b \in Paths /\ after[b] \notin Leaves
<1>1. PICK q \in Planned(after) : a \in Way(q)
  BY DEF Ways
<1>2. q \in Paths /\ \A b \in Anc[q] : after[b] \notin Leaves
  BY PlanAssumption DEF TypeInv, Planned
<1>3. a \in Paths /\ Anc[a] \subseteq Anc[q] /\ Anc[q] \subseteq Paths
  BY <1>1, <1>2, PathAssumption DEF Way
<1> QED
  BY <1>2, <1>3, OwnKey

LEMMA CheckWays ==
  ASSUME TypeInv, TableInv, StartInv, quiet, pc = "check"
  PROVE  /\ \A a \in Paths : up[Own(a)] = Orphan => CutOff(a)
         /\ \A a \in Paths : Own(a) \in Installed => start.rules[Own(a)] # None
<1>1. start.rules = rules /\ start.visible[Global] = Visible(Global)
  BY PayloadAssumption DEF StartInv
<1>2. ASSUME NEW a \in Paths, up[Own(a)] = Orphan PROVE CutOff(a)
  <2>1. Own(a) \in Keys
    BY OwnKey
  <2>2. Own(a) \in Installed
    BY <1>2, <2>1, MarksApart DEF TableInv, LinksAreLive
  <2>3. \A S : Walk(S, Global) => Own(a) \notin S
    BY <1>2, MarksApart DEF Walk, Installed
  <2> QED
    BY <1>1, <2>2, <2>3, VisibleWalk DEF CutOff, Installed
<1> QED
  BY <1>1, <1>2 DEF Installed

(* A path of the new plan is put: what is below it by the plan stays with it. *)
LEMMA PutWays ==
  ASSUME TypeInv, TableInv, BatchInv, StartClosed, WaysInv, quiet, pc = "put",
         page # "failing", UNCHANGED <<before, after, start, pc>>,
         NEW p \in Shallowest(todo), Add(Own(p), after[p]), todo' = todo \ {p}
  PROVE  CutBefore' /\ NewBelowNone' /\ ParentsPut'
<1> DEFINE o == Own(p)
<1> DEFINE gen == Generated(o)
<1>0. CutBefore /\ NewBelowNone /\ ParentsPut
  BY DEF WaysInv, Unfailed, Forward
<1>1. p \in todo /\ todo \subseteq Planned(after)
  <2>1. Planned(Tried) \subseteq Planned(after)
    BY DEF Tried, Planned, Nothing
  <2> QED
    BY <2>1 DEF Shallowest, BatchInv
<1>2. /\ p \in Paths /\ after[p] \in Payloads /\ p \in Planned(after)
      /\ o \in Keys /\ o[1] = p /\ o[2] = Global /\ Anc[p] \cap todo = {}
  BY <1>1, PlannedPayload, OwnKey, ShallowestFirst DEF TypeInv
<1>3. /\ \A x \in Keys :
           rules'[x] = IF x = o THEN after[p] ELSE IF x \in gen THEN Derived ELSE rules[x]
      /\ \A x \in Keys : up'[x] = IF x \in gen \cup {o} THEN Link(x, gen) ELSE Heir(x, o, after[p])
  BY DEF Add
<1>4. \A x \in gen \cup {o} : x \in Keys /\ x[1] \in Anc[p] \cup {p} /\ Link(x, gen) # Orphan
  <2> SUFFICES ASSUME NEW x \in gen \cup {o}
               PROVE  x \in Keys /\ x[1] \in Anc[p] \cup {p} /\ Link(x, gen) # Orphan
    OBVIOUS
  <2>1. x \in Keys /\ (x = o \/ x[1] \in Anc[o[1]])
    BY <1>2, AddedPlace
  <2>2. Link(x, gen) # Orphan
    BY <2>1, LinkPlace, MarksApart
  <2> QED
    BY <1>2, <2>1, <2>2
<1>5. ParentsPut'
  BY <1>0, <1>2 DEF ParentsPut, Planned
<1>6. NewBelowNone'
  <2> SUFFICES ASSUME NEW a \in Paths, Own(a) \in Installed', start.rules[Own(a)] = None
               PROVE  Anc[a] \cap todo' = {}
    BY DEF NewBelowNone, Own
  <2>1. Own(a) \in Keys /\ Own(a)[1] = a
    BY OwnKey
  <2>2. CASE Own(a) \in Installed
    BY <1>0, <2>2 DEF NewBelowNone
  <2>3. CASE Own(a) \in gen \cup {o}
    <3>1. a \in Anc[p] \cup {p}
      BY <1>4, <2>1, <2>3
    <3>2. Anc[a] \subseteq Anc[p]
      BY <1>2, <3>1, PathAssumption
    <3> QED
      BY <1>2, <3>2
  <2>4. Own(a) \in Installed \/ Own(a) \in gen \cup {o}
    BY <1>3, <2>1 DEF Installed
  <2> QED
    BY <2>2, <2>3, <2>4
<1>7. CutBefore'
  <2>0. /\ Ways' = Ways /\ \A b : Way(b)' = Way(b) /\ (CutOff(b)' <=> CutOff(b))
        /\ \A b : Own(b)' = Own(b)
    BY DEF Ways, Planned, CutOff, Own, Way
  <2> SUFFICES ASSUME NEW a \in Ways, up'[Own(a)] = Orphan
               PROVE  \E b \in Way(a) : CutOff(b) /\ ~Renewed(b)'
    BY <2>0 DEF CutBefore
  <2>1. /\ a \in Paths /\ Own(a) \in Keys /\ Own(a)[1] = a
        /\ \A b \in Anc[a] : b \in Paths /\ after[b] \notin Leaves
    BY WayType, OwnKey
  <2>2. Own(a) \notin gen \cup {o}
    BY <1>3, <1>4, <2>1
  <2>3. up[Own(a)] = Orphan
    <3> SUFFICES ASSUME up[Own(a)] = o, after[p] \notin Dirs PROVE FALSE
      BY <1>3, <2>1, <2>2 DEF Heir
    <3>1. Parent[a] = p /\ Own(a) \in Installed
      BY <1>2, <2>1, MarksApart DEF TableInv, LinksAreLive
    <3>2. p \in Anc[a]
      BY <1>2, <2>1, <3>1, PathAssumption
    <3> QED
      BY <1>2, <2>1, <3>2 DEF Payloads
  <2>4. PICK b \in Way(a) : CutOff(b) /\ ~Renewed(b)
    BY <1>0, <2>3 DEF CutBefore
  <2>5. CASE b # p
    <3>1. ~Renewed(b)'
      BY <2>4, <2>5 DEF Renewed, Planned
    <3> QED
      BY <2>4, <3>1
  <2>6. CASE b = p
    <3>1. p \in Anc[a]
      BY <2>2, <2>4, <2>6 DEF Way
    <3>2. Own(a) \in Installed
      BY <2>1, <2>3, MarksApart DEF TableInv, LinksAreLive
    <3>3. start.rules[Own(a)] # None
      BY <1>0, <1>1, <2>1, <3>1, <3>2 DEF NewBelowNone
    <3>4. Own(a) \notin start.visible[Global]
      BY <2>1, <2>4, <2>6, <3>1 DEF StartClosed, CutOff
    <3>5. a \in Planned(after) => a \in todo'
      BY <1>0, <1>1, <2>2, <3>1 DEF ParentsPut
    <3>6. CutOff(a) /\ ~Renewed(a)'
      BY <3>3, <3>4, <3>5 DEF CutOff, Renewed, Planned
    <3> QED
      BY <3>6 DEF Way
  <2> QED
    BY <2>5, <2>6
<1> QED
  BY <1>5, <1>6, <1>7

LEMMA WaysStep ==
  ASSUME TypeInv, TableInv, BatchInv, StartInv, StartClosed, WaysInv, [Next]_vars PROVE WaysInv'
<1> USE DEF Read, Send, End, local
<1> SUFFICES ASSUME quiet', pc' \in Forward, page' # "failing"
             PROVE  CutBefore' /\ NewBelowNone' /\ ParentsPut'
  BY DEF WaysInv, Unfailed, Forward
<1> USE DEF Forward
<1>0. UNCHANGED <<before, after>> => Ways' = Ways /\ Planned(after)' = Planned(after)
  BY DEF Ways, Planned, Way
<1>1. CASE Check
  <2>1. /\ pc = "check" /\ pc' = "delete" /\ UNCHANGED <<table, before, after, start, quiet>>
    BY <1>1 DEF Check, Listed
  <2>2. quiet
    BY <2>1
  <2>3. /\ \A a \in Paths : up[Own(a)] = Orphan => CutOff(a)
        /\ \A a \in Paths : Own(a) \in Installed => start.rules[Own(a)] # None
    BY <2>1, <2>2, CheckWays
  <2>4. CutBefore'
    <3>1. \A a \in Ways : up[Own(a)] = Orphan => a \in Way(a) /\ CutOff(a)
      BY <2>3, WayType DEF Way
    <3> QED
      BY <1>0, <2>1, <3>1 DEF CutBefore, CutOff, Renewed, Own, table
  <2>5. NewBelowNone' /\ ParentsPut'
    BY <2>1, <2>3 DEF NewBelowNone, ParentsPut, Installed, Own, table
  <2> QED
    BY <2>4, <2>5
<1>2. CASE Delete
  <2>1. /\ pc = "delete" /\ pc' = "delete" /\ UNCHANGED <<before, after, start, quiet>>
        /\ page # "failing" /\ todo' \subseteq todo
    BY <1>2 DEF Delete, FailsAt
  <2>2. CutBefore /\ NewBelowNone
    BY <2>1 DEF WaysInv, Unfailed
  <2>3. PICK p \in Deepest(todo) : Deleted(p)
    BY <1>2, <2>1 DEF Delete, FailsAt
  <2>4. p \in Paths /\ Own(p) \in Keys
    BY <2>3, OwnKey DEF Deepest, TypeInv
  <2>5. \A x \in Keys : /\ up'[x] = Orphan => up[x] = Orphan
                        /\ x \in Installed' => x \in Installed
    <3>1. CASE Del(Own(p))
      BY <2>4, <3>1, DelCutsNothing
    <3>2. CASE UNCHANGED table
      BY <3>2 DEF table, Installed
    <3> QED
      BY <2>3, <3>1, <3>2 DEF Deleted
  <2>6. CutBefore'
    BY <1>0, <2>1, <2>2, <2>5, WayType DEF CutBefore, CutOff, Renewed, Own
  <2>7. NewBelowNone' /\ ParentsPut'
    BY <2>1, <2>2, <2>5, OwnKey DEF NewBelowNone, ParentsPut, Own
  <2> QED
    BY <2>6, <2>7
<1>3. CASE PutBegin
  <2>1. /\ pc = "delete" /\ pc' = "put" /\ todo' = Planned(after)
        /\ UNCHANGED <<table, before, after, start, quiet>> /\ page # "failing"
    BY <1>3 DEF PutBegin, BatchInv
  <2>2. CutBefore /\ NewBelowNone
    BY <2>1 DEF WaysInv, Unfailed
  <2>3. CutBefore'
    BY <1>0, <2>1, <2>2 DEF CutBefore, CutOff, Renewed, Own, table
  <2>4. NewBelowNone' /\ ParentsPut'
    BY <1>0, <2>1, <2>2 DEF NewBelowNone, ParentsPut, Installed, Own, table
  <2> QED
    BY <2>3, <2>4
<1>4. CASE Put
  <2>1. pc = "put" /\ pc' = "put" /\ UNCHANGED <<before, after, start, quiet>>
    BY <1>4 DEF Put, Record, FailsAt
  <2>2. PICK p \in Shallowest(todo) : /\ Add(Own(p), after[p]) /\ todo' = todo \ {p}
                                      /\ page = "between"
    BY <1>4, <2>1 DEF Put, Record, FailsAt
  <2> QED
    BY <2>1, <2>2, PutWays
<1>5. ASSUME UNCHANGED <<table, before, after, start, quiet, todo>>, pc \in Forward,
             page # "failing", pc = pc' \/ (pc = "put" /\ pc' = "verify")
      PROVE  CutBefore' /\ NewBelowNone' /\ ParentsPut'
  <2>1. CutBefore /\ NewBelowNone /\ ParentsPut
    BY <1>5 DEF WaysInv, Unfailed
  <2>2. CutBefore'
    BY <1>0, <1>5, <2>1 DEF CutBefore, CutOff, Renewed, Own, table
  <2>3. NewBelowNone' /\ ParentsPut'
    BY <1>0, <1>5, <2>1 DEF NewBelowNone, ParentsPut, Installed, Own, table
  <2> QED
    BY <2>2, <2>3
<1>6. CASE PutEnd
  BY <1>5, <1>6 DEF PutEnd, BatchInv
<1>7. CASE ReadPage \/ UNCHANGED vars
  BY <1>5, <1>7 DEF ReadPage, vars
<1>8. ~Command
  BY DEF Command
<1>9. ~BootPut /\ ~Begin /\ ~CheckFails /\ ~Verify /\ ~VerifyFails
  BY DEF BootPut, Record, FailsAt, Begin, CheckFails, Verify, VerifyFails
<1>10. ~Survey /\ ~Undo /\ ~UndoEnd /\ ~Resurvey /\ ~Restore /\ ~RestoreEnd
  BY DEF Survey, Undo, UndoEnd, Resurvey, Restore, RestoreEnd
<1>11. ~Confirm /\ ~RollbackFails
  BY DEF Confirm, RollbackFails
<1> QED
  BY <1>1, <1>2, <1>3, <1>4, <1>6, <1>7, <1>8, <1>9, <1>10, <1>11 DEF Next, Reconcile

-----------------------------------------------------------------------------
(* Outcomes *)

(* A plan that is listed, with nothing else of the other one, is exactly in place. *)
LEMMA VerifiedAfter ==
  ASSUME TypeInv, TableInv, SeenInv, Frame, quiet, Listed("verify"), Present(after),
         Gone(before, after)
  PROVE  Exactly(after)
<1>1. /\ \A r \in seen : rules[r[1]] = r[2]
      /\ \A k \in Installed : <<k, rules[k]>> \in seen
  BY ListedAll DEF Listing
<1> SUFFICES ASSUME NEW k \in Keys,
                    NEW want, want = IF k \in OwnedKeys THEN after[k[1]] ELSE start.rules[k],
                    Explicit(k) \/ want \in Payloads
             PROVE  rules[k] = want
  BY DEF Exactly
<1>2. CASE k \notin OwnedKeys
  <2>1. k \notin {Own(p) : p \in Touched}
    BY <1>2 DEF OwnedKeys, Touched, Tried, Planned, Nothing
  <2> QED
    BY <1>2, <2>1 DEF Frame
<1>3. CASE k \in OwnedKeys
  <2>1. PICK p \in Planned(before) \cup Planned(after) : k = Own(p)
    BY <1>3 DEF OwnedKeys
  <2>2. p \in Paths /\ k[1] = p /\ want = after[p]
    BY <1>3, <2>1, OwnKey DEF Planned
  <2>3. CASE p \in Planned(after)
    BY <1>1, <2>1, <2>2, <2>3 DEF Present
  <2>4. CASE p \in Planned(before) \ Planned(after)
    <3>1. after[p] = None
      BY <2>2, <2>4 DEF Planned
    <3>2. Explicit(k)
      BY <2>2, <3>1, PayloadAssumption
    <3>3. k \in Installed
      BY <3>2, PayloadAssumption DEF Explicit, Installed
    <3>4. rules[k] = Derived
      BY <1>1, <2>1, <2>4, <3>3 DEF Gone
    <3> QED
      BY <3>2, <3>4, PayloadAssumption DEF Explicit
  <2> QED
    BY <2>1, <2>3, <2>4
<1> QED
  BY <1>2, <1>3

LEMMA VerifiedBefore ==
  ASSUME TypeInv, TableInv, SeenInv, Frame, Apart, quiet, Listed("confirm"), Present(before),
         Gone(Tried, before)
  PROVE  Exactly(before)
<1>1. /\ \A r \in seen : rules[r[1]] = r[2]
      /\ \A k \in Installed : <<k, rules[k]>> \in seen
  BY ListedAll DEF Listing
<1> SUFFICES ASSUME NEW k \in Keys,
                    NEW want, want = IF k \in OwnedKeys THEN before[k[1]] ELSE start.rules[k],
                    Explicit(k) \/ want \in Payloads
             PROVE  rules[k] = want
  BY DEF Exactly
<1>2. CASE k \notin OwnedKeys
  <2>1. k \notin {Own(p) : p \in Touched}
    BY <1>2 DEF OwnedKeys, Touched, Tried, Planned, Nothing
  <2> QED
    BY <1>2, <2>1 DEF Frame
<1>3. CASE k \in OwnedKeys
  <2>1. PICK p \in Wanted : k = Own(p)
    BY <1>3 DEF OwnedKeys, Wanted
  <2>2. p \in Paths /\ k[1] = p /\ want = before[p]
    BY <1>3, <2>1, OwnKey DEF Planned, Wanted
  <2>3. CASE p \in Planned(before)
    BY <1>1, <2>1, <2>2, <2>3 DEF Present
  <2>4. CASE p \notin Planned(before)
    <3>1. before[p] = None
      BY <2>2, <2>4 DEF Planned
    <3>2. Explicit(k)
      BY <2>2, <3>1, PayloadAssumption
    <3>3. k \in Installed
      BY <3>2, PayloadAssumption DEF Explicit, Installed
    <3>4. p \notin Planned(Tried)
      <4> SUFFICES ASSUME p \in Planned(Tried) PROVE FALSE
        OBVIOUS
      <4>1. rules[k] = Derived
        BY <1>1, <2>1, <2>4, <3>3 DEF Gone
      <4> QED
        BY <3>2, <4>1, PayloadAssumption DEF Explicit
    <3>5. \A q \in Touched : q \in Paths /\ k # Own(q)
      BY <2>1, <2>2, <2>4, <3>4, OwnKey DEF Touched, Planned
    <3>6. start.rules[k] \in Payloads
      BY <3>2, <3>5 DEF Frame, Explicit
    <3>7. k \notin {Own(q) : q \in Planned(before)}
      BY <3>5 DEF Touched
    <3> QED
      BY <2>1, <2>2, <3>6, <3>7 DEF Apart
  <2> QED
    BY <2>3, <2>4
<1> QED
  BY <1>2, <1>3

LEMMA VerifiedReach ==
  ASSUME TypeInv, TableInv, SeenInv, BatchInv, WaysInv, quiet, Listed("verify"), Present(after),
         NEW p \in Planned(after), \A a \in Anc[p] \ Planned(after) : ~CutOff(a)
  PROVE  Own(p) \in Visible(Global)
<1>1. pc = "verify" /\ todo = {} /\ CutBefore
  BY DEF Listed, BatchInv, WaysInv, Unfailed, Forward, Listing
<1>2. p \in Paths /\ Own(p) \in Keys /\ after[p] \in Payloads
  BY PlannedPayload, OwnKey DEF TypeInv
<1>3. Own(p) \in Installed
  <2>1. rules[Own(p)] = after[p]
    BY ListedAll DEF Listing, Present
  <2> QED
    BY <1>2, <2>1, PayloadAssumption DEF Installed
<1>4. ASSUME NEW c \in Way(p) PROVE up[Own(c)] # Orphan
  <2> SUFFICES ASSUME up[Own(c)] = Orphan PROVE FALSE
    OBVIOUS
  <2>1. c \in Ways /\ Way(c) \subseteq Way(p)
    BY <1>2, PathAssumption DEF Ways, Way
  <2>2. PICK b \in Way(p) : CutOff(b) /\ ~Renewed(b)
    BY <1>1, <2>1 DEF CutBefore
  <2>3. b \in Planned(after)
    BY <2>2 DEF Way
  <2> QED
    BY <1>1, <2>2, <2>3 DEF Renewed
<1> QED
  BY <1>2, <1>3, <1>4, ReachedByWay

(* Nothing happens when reconcile is over. *)
LEMMA OverStays ==
  ASSUME [Next]_vars, pc \in Over PROVE UNCHANGED vars
<1>1. ~Call
  BY DEF Call, BootPut, Delete, Put, Undo, Restore, Over
<1>2. ~Begin /\ ~ReadPage /\ ~PutBegin /\ ~Check /\ ~CheckFails /\ ~PutEnd
      /\ ~Verify /\ ~VerifyFails
  BY DEF Begin, ReadPage, PutBegin, Check, CheckFails, PutEnd, Verify, VerifyFails, Over, Listed,
         Listing
<1>3. ~Survey /\ ~UndoEnd /\ ~Resurvey /\ ~RestoreEnd /\ ~Confirm /\ ~RollbackFails /\ ~Command
  BY DEF Survey, UndoEnd, Resurvey, RestoreEnd, Confirm, RollbackFails, Command, Over, Listed
<1> QED
  BY <1>1, <1>2, <1>3 DEF Next, Reconcile, Call

(* Ok and clean are reported by these two steps only. *)
LEMMA OutcomeSteps ==
  ASSUME TypeInv, [Next]_vars, pc \notin Over
  PROVE  /\ pc' = "ok" => Verify
         /\ pc' = "clean" => Confirm
<1> USE DEF Read, Send, End, Over
<1>1. Call \/ Begin \/ ReadPage \/ PutBegin => pc' \notin {"ok", "clean"}
  BY DEF Call, BootPut, Record, FailsAt, Delete, Put, Undo, Restore, Begin, ReadPage, PutBegin,
     Listing
<1>2. Check \/ CheckFails \/ PutEnd \/ VerifyFails \/ Survey \/ UndoEnd => pc' \notin {"ok", "clean"}
  BY DEF Check, CheckFails, PutEnd, VerifyFails, Survey, UndoEnd
<1>3. Resurvey \/ RestoreEnd \/ RollbackFails \/ Command => pc' \notin {"ok", "clean"}
  BY DEF Resurvey, RestoreEnd, RollbackFails, Command
<1>4. Verify => pc' # "clean"
  BY DEF Verify
<1>5. Confirm => pc' # "ok"
  BY DEF Confirm
<1>6. UNCHANGED vars => pc' \notin {"ok", "clean"}
  BY DEF vars
<1> QED
  BY <1>1, <1>2, <1>3, <1>4, <1>5, <1>6 DEF Next, Reconcile, Call

LEMMA OutcomeFrame ==
  ASSUME UNCHANGED <<table, before, after, start>>
  PROVE  /\ Exactly(after)' <=> Exactly(after)
         /\ Exactly(before)' <=> Exactly(before)
         /\ OthersVisible' <=> OthersVisible
         /\ Visible(Global)' = Visible(Global)
         /\ \A p : CutOff(p)' <=> CutOff(p)
         /\ Planned(after)' = Planned(after)
<1>1. \A u : Visible(u)' = Visible(u)
  BY DEF Visible, Installed, table
<1>2. OwnedKeys' = OwnedKeys
  BY DEF OwnedKeys, Own, Planned
<1> QED
  BY <1>1, <1>2 DEF Exactly, OthersVisible, CutOff, Own, Planned, Explicit, table

LEMMA FinalStep ==
  ASSUME TypeInv, TableInv, BatchInv, SeenInv, QuietInv, WaysInv, FinalInv, [Next]_vars
  PROVE  FinalInv'
<1>1. CASE pc \in Over
  <2>1. UNCHANGED <<table, before, after, start>> /\ UNCHANGED <<pc, quiet>>
    BY <1>1, OverStays DEF vars, local
  <2> QED
    BY <2>1, OutcomeFrame DEF FinalInv, OkIsExact, CleanIsBefore, Own
<1>2. CASE pc \notin Over /\ pc' \notin {"ok", "clean"}
  BY <1>2 DEF FinalInv, OkIsExact, CleanIsBefore
<1>3. CASE pc \notin Over /\ pc' = "ok"
  <2>1. Verify
    BY <1>3, OutcomeSteps
  <2>2. /\ UNCHANGED <<table, before, after, start>> /\ quiet' = quiet
        /\ Listed("verify") /\ Present(after) /\ Gone(before, after)
    BY <1>3, <2>1 DEF Verify, Read, Send, local
  <2> SUFFICES ASSUME quiet PROVE OkIsExact'
    BY <1>3, <2>2 DEF FinalInv, OkIsExact, CleanIsBefore
  <2>3. Frame /\ OthersVisible
    BY <2>2 DEF QuietInv, Listed, Changing
  <2>4. Exactly(after)
    BY <2>2, <2>3, VerifiedAfter
  <2>5. \A p \in Planned(after) :
          Own(p) \in Visible(Global) \/ \E a \in Anc[p] \ Planned(after) : CutOff(a)
    BY <2>2, VerifiedReach
  <2> QED
    BY <2>2, <2>3, <2>4, <2>5, OutcomeFrame DEF OkIsExact, Own
<1>4. CASE pc \notin Over /\ pc' = "clean"
  <2>1. Confirm
    BY <1>4, OutcomeSteps
  <2>2. /\ UNCHANGED <<table, before, after, start>> /\ quiet' = quiet
        /\ Listed("confirm") /\ Present(before) /\ Gone(Tried, before)
    BY <1>4, <2>1 DEF Confirm, End, Send, local
  <2> SUFFICES ASSUME quiet PROVE CleanIsBefore'
    BY <1>4, <2>2 DEF FinalInv, OkIsExact, CleanIsBefore
  <2>3. Frame /\ Apart /\ OthersVisible
    BY <2>2 DEF QuietInv, Listed, Changing
  <2>4. Exactly(before)
    BY <2>2, <2>3, VerifiedBefore
  <2> QED
    BY <2>2, <2>3, <2>4, OutcomeFrame DEF CleanIsBefore
<1> QED
  BY <1>1, <1>2, <1>3, <1>4

-----------------------------------------------------------------------------
(* One failure is repaired *)

(* Where all rules above are directories a rule can be attached. *)
LEMMA AttachBelowDirs ==
  ASSUME NEW p \in Paths, \A a \in Anc[p] : Own(a) \in Installed => IsDir(Own(a))
  PROVE  Attachable(Own(p))
<1> DEFINE o == Own(p)
<1> SUFFICES ASSUME NEW x \in Generated(o) \cup {o}, Link(x, Generated(o)) \in Installed
             PROVE  IsDir(Link(x, Generated(o)))
  BY DEF Attachable
<1>1. o \in Keys /\ o[1] = p /\ o[2] = Global
  BY OwnKey
<1>2. x \in Keys /\ x[2] = Global /\ (Parent[x[1]] # Root => Parent[x[1]] \in Anc[p])
  BY <1>1, AddedPlace
<1>3. /\ Parent[x[1]] # Root /\ Link(x, Generated(o))[1] = Parent[x[1]]
      /\ Link(x, Generated(o))[2] = Global
  BY <1>2, LinkPlace, MarksApart DEF Installed
<1>4. Link(x, Generated(o)) = Own(Parent[x[1]])
  BY <1>3 DEF Own, Installed, Keys
<1> QED
  BY <1>2, <1>3, <1>4

LEMMA DeletedValue ==
  ASSUME TableTypeOK, NEW p \in Paths, Deleted(p) PROVE rules'[Own(p)] \in {Derived, None}
<1>1. Own(p) \in Keys
  BY OwnKey
<1>2. CASE ~Removable(Own(p)) /\ UNCHANGED table
  BY <1>1, <1>2 DEF Removable, Installed, table
<1>3. CASE Del(Own(p))
  BY <1>1, <1>3 DEF Del, Drop, Preserve, TableTypeOK
<1> QED
  BY <1>2, <1>3 DEF Deleted

LEMMA DeleteFailsValue ==
  ASSUME TableTypeOK, NEW p \in Paths, DeleteFails(p)
  PROVE  rules'[Own(p)] \in {rules[Own(p)], Derived, None}
<1>1. UNCHANGED table => rules'[Own(p)] = rules[Own(p)]
  BY DEF table
<1> QED
  BY <1>1, DeletedValue DEF DeleteFails

LEMMA AddValue ==
  ASSUME NEW p \in Paths, NEW v, Add(Own(p), v) PROVE rules'[Own(p)] = v
  BY OwnKey DEF Add

LEMMA PutFailsValue ==
  ASSUME NEW p \in Paths, NEW v, PutFails(p, v) PROVE rules'[Own(p)] \in {rules[Own(p)], v, None}
<1>1. UNCHANGED table => rules'[Own(p)] = rules[Own(p)]
  BY DEF table
<1>2. AddLoses(Own(p)) => rules'[Own(p)] = None
  BY OwnKey DEF AddLoses, Drop
<1> QED
  BY <1>1, <1>2, AddValue DEF PutFails

(* Besides the rule it is for, a call brings no explicit rule. *)
LEMMA ElsewhereKept ==
  ASSUME NEW p \in Paths, UNCHANGED table \/ OwnCall(p), NEW q \in Paths \ {p}
  PROVE  rules'[Own(q)] \in {rules[Own(q)], Derived, None}
<1>1. Own(q) \in Keys \ {Own(p)}
  BY OwnKey
<1> QED
  BY <1>1, CallKeeps DEF table, Kept

(* An ADD takes none either. *)
LEMMA AddElsewhere ==
  ASSUME NEW p \in Paths, NEW v, Add(Own(p), v), NEW q \in Paths \ {p}, Explicit(Own(q))
  PROVE  rules'[Own(q)] = rules[Own(q)]
<1>1. Own(q) \in Keys \ {Own(p)}
  BY OwnKey
<1> QED
  BY <1>1, AddKeeps, PayloadAssumption DEF Kept, Explicit

LEMMA ValuesStep ==
  ASSUME Values, NEW p \in Touched, UNCHANGED table \/ OwnCall(p),
         UNCHANGED <<before, after, attempted>>,
         rules'[Own(p)] \in {rules[Own(p)], before[p], Tried[p], Derived, None}
  PROVE  Values'
<1>1. Touched' = Touched /\ Tried' = Tried
  BY DEF Touched, Tried, Planned, Nothing
<1>2. ASSUME NEW q \in Touched PROVE rules'[Own(q)] \in {before[q], Tried[q], Derived, None}
  <2>1. CASE q = p
    BY <2>1 DEF Values
  <2>2. CASE q # p
    <3>1. rules'[Own(q)] \in {rules[Own(q)], Derived, None}
      BY <2>2, ElsewhereKept, TouchedType
    <3> QED
      BY <3>1 DEF Values
  <2> QED
    BY <2>1, <2>2
<1> QED
  BY <1>1, <1>2 DEF Values, Own

LEMMA NotExplicitIsDir ==
  ASSUME TableTypeOK, NEW k \in Installed, ~Explicit(k) PROVE IsDir(k)
  BY DEF TableTypeOK, Installed, Explicit, IsDir

(* While nothing has failed each ADD finds directories above. *)
LEMMA PutAttaches ==
  ASSUME TypeInv, TableInv, BatchInv, Frame, Apart, Values, Sent, pc = "put",
         NEW p \in Shallowest(todo)
  PROVE  Attachable(Own(p))
<1>1. p \in Planned(after) /\ p \in Paths /\ Anc[p] \cap todo = {}
  BY TouchedType, ShallowestFirst DEF BatchInv, Planned, TypeInv
<1>2. ASSUME NEW a \in Anc[p], Own(a) \in Installed PROVE IsDir(Own(a))
  <2>1. a \in Paths
    BY <1>1, PathAssumption
  <2>2. CASE a \in Planned(after)
    <3>1. rules[Own(a)] = after[a] /\ after[a] \in Payloads
      BY <1>1, <2>2, PlannedPayload DEF Sent, TypeInv
    <3>2. after[a] \notin Leaves
      BY <1>1, PlanAssumption DEF TypeInv, Planned
    <3> QED
      BY <3>1, <3>2 DEF IsDir, Payloads
  <2>3. CASE a \in Obsolete
    BY <1>2, <2>3, NotExplicitIsDir DEF Sent, TableInv
  <2>4. CASE a \notin Touched
    BY <1>1, <1>2, <2>4, ApartAbovePath, NotExplicitIsDir DEF TableInv, Wanted
  <2> QED
    BY <2>2, <2>3, <2>4, TouchedType DEF Touched, Obsolete
<1> QED
  BY <1>1, <1>2, AttachBelowDirs

LEMMA RestoreAttaches ==
  ASSUME TypeInv, TableInv, BatchInv, Frame, Apart, Restored, pc = "restore",
         NEW p \in Shallowest(todo)
  PROVE  Attachable(Own(p))
<1>1. p \in Planned(before) /\ p \in Paths /\ Anc[p] \cap todo = {}
  BY ShallowestFirst DEF BatchInv, Planned, TypeInv
<1>2. ASSUME NEW a \in Anc[p], Own(a) \in Installed PROVE IsDir(Own(a))
  <2>1. a \in Paths
    BY <1>1, PathAssumption
  <2>2. CASE a \in Planned(before)
    <3>1. rules[Own(a)] = before[a] /\ before[a] \in Payloads
      BY <1>1, <2>2, PlannedPayload DEF Restored, TypeInv
    <3>2. before[a] \notin Leaves
      BY <1>1, PlanAssumption DEF TypeInv, Planned
    <3> QED
      BY <3>1, <3>2 DEF IsDir, Payloads
  <2>3. CASE a \in Planned(Tried) \ Planned(before)
    BY <1>2, <2>3, NotExplicitIsDir DEF Restored, TableInv
  <2>4. CASE a \notin Touched
    BY <1>1, <1>2, <2>4, ApartAbovePath, NotExplicitIsDir DEF TableInv, Wanted
  <2> QED
    BY <2>2, <2>3, <2>4 DEF Touched
<1> QED
  BY <1>1, <1>2, AttachBelowDirs

(* The facts a quiet step starts from. *)
Settled ==
  TypeInv /\ TableInv /\ BatchInv /\ ForeignInv /\ SeenInv /\ StartInv /\ QuietInv /\ RepairInv

LEMMA SettledChanging ==
  ASSUME Settled, quiet, pc \in Changing
  PROVE  Frame /\ Apart /\ Values /\ ForeignStart
  BY DEF Settled, QuietInv, RepairInv

(* A step that reads nothing new and changes no rule keeps the values. *)
LEMMA SameValues ==
  ASSUME Values, ForeignStart, UNCHANGED <<table, before, after, foreign, attempted, start>>
  PROVE  Values' /\ ForeignStart'
  BY DEF Values, ForeignStart, Touched, Tried, Planned, Nothing, Own, table

LEMMA SameSent ==
  ASSUME Sent, UNCHANGED <<table, before, after, todo, pc>> PROVE Sent'
  BY DEF Sent, Obsolete, Planned, Own, Explicit, table

LEMMA SameRestored ==
  ASSUME Restored, UNCHANGED <<table, before, after, attempted, todo, pc>> PROVE Restored'
  BY DEF Restored, Planned, Tried, Nothing, Own, Explicit, table

LEMMA CheckRepair ==
  ASSUME Settled, quiet, Check, pc' = "delete"
  PROVE  Values' /\ ForeignStart' /\ Sent'
<1> USE DEF Settled
<1>1. /\ Listed("check") /\ Acceptable /\ foreign' = NotOwned /\ todo' = Obsolete
      /\ UNCHANGED <<table, before, after, attempted, start>>
  BY DEF Check, End, Send
<1>2. \A r \in seen : rules[r[1]] = r[2]
  BY <1>1, ListedAll DEF Listing
<1>3. ~attempted /\ start.rules = rules
  BY <1>1 DEF BatchInv, StartInv, Listed
<1>4. Values'
  <2>1. Touched' = Planned(before)
    BY <1>1, <1>3 DEF Touched, Tried, Planned, Nothing
  <2>2. \A p \in Planned(before) : rules[Own(p)] = before[p]
    BY <1>1, <1>2, OwnKey DEF Acceptable, Present, Planned
  <2> QED
    BY <1>1, <2>1, <2>2 DEF Values, Own, table
<1>5. ForeignStart'
  BY <1>1, <1>2, <1>3 DEF ForeignStart, NotOwned
<1>6. Sent'
  BY <1>1 DEF Sent, Obsolete, Planned, Check, Listed
<1> QED
  BY <1>4, <1>5, <1>6

LEMMA DeleteRepair ==
  ASSUME Settled, quiet, Delete
  PROVE  /\ Values' /\ ForeignStart'
         /\ Unfailed' => Sent'
<1> USE DEF Settled
<1>1. /\ pc = "delete" /\ UNCHANGED <<before, after, attempted, foreign, start>>
      /\ Values /\ ForeignStart
  BY SettledChanging DEF Delete, local, Changing
<1>2. PICK p \in Deepest(todo) :
        \/ Deleted(p) /\ todo' = todo \ {p} /\ pc' = pc /\ page # "failing"
        \/ DeleteFails(p) /\ ~Unfailed'
  BY DEF Delete, FailsAt, Read, Send, Unfailed, Forward
<1>3. p \in Obsolete /\ p \in Paths /\ p \in Touched
  BY <1>1, <1>2 DEF Deepest, BatchInv, TypeInv, Obsolete, Touched
<1>4. Values'
  BY <1>1, <1>2, <1>3, DeletedIsCall, DeleteFailsIsCall, DeletedValue, DeleteFailsValue, ValuesStep
     DEF TypeInv
<1>5. ForeignStart'
  BY <1>1 DEF ForeignStart
<1>6. ASSUME Unfailed' PROVE Sent'
  <2>1. /\ Deleted(p) /\ todo' = todo \ {p} /\ pc' = "delete"
        /\ Sent
    BY <1>1, <1>2, <1>6 DEF RepairInv, Unfailed, Forward
  <2>2. rules'[Own(p)] \in {Derived, None}
    BY <1>3, <2>1, DeletedValue DEF TypeInv
  <2>3. ASSUME NEW q \in Obsolete, rules'[Own(q)] \in Payloads PROVE q \in todo'
    <3>1. q # p /\ q \in Paths
      BY <2>2, <2>3, PayloadAssumption DEF Obsolete, Planned
    <3>2. rules[Own(q)] \in Payloads
      BY <1>3, <2>1, <2>3, <3>1, DeletedIsCall, ElsewhereKept, PayloadAssumption
    <3> QED
      BY <1>1, <2>1, <3>1, <3>2 DEF Sent, Explicit
  <2> QED
    BY <1>1, <2>1, <2>3 DEF Sent, Obsolete, Planned, Own, Explicit
<1> QED
  BY <1>4, <1>5, <1>6

LEMMA PutBeginRepair ==
  ASSUME Settled, quiet, PutBegin
  PROVE  Values' /\ ForeignStart' /\ Sent'
<1> USE DEF Settled
<1>1. /\ pc = "delete" /\ pc' = "put" /\ todo = {} /\ todo' = Planned(after)
      /\ UNCHANGED <<table, before, after, foreign, start>>
      /\ Values /\ ForeignStart /\ Sent /\ Frame /\ Apart
  BY SettledChanging DEF PutBegin, Send, Changing, RepairInv, BatchInv, Unfailed, Forward
<1>2. ASSUME NEW p \in Touched' PROVE rules[Own(p)] \in {before[p], Tried'[p], Derived, None}
  <2>1. p \in Planned(before) \/ p \in Planned(after)
    BY <1>1, <1>2 DEF Touched, Tried, Planned, Nothing
  <2>2. ~attempted
    BY <1>1 DEF BatchInv
  <2>3. CASE p \in Planned(before)
    <3>1. Tried[p] = None
      BY <2>2, <2>3 DEF Tried, Nothing, Planned
    <3> QED
      BY <1>1, <2>3, <3>1 DEF Values, Touched
  <2>4. CASE p \notin Planned(before)
    <3>1. p \notin Touched
      BY <2>2, <2>4 DEF Touched, Tried, Planned, Nothing
    <3>2. ~Explicit(Own(p))
      BY <1>1, <2>1, <2>4, <3>1, ApartAbovePath DEF Wanted
    <3>3. Own(p) \in Keys
      BY <2>1, OwnKey DEF Planned
    <3> QED
      BY <3>2, <3>3 DEF TypeInv, TableTypeOK, Explicit
  <2> QED
    BY <2>3, <2>4
<1>3. Values'
  BY <1>1, <1>2 DEF Values, Own, table
<1>4. ForeignStart'
  BY <1>1 DEF ForeignStart
<1>5. Sent'
  BY <1>1 DEF Sent, Obsolete, Planned, Own, Explicit, table
<1> QED
  BY <1>3, <1>4, <1>5

LEMMA PutRepair ==
  ASSUME Settled, quiet, Put
  PROVE  /\ Values' /\ ForeignStart'
         /\ \/ Unfailed /\ Unfailed' /\ faults' = faults /\ Sent'
            \/ Unfailed /\ ~Unfailed' /\ Fault
            \/ ~Unfailed /\ ~Unfailed' /\ faults' = faults
<1> USE DEF Settled
<1>1. /\ pc = "put" /\ UNCHANGED <<before, after, attempted, foreign, start>>
      /\ Values /\ ForeignStart /\ Frame /\ Apart
  BY SettledChanging DEF Put, local, Changing
<1>2. PICK p \in Shallowest(todo) :
        \/ Add(Own(p), after[p]) /\ UNCHANGED <<pc, page, faults>> /\ todo' = todo \ {p} /\ Unfailed
        \/ PutFails(p, after[p]) /\ ~Unfailed'
  BY DEF Put, Record, FailsAt, Read, Send, Unfailed, Forward
<1>3. /\ p \in todo /\ p \in Paths /\ p \in Touched /\ p \in Planned(after)
      /\ Tried[p] = after[p] /\ after[p] \in Payloads
  BY <1>1, <1>2, TouchedType, PlannedPayload DEF Shallowest, BatchInv, TypeInv, Touched
<1>4. Unfailed => Attachable(Own(p)) /\ Sent
  BY <1>1, <1>2, PutAttaches DEF RepairInv
<1>5. ForeignStart'
  BY <1>1 DEF ForeignStart
<1>6. CASE Add(Own(p), after[p]) /\ UNCHANGED <<pc, page, faults>> /\ todo' = todo \ {p} /\ Unfailed
  <2>1. OwnCall(p) /\ rules'[Own(p)] = after[p]
    BY <1>3, <1>6, AddValue DEF OwnCall
  <2>2. Values'
    BY <1>1, <1>3, <2>1, ValuesStep
  <2>3. ASSUME NEW q \in Obsolete, rules'[Own(q)] \in Payloads PROVE FALSE
    <3>1. q # p /\ q \in Paths
      BY <1>3, <2>3 DEF Obsolete, Planned
    <3>2. rules[Own(q)] \in Payloads
      BY <1>3, <2>1, <2>3, <3>1, ElsewhereKept, PayloadAssumption
    <3> QED
      BY <1>4, <1>6, <3>2, <1>1 DEF Sent, Explicit
  <2>4. ASSUME NEW q \in Planned(after) \ todo' PROVE rules'[Own(q)] = after[q]
    <3>1. CASE q # p
      <4>1. rules[Own(q)] = after[q] /\ after[q] \in Payloads /\ q \in Paths
        BY <1>1, <1>4, <1>6, <2>4, <3>1, PlannedPayload DEF Sent, TypeInv
      <4> QED
        BY <1>3, <1>6, <3>1, <4>1, AddElsewhere DEF Explicit
    <3> QED
      BY <2>1, <3>1
  <2>5. Sent'
    BY <1>1, <2>3, <2>4 DEF Sent, Obsolete, Planned, Own, Explicit
  <2> QED
    BY <1>1, <1>5, <1>6, <2>2, <2>5 DEF Unfailed
<1>7. CASE PutFails(p, after[p]) /\ ~Unfailed'
  <2>1. (Unfailed /\ Fault) \/ (~Unfailed /\ faults' = faults)
    BY <1>1, <1>4, <1>7 DEF PutFails, Fault, Unfailed, Forward
  <2>2. Values'
    BY <1>1, <1>3, <1>7, PutFailsIsCall, PutFailsValue, ValuesStep
  <2> QED
    BY <1>5, <1>7, <2>1, <2>2
<1> QED
  BY <1>2, <1>6, <1>7

(* What a quiet listing shows of a foreign rule is what was there. *)
LEMMA PreservedQuiet ==
  ASSUME Settled, quiet, pc \in Changing, NEW l \in Listing, Listed(l) PROVE Preserved
<1> USE DEF Settled
<1>1. Frame /\ ForeignStart /\ \A k \in Installed : <<k, rules[k]>> \in seen
  BY SettledChanging, ListedAll
<1> SUFFICES ASSUME NEW r \in foreign, r[2] # Derived PROVE r \in seen
  BY DEF Preserved
<1>2. r = <<r[1], r[2]>> /\ r[1] \in Keys /\ r[2] \in Payloads
  BY DEF TypeInv, Records
<1>3. r[1] \notin {Own(p) : p \in Touched}
  BY TouchedType DEF ForeignInv, Wanted, Touched
<1>4. rules[r[1]] = r[2]
  BY <1>1, <1>2, <1>3 DEF Frame, ForeignStart
<1>5. r[1] \in Installed
  BY <1>2, <1>4, PayloadAssumption DEF Installed
<1> QED
  BY <1>1, <1>2, <1>4, <1>5

LEMMA VerifyRepair ==
  ASSUME Settled, quiet, Verify PROVE pc' = "ok"
<1> USE DEF Settled
<1>1. pc = "verify" /\ Listed("verify") /\ todo = {} /\ Sent
  BY DEF Verify, Listed, BatchInv, RepairInv, Listing, Unfailed, Forward
<1>2. /\ \A r \in seen : rules[r[1]] = r[2]
      /\ \A k \in Installed : <<k, rules[k]>> \in seen
  BY <1>1, ListedAll DEF Listing
<1>3. Present(after)
  <2> SUFFICES ASSUME NEW p \in Planned(after) PROVE <<Own(p), after[p]>> \in seen
    BY DEF Present
  <2>1. rules[Own(p)] = after[p] /\ after[p] \in Payloads /\ Own(p) \in Keys
    BY <1>1, PlannedPayload, OwnKey DEF Sent, TypeInv
  <2>2. Own(p) \in Installed
    BY <2>1, PayloadAssumption DEF Installed
  <2> QED
    BY <1>2, <2>1, <2>2
<1>4. Gone(before, after)
  <2> SUFFICES ASSUME NEW p \in Obsolete, NEW r \in seen, r[1] = Own(p) PROVE r[2] = Derived
    BY DEF Gone, Obsolete
  <2>1. rules[Own(p)] = r[2] /\ r[2] \in Payloads \cup {Derived}
    BY <1>2 DEF TypeInv, Records
  <2>2. ~Explicit(Own(p))
    BY <1>1 DEF Sent
  <2> QED
    BY <2>1, <2>2 DEF Explicit
<1>5. Preserved
  BY <1>1, PreservedQuiet DEF Changing, Listing
<1> QED
  BY <1>3, <1>4, <1>5 DEF Verify, End, Send

LEMMA ConfirmRepair ==
  ASSUME Settled, quiet, Restored, Confirm PROVE pc' = "clean"
<1> USE DEF Settled
<1>1. pc = "confirm" /\ Listed("confirm") /\ todo = {}
  BY DEF Confirm, Listed, BatchInv, Listing
<1>2. /\ \A r \in seen : rules[r[1]] = r[2]
      /\ \A k \in Installed : <<k, rules[k]>> \in seen
  BY <1>1, ListedAll DEF Listing
<1>3. Present(before)
  <2> SUFFICES ASSUME NEW p \in Planned(before) PROVE <<Own(p), before[p]>> \in seen
    BY DEF Present
  <2>1. rules[Own(p)] = before[p] /\ before[p] \in Payloads /\ Own(p) \in Keys
    BY <1>1, PlannedPayload, OwnKey DEF Restored, TypeInv
  <2>2. Own(p) \in Installed
    BY <2>1, PayloadAssumption DEF Installed
  <2> QED
    BY <1>2, <2>1, <2>2
<1>4. Gone(Tried, before)
  <2> SUFFICES ASSUME NEW p \in Planned(Tried) \ Planned(before), NEW r \in seen, r[1] = Own(p)
               PROVE  r[2] = Derived
    BY DEF Gone
  <2>1. rules[Own(p)] = r[2] /\ r[2] \in Payloads \cup {Derived}
    BY <1>2 DEF TypeInv, Records
  <2>2. ~Explicit(Own(p))
    BY <1>1 DEF Restored
  <2> QED
    BY <2>1, <2>2 DEF Explicit
<1>5. Preserved
  BY <1>1, PreservedQuiet DEF Changing, Listing
<1> QED
  BY <1>3, <1>4, <1>5 DEF Confirm, End, Send

LEMMA SurveyRepair ==
  ASSUME Settled, quiet, Survey PROVE Restored'
<1> USE DEF Settled
<1>1. /\ pc = "survey" /\ Listed("survey") /\ pc' = "undo" /\ todo' = Introduced
      /\ UNCHANGED <<table, before, after, attempted>> /\ Values
  BY SettledChanging DEF Survey, Listed, Send, local, Changing
<1>2. \A k \in Installed : <<k, rules[k]>> \in seen
  BY <1>1, ListedAll DEF Listing
<1>3. ASSUME NEW p \in Planned(Tried) \ Planned(before), Explicit(Own(p)) PROVE p \in Introduced
  <2>1. p \in Touched /\ p \in Paths /\ Own(p) \in Keys
    BY <1>3, TouchedType, OwnKey DEF Touched
  <2>2. before[p] = None
    BY <1>3, <2>1 DEF Planned
  <2>3. rules[Own(p)] = Tried[p] /\ Own(p) \in Installed
    BY <1>1, <1>3, <2>1, <2>2, PayloadAssumption DEF Values, Explicit, Installed
  <2> QED
    BY <1>2, <1>3, <2>3 DEF Introduced
<1> QED
  BY <1>1, <1>3 DEF Restored, Planned, Tried, Nothing, Own, Explicit, table

LEMMA UndoRepair ==
  ASSUME Settled, quiet, Undo
  PROVE  /\ Values' /\ ForeignStart' /\ pc' = "undo"
         /\ Fault \/ (faults' = faults /\ (Restored => Restored'))
<1> USE DEF Settled
<1>1. /\ pc = "undo" /\ pc' = "undo" /\ UNCHANGED <<before, after, attempted, foreign, start>>
      /\ Values /\ ForeignStart
  BY SettledChanging DEF Undo, local, Changing
<1>2. PICK p \in Deepest(todo) :
        /\ (Deleted(p) /\ faults' = faults) \/ DeleteFails(p)
        /\ todo' = todo \ {p}
  BY DEF Undo
<1>3. p \in Paths /\ p \in Touched
  BY <1>1, <1>2, TouchedType DEF Deepest, BatchInv, TypeInv, Touched
<1>4. Values'
  BY <1>1, <1>2, <1>3, DeletedIsCall, DeleteFailsIsCall, DeletedValue, DeleteFailsValue, ValuesStep
     DEF TypeInv
<1>5. ForeignStart'
  BY <1>1 DEF ForeignStart
<1>6. CASE Deleted(p) /\ faults' = faults
  <2>1. rules'[Own(p)] \in {Derived, None}
    BY <1>3, <1>6, DeletedValue DEF TypeInv
  <2>2. ASSUME Restored, NEW q \in Planned(Tried) \ Planned(before), rules'[Own(q)] \in Payloads
        PROVE  q \in todo'
    <3>1. q # p /\ q \in Paths
      BY <2>1, <2>2, PayloadAssumption, TouchedType DEF Touched
    <3>2. rules[Own(q)] \in Payloads
      BY <1>3, <1>6, <2>2, <3>1, DeletedIsCall, ElsewhereKept, PayloadAssumption
    <3> QED
      BY <1>1, <1>2, <2>2, <3>1, <3>2 DEF Restored, Explicit
  <2>3. Restored => Restored'
    BY <1>1, <2>2 DEF Restored, Planned, Tried, Nothing, Own, Explicit
  <2> QED
    BY <1>1, <1>4, <1>5, <1>6, <2>3
<1>7. CASE DeleteFails(p)
  BY <1>1, <1>4, <1>5, <1>7 DEF DeleteFails
<1> QED
  BY <1>2, <1>6, <1>7

LEMMA ResurveyRepair ==
  ASSUME Settled, quiet, Resurvey, Restored PROVE Restored'
<1> USE DEF Settled
<1>1. /\ pc = "resurvey" /\ Listed("resurvey") /\ pc' = "restore" /\ todo' = Lost
      /\ UNCHANGED <<table, before, after, attempted>> /\ Values
  BY SettledChanging DEF Resurvey, Listed, Send, local, Changing
<1>2. \A r \in seen : rules[r[1]] = r[2] /\ r[2] # None
  BY <1>1, ListedAll, PayloadAssumption DEF Listing, TypeInv, Records
<1>3. ASSUME NEW p \in Planned(before) \ Lost PROVE rules[Own(p)] = before[p]
  <2>1. CASE <<Own(p), before[p]>> \in seen
    BY <1>2, <2>1
  <2>2. CASE <<Own(p), before[p]>> \notin seen
    <3>1. PICK r \in seen : /\ r[1] = Own(p) /\ r[2] # Derived
                            /\ ~(p \in Planned(Tried) /\ r[2] = Tried[p])
      BY <1>3, <2>2 DEF Lost
    <3>2. rules[Own(p)] \in {before[p], Tried[p], Derived, None}
      BY <1>1, <1>3 DEF Values, Touched
    <3>3. p \notin Planned(Tried) => Tried[p] = None
      BY <1>3 DEF Planned
    <3> QED
      BY <1>2, <3>1, <3>2, <3>3
  <2> QED
    BY <2>1, <2>2
<1>4. \A p \in Planned(Tried) \ Planned(before) : ~Explicit(Own(p))
  BY <1>1 DEF Restored
<1> QED
  BY <1>1, <1>3, <1>4 DEF Restored, Planned, Tried, Nothing, Own, Explicit, table

LEMMA RestoreRepair ==
  ASSUME Settled, quiet, Restore
  PROVE  /\ Values' /\ ForeignStart' /\ pc' = "restore"
         /\ Fault \/ (faults' = faults /\ (Restored => Restored'))
<1> USE DEF Settled
<1>1. /\ pc = "restore" /\ pc' = "restore" /\ UNCHANGED <<before, after, attempted, foreign, start>>
      /\ Values /\ ForeignStart /\ Frame /\ Apart
  BY SettledChanging DEF Restore, local, Changing
<1>2. PICK p \in Shallowest(todo) :
        /\ (Add(Own(p), before[p]) /\ faults' = faults) \/ PutFails(p, before[p])
        /\ todo' = todo \ {p}
  BY DEF Restore
<1>3. p \in Paths /\ p \in Touched /\ p \in Planned(before) /\ before[p] \in Payloads
  BY <1>1, <1>2, PlannedPayload DEF Shallowest, BatchInv, TypeInv, Touched
<1>4. ForeignStart'
  BY <1>1 DEF ForeignStart
<1>5. CASE Add(Own(p), before[p]) /\ faults' = faults
  <2>1. OwnCall(p) /\ rules'[Own(p)] = before[p]
    BY <1>3, <1>5, AddValue DEF OwnCall
  <2>2. Values'
    BY <1>1, <1>3, <2>1, ValuesStep
  <2>3. ASSUME Restored, NEW q \in Planned(Tried) \ Planned(before), rules'[Own(q)] \in Payloads
        PROVE  FALSE
    <3>1. q # p /\ q \in Paths
      BY <1>3, <2>3, TouchedType DEF Touched
    <3>2. rules[Own(q)] \in Payloads
      BY <1>3, <2>1, <2>3, <3>1, ElsewhereKept, PayloadAssumption
    <3> QED
      BY <1>1, <2>3, <3>2 DEF Restored, Explicit
  <2>4. ASSUME Restored, NEW q \in Planned(before) \ todo' PROVE rules'[Own(q)] = before[q]
    <3>1. CASE q # p
      <4>1. rules[Own(q)] = before[q] /\ before[q] \in Payloads /\ q \in Paths
        BY <1>1, <1>2, <2>4, <3>1, PlannedPayload DEF Restored, TypeInv
      <4> QED
        BY <1>3, <1>5, <3>1, <4>1, AddElsewhere DEF Explicit
    <3> QED
      BY <2>1, <3>1
  <2>5. Restored => Restored'
    BY <1>1, <2>3, <2>4 DEF Restored, Planned, Tried, Nothing, Own, Explicit
  <2> QED
    BY <1>1, <1>4, <1>5, <2>2, <2>5
<1>6. CASE PutFails(p, before[p])
  <2>1. Values'
    BY <1>1, <1>3, <1>6, PutFailsIsCall, PutFailsValue, ValuesStep
  <2>2. Restored => Fault
    BY <1>1, <1>2, <1>6, RestoreAttaches DEF PutFails
  <2>3. Fault \/ faults' = faults
    BY <1>6 DEF PutFails
  <2> QED
    BY <1>1, <1>4, <2>1, <2>2, <2>3
<1> QED
  BY <1>2, <1>5, <1>6

(* Steps of the rollback that only read, or come to the end of a batch. *)
LEMMA ReadRepair ==
  ASSUME Settled, quiet, UndoEnd \/ RestoreEnd, Restored PROVE Restored'
<1> USE DEF Settled
<1>1. UNCHANGED <<table, before, after, attempted>> /\ todo = {} /\ todo' = {}
  BY DEF UndoEnd, RestoreEnd, Read, Send, local
<1>2. (pc = "undo" /\ pc' = "resurvey") \/ (pc = "restore" /\ pc' = "confirm")
  BY DEF UndoEnd, RestoreEnd, Read, Send
<1> QED
  BY <1>1, <1>2 DEF Restored, Planned, Tried, Nothing, Own, Explicit, table

(* A failure is counted. *)
LEMMA FaultCounts ==
  ASSUME TypeInv, Fault, page # "failing", start.faults \in Nat, start' = start
  PROVE  /\ faults' \in Nat
         /\ faults = start.faults => faults' < start'.faults
         /\ faults < start.faults => faults' < start'.faults /\ faults' + 2 =< start'.faults
         /\ faults < start.faults => faults' + 1 # start'.faults
<1>1. faults \in Nat /\ faults > 0 /\ faults' = faults - 1
  BY DEF TypeInv, Fault
<1> QED
  BY <1>1

LEMMA RepairStep ==
  ASSUME Settled, TypeInv', [Next]_vars PROVE RepairInv'
<1> USE DEF Settled, Read, Send, End, local
<1> DEFINE Late == pc \in Changing /\ ~Unfailed
<1>0. start'.faults \in Nat
  <2>1. CASE Begin
    BY <2>1 DEF Begin, Observed, TypeInv
  <2>2. CASE pc # "boot"
    BY <2>2, StartStands DEF RepairInv
  <2>3. CASE pc = "boot" /\ ~Begin
    <3>1. start' = start
      BY <2>3 DEF Next, Reconcile, vars, BootPut, Record, FailsAt, ReadPage, Check, CheckFails,
         Delete, PutBegin, Put, PutEnd, Verify, VerifyFails, Survey, Undo, UndoEnd, Resurvey,
         Restore, RestoreEnd, Confirm, RollbackFails, Command, Listed, Listing
    <3> QED
      BY <3>1 DEF RepairInv
  <2> QED
    BY <2>1, <2>2, <2>3
<1>1. CASE pc' \in {"boot", "refused", "ok", "clean"} \/ ~quiet'
  BY <1>0, <1>1 DEF RepairInv, Unfailed, Changing, Forward, SingleFailureRepaired
<1>2. CASE Begin
  <2>1. pc' = "check" /\ start'.faults = faults'
    BY <1>2 DEF Begin, Observed
  <2> QED
    BY <1>0, <2>1 DEF RepairInv, Unfailed, Changing, Forward, SingleFailureRepaired
<1>3. CASE UNCHANGED <<table, local, pc, todo, page, faults, quiet>>
  BY <1>0, <1>3, SameValues, SameSent, SameRestored DEF RepairInv, Unfailed, SingleFailureRepaired
<1> SUFFICES ASSUME quiet', quiet, ~Begin, pc # "boot", UNCHANGED start,
                    pc' \notin {"boot", "refused", "ok", "clean"}
             PROVE  RepairInv'
  <2>1. quiet' => quiet \/ Begin
    BY DEF Next, Reconcile, vars, BootPut, Record, FailsAt, ReadPage, Check, CheckFails, Delete,
       PutBegin, Put, PutEnd, Verify, VerifyFails, Survey, Undo, UndoEnd, Resurvey, Restore,
       RestoreEnd, Confirm, RollbackFails, Command
  <2>2. pc = "boot" /\ ~Begin => pc' = "boot"
    BY DEF Next, Reconcile, vars, BootPut, Record, FailsAt, ReadPage, Check, CheckFails, Delete,
       PutBegin, Put, PutEnd, Verify, VerifyFails, Survey, Undo, UndoEnd, Resurvey, Restore,
       RestoreEnd, Confirm, RollbackFails, Command, Listed, Listing
  <2> QED
    BY <1>1, <1>2, <2>1, <2>2, StartStands
<1>4. Late => /\ Values /\ ForeignStart /\ faults < start.faults
              /\ pc \notin Forward /\ faults + 1 = start.faults => Restored
  BY SettledChanging DEF RepairInv
<1>5. Unfailed => Values /\ ForeignStart /\ faults = start.faults /\ Sent
  BY SettledChanging DEF RepairInv, Unfailed, Forward, Changing
<1>6. start.faults \in Nat /\ faults \in Nat /\ faults' \in Nat
  BY DEF RepairInv, TypeInv
<1>7. ASSUME Unfailed', Values', ForeignStart', faults' = start'.faults, Sent'
      PROVE  RepairInv'
  BY <1>0, <1>7 DEF RepairInv, Unfailed, Forward, SingleFailureRepaired
<1>8. ASSUME pc' \in Changing, ~Unfailed', Values', ForeignStart', faults' < start'.faults,
             pc' \notin Forward /\ faults' + 1 = start'.faults => Restored'
      PROVE  RepairInv'
  BY <1>0, <1>8 DEF RepairInv, Changing, SingleFailureRepaired
<1>9. ASSUME pc' = "survey" PROVE Restored'
  BY <1>9 DEF Restored
<1>10. CASE Check
  <2>1. pc' = "delete" /\ page' = "between" /\ UNCHANGED faults /\ pc = "check"
    BY <1>10 DEF Check, Listed
  <2>2. faults = start.faults
    BY <2>1 DEF RepairInv
  <2> QED
    BY <1>7, <1>10, <2>1, <2>2, CheckRepair DEF Unfailed, Forward
<1>11. CASE Delete
  <2>1. /\ pc' \in {"delete", "survey"}
        /\ \/ Unfailed /\ Unfailed' /\ UNCHANGED faults
           \/ Unfailed /\ ~Unfailed' /\ Fault
           \/ Late /\ ~Unfailed' /\ UNCHANGED faults
    BY <1>11 DEF Delete, DeleteFails, FailsAt, Fault, Unfailed, Forward, Changing
  <2> QED
    BY <1>4, <1>5, <1>6, <1>7, <1>8, <1>9, <1>11, <2>1, DeleteRepair, FaultCounts
       DEF Unfailed, Forward, Changing
<1>12. CASE PutBegin
  <2>1. Unfailed /\ Unfailed' /\ UNCHANGED faults
    BY <1>12 DEF PutBegin, BatchInv, Unfailed, Forward
  <2> QED
    BY <1>5, <1>7, <1>12, <2>1, PutBeginRepair
<1>13. CASE Put
  <2>1. pc = "put" /\ pc' \in {"put", "survey"}
    BY <1>13 DEF Put, Record, FailsAt
  <2>2. /\ Values' /\ ForeignStart'
        /\ \/ Unfailed /\ Unfailed' /\ faults' = faults /\ Sent'
           \/ Unfailed /\ ~Unfailed' /\ Fault
           \/ ~Unfailed /\ ~Unfailed' /\ faults' = faults
    BY <1>13, PutRepair
  <2>3. CASE Unfailed /\ Unfailed' /\ faults' = faults /\ Sent'
    BY <1>5, <1>7, <2>2, <2>3
  <2>4. CASE Unfailed /\ ~Unfailed' /\ Fault
    BY <1>5, <1>6, <1>8, <1>9, <2>1, <2>2, <2>4, FaultCounts DEF Unfailed, Forward, Changing
  <2>5. CASE ~Unfailed /\ ~Unfailed' /\ faults' = faults
    BY <1>4, <1>8, <1>9, <2>1, <2>2, <2>5 DEF Forward, Changing
  <2> QED
    BY <2>2, <2>3, <2>4, <2>5
<1>14. CASE PutEnd
  <2>1. /\ pc = "put" /\ pc' = "verify" /\ todo = {} /\ todo' = {} /\ Unfailed /\ Unfailed'
        /\ UNCHANGED <<table, before, after, foreign, attempted, start, faults>>
    BY <1>14 DEF PutEnd, BatchInv, Unfailed, Forward
  <2>2. Sent'
    BY <1>5, <2>1 DEF Sent, Obsolete, Planned, Own, Explicit, table
  <2> QED
    BY <1>5, <1>7, <2>1, <2>2, SameValues
<1>15. CASE VerifyFails
  <2>1. /\ pc = "verify" /\ pc' = "survey" /\ Fault /\ page # "failing"
        /\ UNCHANGED <<table, before, after, foreign, attempted, start>>
    BY <1>15 DEF VerifyFails, BatchInv
  <2> QED
    BY <1>5, <1>6, <1>8, <1>9, <2>1, SameValues, FaultCounts DEF Unfailed, Forward, Changing
<1>16. CASE Survey \/ UndoEnd \/ Resurvey \/ RestoreEnd
  <2>1. /\ Late /\ pc \notin Forward /\ pc' \in Changing \ Forward
        /\ UNCHANGED <<table, before, after, foreign, attempted, start, faults>>
    BY <1>16 DEF Survey, UndoEnd, Resurvey, RestoreEnd, Changing, Forward, Unfailed, Listed
  <2>2. Restored => Restored'
    BY <1>16, SurveyRepair, ResurveyRepair, ReadRepair
  <2> QED
    BY <1>4, <1>8, <2>1, <2>2, SameValues DEF Unfailed
<1>17. CASE Undo \/ Restore
  <2>1. Late /\ pc \notin Forward /\ pc' \in Changing \ Forward /\ page # "failing"
    BY <1>17 DEF Undo, Restore, BatchInv, Changing, Forward, Unfailed
  <2>2. /\ Values' /\ ForeignStart'
        /\ Fault \/ (faults' = faults /\ (Restored => Restored'))
    BY <1>17, UndoRepair, RestoreRepair
  <2>3. CASE Fault
    BY <1>4, <1>6, <1>8, <2>1, <2>2, <2>3, FaultCounts DEF Unfailed
  <2>4. CASE faults' = faults /\ (Restored => Restored')
    BY <1>4, <1>8, <2>1, <2>2, <2>4 DEF Unfailed
  <2> QED
    BY <2>2, <2>3, <2>4
<1>18. ASSUME pc' = "incomplete", faults' + 2 =< start'.faults PROVE RepairInv'
  BY <1>0, <1>18 DEF RepairInv, Unfailed, Forward, Changing, SingleFailureRepaired
<1>19. CASE Confirm
  <2>1. /\ pc' = "incomplete" /\ Late /\ pc \notin Forward /\ faults' = faults
    BY <1>19 DEF Confirm, Listed, Changing, Forward, Unfailed
  <2>2. faults + 1 # start.faults
    BY <1>4, <1>19, <2>1, ConfirmRepair
  <2>3. faults' + 2 =< start'.faults
    BY <1>4, <1>6, <2>1, <2>2
  <2> QED
    BY <1>18, <2>1, <2>3
<1>20. CASE RollbackFails
  <2>1. pc' = "incomplete" /\ Late /\ Fault /\ page # "failing"
    BY <1>20 DEF RollbackFails, BatchInv, Changing, Forward, Unfailed
  <2> QED
    BY <1>4, <1>6, <1>18, <2>1, FaultCounts
<1>21. ~Verify /\ ~CheckFails /\ ~Command /\ ~BootPut
  <2>1. ~Verify
    BY VerifyRepair
  <2> QED
    BY <2>1 DEF CheckFails, Command, BootPut
<1>22. CASE ReadPage \/ UNCHANGED vars
  BY <1>3, <1>22 DEF ReadPage, vars
<1> QED
  BY <1>10, <1>11, <1>12, <1>13, <1>14, <1>15, <1>16, <1>17, <1>19, <1>20, <1>21, <1>22
     DEF Next, Reconcile

-----------------------------------------------------------------------------
LEMMA InitInv == Init => IInv
<1> SUFFICES ASSUME Init PROVE IInv
  OBVIOUS
<1>1. TableTypeOK /\ ListIsExact /\ LinksAreLive
  BY DEF Init, TableInit, TableTypeOK, ListIsExact, LinksAreLive, Installed, Marks
<1>2. TypeInv
  BY <1>1, ObservedType, PlanAssumption DEF Init, TypeInv, Planned
<1>3. /\ BatchInv /\ ForeignInv /\ SeenInv /\ StartInv /\ QuietInv
      /\ StartClosed /\ WaysInv /\ FinalInv
  BY DEF Init, BatchInv, ForeignInv, SeenInv, StartInv, QuietInv, StartClosed, WaysInv, FinalInv,
     OkIsExact, CleanIsBefore, Listing, Over, Unfailed, Forward, Changing
<1>4. RepairInv
  BY PlanAssumption DEF Init, RepairInv, Observed, Changing, Unfailed, Forward, SingleFailureRepaired
<1> QED
  BY <1>1, <1>2, <1>3, <1>4 DEF IInv, TableInv

LEMMA NextInv == IInv /\ [Next]_vars => IInv'
<1> SUFFICES ASSUME IInv, [Next]_vars PROVE IInv'
  OBVIOUS
<1> USE DEF IInv
<1>1. TableInv'
  BY TableStep
<1>2. TypeInv' /\ BatchInv' /\ ForeignInv'
  BY <1>1, TypeStep, BatchStep, ForeignStep
<1>3. SeenInv' /\ StartInv' /\ QuietInv'
  BY <1>1, SeenStep, StartStep, QuietStep
<1>4. StartClosed' /\ WaysInv' /\ FinalInv'
  BY ClosedStep, WaysStep, FinalStep
<1>5. RepairInv'
  BY <1>2, RepairStep DEF Settled
<1> QED
  BY <1>1, <1>2, <1>3, <1>4, <1>5

LEMMA AlwaysInv == Spec => []IInv
  BY InitInv, NextInv, PTL DEF Spec

(* Ok: nobody else wrote, so the new plan is in place and can be reached, and every other
   explicit rule is what and where it was (OkIsExact). *)
THEOREM OkAlwaysExact == Spec => []OkIsExact
<1>1. IInv => OkIsExact
  BY DEF IInv, FinalInv
<1> QED
  BY <1>1, AlwaysInv, PTL

(* "rollback clean" means that the explicit rules are those of the start (CleanIsBefore). *)
THEOREM CleanAlwaysBefore == Spec => []CleanIsBefore
<1>1. IInv => CleanIsBefore
  BY DEF IInv, FinalInv
<1> QED
  BY <1>1, AlwaysInv, PTL

(* A rollback that is incomplete has met a second failure (SingleFailureRepaired). *)
THEOREM SingleFailureAlwaysRepaired == Spec => []SingleFailureRepaired
<1>1. IInv => SingleFailureRepaired
  BY DEF IInv, RepairInv
<1> QED
  BY <1>1, AlwaysInv, PTL

(* No call of reconcile touches a foreign explicit record it has read, whatever the
   command line does meanwhile (ForeignKept). *)
THEOREM ForeignAlwaysKept == Spec => ForeignKept
<1>1. IInv /\ [Next]_vars =>
        [ext' = ext => \A r \in foreign :
           r[2] # Derived /\ rules[r[1]] = r[2] => rules'[r[1]] = r[2]]_vars
  <2> SUFFICES ASSUME IInv, [Next]_vars, ext' = ext, NEW r \in foreign, r[2] # Derived,
                      rules[r[1]] = r[2]
               PROVE  rules'[r[1]] = r[2]
    OBVIOUS
  <2>1. r[1] \in Keys /\ r[2] \in Payloads /\ None \notin Payloads
    BY PayloadAssumption DEF IInv, TypeInv, Records
  <2>2. CASE UNCHANGED table
    BY <2>2 DEF table
  <2>3. ASSUME NEW p \in Touched, OwnCall(p) PROVE rules'[r[1]] = r[2]
    <3>1. p \in Paths /\ p \in Wanted /\ r[1] # Own(p) /\ r[1][1] \notin Anc[p]
      BY TouchedType DEF IInv, ForeignInv
    <3>2. Kept(r[1])
      BY <2>1, <2>3, <3>1, CallKeeps
    <3> QED
      BY <2>1, <3>2, PayloadAssumption DEF Kept
  <2> QED
    BY <2>2, <2>3, StepCalls DEF IInv
<1> QED
  BY <1>1, AlwaysInv, PTL DEF Spec, ForeignKept

-----------------------------------------------------------------------------
(* Reconcile is an exchange of rules *)

(* What reconcile found in place of its own rules was the plan in place. *)
FoundInv ==
  quiet /\ pc \in Changing => \A p \in Planned(before) : start.rules[Own(p)] = before[p]

LEMMA FoundStep ==
  ASSUME IInv, FoundInv, [Next]_vars PROVE FoundInv'
<1> USE DEF Read, Send, End, local, Changing
<1> SUFFICES ASSUME quiet', pc' \in Changing, NEW p \in Planned(before)'
             PROVE  start'.rules[Own(p)] = before'[p]
  BY DEF FoundInv, Own
<1>1. ASSUME UNCHANGED <<start, before, quiet>>, pc \in Changing
      PROVE  start'.rules[Own(p)] = before'[p]
  BY <1>1 DEF FoundInv, Planned
<1>2. CASE Check
  <2>1. /\ UNCHANGED <<start, before, quiet>> /\ Listed("check") /\ Acceptable
    BY <1>2 DEF Check
  <2>2. start.rules = rules
    BY <2>1 DEF IInv, StartInv, Listed
  <2>3. \A r \in seen : rules[r[1]] = r[2]
    BY <2>1, ListedAll DEF IInv, Listing
  <2>4. <<Own(p), before[p]>> \in seen
    BY <2>1 DEF Acceptable, Present, Planned
  <2> QED
    BY <2>1, <2>2, <2>3, <2>4
<1>3. CASE Call
  <2>1. UNCHANGED <<start, before, quiet>> /\ pc \in Changing
    BY <1>3 DEF Call, BootPut, Record, FailsAt, Delete, Put, Undo, Restore
  <2> QED
    BY <1>1, <2>1
<1>4. ~Command /\ ~Begin /\ ~CheckFails /\ ~Confirm /\ ~RollbackFails
  BY DEF Command, Begin, CheckFails, Confirm, RollbackFails
<1>5. ReadPage \/ UNCHANGED vars => UNCHANGED <<start, before, quiet>> /\ pc \in Changing
  BY DEF ReadPage, vars
<1>6. PutBegin \/ PutEnd \/ Verify \/ VerifyFails =>
        UNCHANGED <<start, before, quiet>> /\ pc \in Changing
  BY DEF PutBegin, PutEnd, Verify, VerifyFails, Listed
<1>7. Survey \/ UndoEnd \/ Resurvey \/ RestoreEnd =>
        UNCHANGED <<start, before, quiet>> /\ pc \in Changing
  BY DEF Survey, UndoEnd, Resurvey, RestoreEnd, Listed
<1> QED
  BY <1>1, <1>2, <1>3, <1>4, <1>5, <1>6, <1>7 DEF Next, Reconcile, Call

(* A call of reconcile writes what one of the plans has there, or takes it away. *)
LEMMA CallValue ==
  ASSUME TypeInv, BatchInv, Call, ~BootPut
  PROVE  \E p \in Wanted : /\ UNCHANGED table \/ OwnCall(p)
                           /\ rules'[Own(p)] \in {rules[Own(p)], before[p], after[p], Derived, None}
<1>1. /\ \A p \in Planned(before) : p \in Paths /\ before[p] \in Payloads
      /\ \A p \in Planned(after) : p \in Paths /\ after[p] \in Payloads
  BY PlannedPayload DEF TypeInv
<1>2. Planned(Tried) \subseteq Planned(after)
  BY TouchedType
<1> USE DEF Wanted, TypeInv
<1>3. CASE Delete
  <2>1. PICK p \in Deepest(todo) : Deleted(p) \/ DeleteFails(p)
    BY <1>3 DEF Delete
  <2>2. p \in Planned(before)
    BY <1>3, <2>1 DEF Delete, BatchInv, Deepest, Obsolete
  <2> QED
    BY <1>1, <2>1, <2>2, DeletedIsCall, DeleteFailsIsCall, DeletedValue, DeleteFailsValue
<1>4. CASE Put
  <2>1. PICK p \in Shallowest(todo) : Add(Own(p), after[p]) \/ PutFails(p, after[p])
    BY <1>4 DEF Put, Record
  <2>2. p \in Planned(after)
    BY <1>2, <1>4, <2>1 DEF Put, BatchInv, Shallowest
  <2> QED
    BY <1>1, <2>1, <2>2, PutFailsIsCall, AddValue, PutFailsValue DEF OwnCall
<1>5. CASE Undo
  <2>1. PICK p \in Deepest(todo) : Deleted(p) \/ DeleteFails(p)
    BY <1>5 DEF Undo
  <2>2. p \in Planned(after)
    BY <1>2, <1>5, <2>1 DEF Undo, BatchInv, Deepest
  <2> QED
    BY <1>1, <2>1, <2>2, DeletedIsCall, DeleteFailsIsCall, DeletedValue, DeleteFailsValue
<1>6. CASE Restore
  <2>1. PICK p \in Shallowest(todo) : Add(Own(p), before[p]) \/ PutFails(p, before[p])
    BY <1>6 DEF Restore
  <2>2. p \in Planned(before)
    BY <1>6, <2>1 DEF Restore, BatchInv, Shallowest
  <2> QED
    BY <1>1, <2>1, <2>2, PutFailsIsCall, AddValue, PutFailsValue DEF OwnCall
<1> QED
  BY <1>3, <1>4, <1>5, <1>6 DEF Call

(* The tables of the mapping are tables. *)
LEMMA WrittenType ==
  ASSUME NEW t PROVE Written(t) \in Contract!Tables
  BY DEF Written, Contract!Tables

LEMMA WishType ==
  ASSUME NEW plan \in Plans PROVE Wish(plan) \in Contract!Tables
<1>1. \A k \in Keys : k[1] \in Paths
  BY DEF Keys
<1> QED
  BY <1>1, PlanAssumption DEF Wish, Contract!Tables

LEMMA WishOwn ==
  ASSUME NEW plan, NEW p \in Paths PROVE Wish(plan)[Own(p)] = plan[p]
  BY OwnKey DEF Wish

(* The keys the plans name are those of their paths. *)
LEMMA ConcernedKeys == TypeInv => Contract!Concerned = OwnedKeys
<1> SUFFICES ASSUME TypeInv PROVE Contract!Concerned = OwnedKeys
  OBVIOUS
<1>1. ASSUME NEW k \in Contract!Concerned PROVE k \in OwnedKeys
  <2>1. /\ k \in Keys /\ k[1] \in Paths /\ k[2] = Global /\ k = Own(k[1])
        /\ before[k[1]] # None \/ after[k[1]] # None
    BY DEF Contract!Concerned, Wish, Keys, Own
  <2> QED
    BY <2>1 DEF OwnedKeys, Planned
<1>2. ASSUME NEW p \in Planned(before) \cup Planned(after) PROVE Own(p) \in Contract!Concerned
  <2>1. p \in Paths /\ (before[p] # None \/ after[p] # None)
    BY DEF Planned
  <2> QED
    BY <2>1, OwnKey, WishOwn DEF Contract!Concerned
<1> QED
  BY <1>1, <1>2 DEF OwnedKeys

(* A refusal comes before the first call. *)
LEMMA RefusedSteps ==
  ASSUME TypeInv, [Next]_vars, pc \notin Over, pc' = "refused" PROVE pc = "check"
<1> USE DEF Read, Send, End, Over
<1>1. ~Call /\ ~Begin /\ ~ReadPage /\ ~PutBegin
  BY DEF Call, BootPut, Record, FailsAt, Delete, Put, Undo, Restore, Begin, ReadPage, PutBegin,
     Listing
<1>2. ~PutEnd /\ ~Verify /\ ~VerifyFails /\ ~Survey /\ ~UndoEnd
  BY DEF PutEnd, Verify, VerifyFails, Survey, UndoEnd
<1>3. ~Resurvey /\ ~RestoreEnd /\ ~Confirm /\ ~RollbackFails /\ ~Command
  BY DEF Resurvey, RestoreEnd, Confirm, RollbackFails, Command
<1>4. ~UNCHANGED vars
  BY DEF vars
<1>5. Check \/ CheckFails => pc = "check"
  BY DEF Check, CheckFails, Listed
<1> QED
  BY <1>1, <1>2, <1>3, <1>4, <1>5 DEF Next, Reconcile, Call

(* A call changes rules of the plans alone, as long as nobody else writes; after that anything
   may come. *)
LEMMA CallExchanges ==
  ASSUME IInv, Call, ~BootPut PROVE Contract!Exchange \/ Contract!Others
<1> USE DEF IInv
<1>1. PICK p \in Wanted :
        /\ UNCHANGED table \/ OwnCall(p)
        /\ rules'[Own(p)] \in {rules[Own(p)], before[p], after[p], Derived, None}
  BY CallValue
<1>2. /\ pc \in Sending \ {"boot"} /\ pc' \notin Over \cup {"boot"}
      /\ UNCHANGED <<before, after, start, quiet>>
  BY DEF Call, BootPut, Record, FailsAt, Delete, Put, Undo, Restore, Read, Send, local, Sending, Over
<1>3. p \in Paths /\ Own(p) \in OwnedKeys /\ Own(p) \in Keys
  BY OwnKey DEF Wanted, OwnedKeys, Planned
<1> DEFINE o == Own(p)
<1>4. Derived \notin Payloads /\ None \notin Payloads
  BY PayloadAssumption
<1>5. /\ (IF pc = "boot" THEN "idle" ELSE IF pc \in Over THEN pc ELSE "running") = "running"
      /\ (IF pc = "boot" THEN "idle" ELSE IF pc \in Over THEN pc ELSE "running")' = "running"
      /\ (quiet \/ pc = "boot")' = (quiet \/ pc = "boot")
  BY <1>2 DEF Sending, Over
<1>6. UNCHANGED <<Wish(before), Wish(after), Written(start.rules)>>
  BY <1>2 DEF Wish, Written
<1>7. Written(rules)' \in Contract!Tables
  BY WrittenType
<1>8. CASE ~quiet
  <2>1. (quiet \/ pc = "boot")' = FALSE
    BY <1>2, <1>8
  <2> QED
    BY <1>5, <1>6, <1>7, <2>1 DEF Contract!Others
<1>9. CASE quiet
  <2>1. Frame /\ Apart
    BY <1>2, <1>9 DEF QuietInv, Sending, Changing
  <2>2. ASSUME NEW k \in Keys, Written(rules)'[k] # Written(rules)[k]
        PROVE  /\ k \in Contract!Concerned
               /\ Written(rules)'[k] \in {None, Wish(before)[k], Wish(after)[k]}
    <3>1. CASE k = o
      <4>1. Wish(before)[o] = before[p] /\ Wish(after)[o] = after[p]
        BY <1>3, WishOwn
      <4>2. Written(rules)'[o] \in {Written(rules)[o], None, before[p], after[p]}
        BY <1>1, <1>3, <1>4 DEF Written
      <4> QED
        BY <1>3, <2>2, <3>1, <4>1, <4>2, ConcernedKeys
    <3>2. CASE k # o
      <4>1. ~Kept(k)
        BY <1>4, <2>2 DEF Kept, Written
      <4>2. k[1] \in Anc[p] /\ Explicit(k) /\ rules'[k] = None
        BY <1>1, <1>3, <3>2, <4>1, CallKeeps DEF table, Kept
      <4>3. k \in {Own(q) : q \in Touched}
        BY <2>1, <4>2, ApartAbove
      <4>4. k \in OwnedKeys
        BY <4>3, TouchedType DEF OwnedKeys, Wanted
      <4>5. Written(rules)'[k] = None
        BY <1>4, <4>2 DEF Written
      <4> QED
        BY <4>4, <4>5, ConcernedKeys
    <3> QED
      BY <3>1, <3>2
  <2> QED
    BY <1>5, <1>6, <1>7, <2>2 DEF Contract!Exchange
<1> QED
  BY <1>8, <1>9

(* Before it begins and from others anything may come. *)
LEMMA OthersWrite ==
  ASSUME IInv, IInv', BootPut \/ Command PROVE Contract!Others
<1>1. Written(rules)' \in Contract!Tables
  BY WrittenType
<1>2. pc' = pc /\ pc \notin Over /\ UNCHANGED <<before, after, start>>
  BY DEF BootPut, Record, FailsAt, Read, Send, Command, local, Over
<1>3. UNCHANGED <<Wish(before), Wish(after), Written(start.rules)>>
  BY <1>2 DEF Wish, Written
<1>4. (quiet \/ pc = "boot")' = (pc = "boot")
  BY <1>2 DEF BootPut, Command
<1> QED
  BY <1>1, <1>2, <1>3, <1>4 DEF Contract!Others, Over

(* The table does not depend on how the steps that read it go on. *)
LEMMA ReadStutters ==
  ASSUME UNCHANGED <<table, before, after, start, quiet>>,
         pc \notin Over \cup {"boot"}, pc' \notin Over \cup {"boot"}
  PROVE  UNCHANGED Contract!vars
<1>1. UNCHANGED <<Wish(before), Wish(after), Written(start.rules), Written(rules)>>
  BY DEF Wish, Written, table
<1> QED
  BY <1>1 DEF Contract!vars

LEMMA BeginMaps ==
  ASSUME IInv, Begin PROVE Contract!Begin
<1>1. /\ pc = "boot" /\ pc' = "check" /\ UNCHANGED <<rules, before, after>> /\ quiet' = TRUE
      /\ start'.rules = rules
  BY DEF Begin, Read, Send, table, Observed
<1>2. UNCHANGED <<Wish(before), Wish(after), Written(rules)>>
  BY <1>1 DEF Wish, Written
<1>3. Written(start.rules)' = Written(rules)
  BY <1>1 DEF Written
<1> QED
  BY <1>1, <1>2, <1>3 DEF Contract!Begin, Over

(* It returns what is so. *)
LEMMA ReturnMaps ==
  ASSUME UNCHANGED <<table, before, after, start, quiet>>,
         pc \notin Over \cup {"boot"}, pc' \in Over,
         pc' = "ok" /\ quiet => Written(rules) = Contract!Exchanged,
         pc' \in {"refused", "clean"} /\ quiet => Written(rules) = Written(start.rules)
  PROVE  Contract!Finish
<1>1. UNCHANGED <<Wish(before), Wish(after), Written(start.rules), Written(rules)>>
  BY DEF Wish, Written, table
<1>2. pc' \in {"refused", "ok", "clean", "incomplete"}
  BY DEF Over
<1> QED
  BY <1>1, <1>2 DEF Contract!Finish, Over

LEMMA ExactlyWritten ==
  ASSUME TypeInv, Exactly(after) PROVE Written(rules) = Contract!Exchanged
<1>1. Contract!Concerned = OwnedKeys /\ None \notin Payloads /\ Derived \notin Payloads
  BY ConcernedKeys, PayloadAssumption
<1>2. \A p \in Paths : after[p] \in Payloads \cup {None}
  BY PlanAssumption DEF TypeInv
<1>3. ASSUME NEW k \in Keys PROVE Written(rules)[k] = Contract!Exchanged[k]
  <2> DEFINE want == IF k \in OwnedKeys THEN after[k[1]] ELSE start.rules[k]
  <2>1. Explicit(k) \/ want \in Payloads => rules[k] = want
    BY DEF Exactly
  <2>2. Written(rules)[k] = IF want \in Payloads THEN want ELSE None
    BY <2>1 DEF Written, Explicit
  <2>3. CASE k \in OwnedKeys
    <3>1. PICK p \in Paths : k = Own(p)
      BY <2>3 DEF OwnedKeys, Planned
    <3>2. k[1] = p /\ Wish(after)[k] = after[p]
      BY <3>1, OwnKey, WishOwn
    <3> QED
      BY <1>1, <1>2, <2>2, <2>3, <3>2 DEF Contract!Exchanged
  <2>4. CASE k \notin OwnedKeys
    BY <1>1, <2>2, <2>4 DEF Contract!Exchanged, Written
  <2> QED
    BY <2>3, <2>4
<1> QED
  BY <1>3 DEF Written, Contract!Exchanged

LEMMA BeforeWritten ==
  ASSUME TypeInv, Exactly(before), Apart,
         \A p \in Planned(before) : start.rules[Own(p)] = before[p]
  PROVE  Written(rules) = Written(start.rules)
<1>1. None \notin Payloads /\ Derived \notin Payloads
  BY PayloadAssumption
<1>2. ASSUME NEW k \in Keys PROVE Written(rules)[k] = Written(start.rules)[k]
  <2> DEFINE want == IF k \in OwnedKeys THEN before[k[1]] ELSE start.rules[k]
  <2>1. Explicit(k) \/ want \in Payloads => rules[k] = want
    BY DEF Exactly
  <2>2. Written(rules)[k] = IF want \in Payloads THEN want ELSE None
    BY <2>1 DEF Written, Explicit
  <2>3. ASSUME NEW p \in Planned(before), k = Own(p) PROVE want = start.rules[k]
    BY <2>3, OwnKey DEF OwnedKeys, Planned
  <2>4. ASSUME NEW p \in Planned(after), k = Own(p), p \notin Planned(before)
        PROVE  want \notin Payloads /\ start.rules[k] \notin Payloads
    <3>1. p \in Paths /\ k[1] = p /\ before[p] = None
      BY <2>4, OwnKey DEF Planned
    <3>2. want = None
      BY <2>4, <3>1 DEF OwnedKeys
    <3>3. k \notin {Own(q) : q \in Planned(before)}
      BY <2>4, OwnKey DEF Planned
    <3>4. start.rules[k] \notin Payloads
      BY <2>4, <3>1, <3>3 DEF Apart, Wanted
    <3> QED
      BY <1>1, <3>2, <3>4
  <2>5. CASE k \notin OwnedKeys
    BY <2>2, <2>5 DEF Written
  <2> QED
    BY <2>2, <2>3, <2>4, <2>5 DEF Written, OwnedKeys
<1> QED
  BY <1>2 DEF Written

LEMMA ExchangeStep ==
  ASSUME IInv, IInv', FoundInv, [Next]_vars
  PROVE  [Contract!Next]_(Contract!vars)
<1> USE DEF Contract!Next
<1>1. CASE UNCHANGED vars
  <2>1. /\ UNCHANGED <<Wish(before), Wish(after), Written(start.rules), Written(rules)>>
        /\ UNCHANGED <<pc, quiet>>
    BY <1>1 DEF Wish, Written, vars, local, table
  <2> QED
    BY <2>1 DEF Contract!vars
<1>2. CASE Call \/ Command
  BY <1>2, CallExchanges, OthersWrite
<1>3. CASE Begin
  BY <1>3, BeginMaps
<1>4. CASE pc \in Over
  BY <1>1, <1>4, OverStays
<1> DEFINE Reads == UNCHANGED <<table, before, after, start, quiet>> /\ pc # "boot" /\ pc' # "boot"
<1>5. ReadPage \/ PutBegin \/ PutEnd \/ Verify \/ VerifyFails => Reads
  BY DEF ReadPage, PutBegin, PutEnd, Verify, VerifyFails, Read, Send, End, Listed, Listing, local
<1>6. Survey \/ UndoEnd \/ Resurvey \/ RestoreEnd => Reads
  BY DEF Survey, UndoEnd, Resurvey, RestoreEnd, Read, Send, Listed, local
<1>7. Check \/ CheckFails \/ Confirm \/ RollbackFails => Reads
  BY DEF Check, CheckFails, Confirm, RollbackFails, Send, End, Listed, local
<1>8. ASSUME Reads, pc \notin Over, ~UNCHANGED vars PROVE [Contract!Next]_(Contract!vars)
  <2>1. CASE pc' \notin Over
    BY <1>8, <2>1, ReadStutters
  <2>2. CASE pc' \in Over
    <3>1. ASSUME pc' = "ok", quiet PROVE Written(rules) = Contract!Exchanged
      <4>1. OkIsExact'
        BY DEF IInv, FinalInv
      <4>2. Exactly(after)'
        BY <1>8, <3>1, <4>1 DEF OkIsExact
      <4> QED
        BY <1>8, <4>2, OutcomeFrame, ExactlyWritten DEF IInv
    <3>2. ASSUME pc' = "refused", quiet PROVE Written(rules) = Written(start.rules)
      <4>1. pc = "check"
        BY <1>8, <3>2, RefusedSteps DEF IInv
      <4> QED
        BY <3>2, <4>1 DEF IInv, StartInv
    <3>3. ASSUME pc' = "clean", quiet PROVE Written(rules) = Written(start.rules)
      <4>1. Confirm
        BY <1>8, <3>3, OutcomeSteps DEF IInv
      <4>2. pc = "confirm" /\ Apart /\ \A p \in Planned(before) : start.rules[Own(p)] = before[p]
        BY <3>3, <4>1 DEF Confirm, Listed, IInv, QuietInv, FoundInv, Changing
      <4>3. CleanIsBefore'
        BY DEF IInv, FinalInv
      <4>4. Exactly(before)'
        BY <1>8, <3>3, <4>3 DEF CleanIsBefore
      <4> QED
        BY <1>8, <4>2, <4>4, OutcomeFrame, BeforeWritten DEF IInv
    <3> QED
      BY <1>8, <2>2, <3>1, <3>2, <3>3, ReturnMaps
  <2> QED
    BY <2>1, <2>2
<1> QED
  BY <1>1, <1>2, <1>3, <1>4, <1>5, <1>6, <1>7, <1>8 DEF Next, Reconcile, Call

(* The mapping starts where the abstract one does. *)
LEMMA ExchangeInit == Init => Contract!Init /\ FoundInv
<1> SUFFICES ASSUME Init PROVE Contract!Init /\ FoundInv
  OBVIOUS
<1>1. pc = "boot" /\ start.rules = rules /\ before \in Plans /\ after \in Plans
  BY DEF Init, Observed
<1>2. Contract!Init
  BY <1>1, WrittenType, WishType DEF Contract!Init
<1> QED
  BY <1>1, <1>2 DEF FoundInv, Changing

(* Whatever the calls answer, reconcile is an exchange of the rules of two plans: until others
   write it touches no other rule, and what it returns is so (ReconcileIsExchange). *)
THEOREM ReconcileImplements == Spec => ReconcileIsExchange
<1>1. Init => IInv /\ FoundInv /\ Contract!Init
  BY InitInv, ExchangeInit
<1>2. IInv /\ FoundInv /\ [Next]_vars =>
        IInv' /\ FoundInv' /\ [Contract!Next]_(Contract!vars)
  BY NextInv, FoundStep, ExchangeStep
<1> QED
  BY <1>1, <1>2, PTL DEF Spec, ReconcileIsExchange, Contract!Spec
=============================================================================
