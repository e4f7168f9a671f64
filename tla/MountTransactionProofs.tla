----------------------- MODULE MountTransactionProofs -----------------------
(***************************************************************************)
(* For every set of targets and layers and any number of failing calls: the *)
(* types; that whatever fails, an effect whose cleanup was registered is    *)
(* gone or its own cleanup reported an error, and "clean" is recorded only  *)
(* when all are gone; that a commit keeps every mount over intact layers;   *)
(* that no content is deleted through a mount that could come off; and that *)
(* a rollback takes the targets off before what they were mounted from.     *)
(***************************************************************************)
EXTENDS MountTransaction, TLAPS

(* What the three sequence operations of the journal do to its elements. *)
LEMMA PushRange ==
  ASSUME NEW S, NEW s \in Seq(S), NEW r \in S
  PROVE  /\ <<r>> \o s \in Seq(S)
         /\ Range(<<r>> \o s) = {r} \cup Range(s)
<1> DEFINE t == <<r>> \o s
<1>1. t \in Seq(S) /\ Len(t) = Len(s) + 1 /\ DOMAIN t = 1..Len(t)
  OBVIOUS
<1>2. t[1] = r /\ \A i \in 1..Len(s) : t[i + 1] = s[i]
  OBVIOUS
<1> HIDE DEF t
<1>3. ASSUME NEW x \in Range(t) PROVE x \in {r} \cup Range(s)
  <2>1. PICK i \in 1..Len(t) : x = t[i]
    BY <1>1 DEF Range
  <2>2. CASE i = 1
    BY <2>1, <2>2, <1>2
  <2>3. CASE i # 1
    <3>1. i - 1 \in 1..Len(s) /\ t[(i - 1) + 1] = s[i - 1]
      BY <1>1, <1>2, <2>3
    <3> QED
      BY <2>1, <3>1 DEF Range
  <2> QED
    BY <2>2, <2>3
<1>4. ASSUME NEW x \in {r} \cup Range(s) PROVE x \in Range(t)
  <2>1. CASE x = r
    BY <2>1, <1>1, <1>2 DEF Range
  <2>2. CASE x \in Range(s)
    <3>1. PICK i \in 1..Len(s) : x = s[i]
      BY <2>2 DEF Range
    <3>2. i + 1 \in 1..Len(t) /\ t[i + 1] = x
      BY <1>1, <1>2, <3>1
    <3> QED
      BY <3>2, <1>1 DEF Range
  <2> QED
    BY <2>1, <2>2
<1> QED
  BY <1>1, <1>3, <1>4 DEF t

LEMMA PopRange ==
  ASSUME NEW S, NEW s \in Seq(S), s # <<>>
  PROVE  /\ Head(s) \in S /\ Tail(s) \in Seq(S)
         /\ Range(s) = {Head(s)} \cup Range(Tail(s))
<1> DEFINE t == Tail(s)
<1>1. /\ Head(s) = s[1] /\ Head(s) \in S
      /\ Len(s) \in Nat \ {0} /\ DOMAIN s = 1..Len(s)
  OBVIOUS
<1>2. /\ t \in Seq(S) /\ Len(t) = Len(s) - 1 /\ DOMAIN t = 1..Len(t)
      /\ \A i \in 1..(Len(s) - 1) : t[i] = s[i + 1]
  OBVIOUS
<1> HIDE DEF t
<1>3. ASSUME NEW x \in Range(s) PROVE x \in {Head(s)} \cup Range(t)
  <2>1. PICK i \in 1..Len(s) : x = s[i]
    BY <1>1 DEF Range
  <2>2. CASE i = 1
    BY <2>1, <2>2, <1>1
  <2>3. CASE i # 1
    <3>1. i - 1 \in DOMAIN t /\ (i - 1) + 1 = i
      BY <1>1, <1>2, <2>3
    <3>2. t[i - 1] = x
      BY <1>1, <1>2, <2>1, <3>1
    <3> QED
      BY <3>1, <3>2 DEF Range
  <2> QED
    BY <2>2, <2>3
<1>4. ASSUME NEW x \in {Head(s)} \cup Range(t) PROVE x \in Range(s)
  <2>1. CASE x = Head(s)
    BY <2>1, <1>1 DEF Range
  <2>2. CASE x \in Range(t)
    <3>1. PICK i \in 1..Len(t) : x = t[i]
      BY <2>2, <1>2 DEF Range
    <3>2. i + 1 \in DOMAIN s /\ s[i + 1] = x
      BY <1>1, <1>2, <3>1
    <3> QED
      BY <3>2 DEF Range
  <2> QED
    BY <2>1, <2>2
<1> QED
  BY <1>1, <1>2, <1>3, <1>4 DEF t

LEMMA AppendRange ==
  ASSUME NEW S, NEW s \in Seq(S), NEW r \in S
  PROVE  /\ Append(s, r) \in Seq(S)
         /\ Range(Append(s, r)) = {r} \cup Range(s)
<1> DEFINE t == Append(s, r)
<1>1. t \in Seq(S) /\ Len(t) = Len(s) + 1 /\ t[Len(s) + 1] = r
  OBVIOUS
<1>2. \A i \in 1..Len(s) : t[i] = s[i]
  OBVIOUS
<1>3. ASSUME NEW x \in Range(t) PROVE x \in {r} \cup Range(s)
  <2>1. PICK i \in 1..Len(t) : x = t[i]
    BY <1>1 DEF Range
  <2>2. CASE i = Len(s) + 1
    BY <2>1, <2>2, <1>1
  <2>3. CASE i # Len(s) + 1
    BY <2>1, <2>3, <1>1, <1>2 DEF Range
  <2> QED
    BY <2>2, <2>3
<1>4. ASSUME NEW x \in {r} \cup Range(s) PROVE x \in Range(t)
  BY <1>1, <1>2 DEF Range
<1> QED
  BY <1>1, <1>3, <1>4

-----------------------------------------------------------------------------
(* The invariant of the journal: until a commit gives the effects away, whatever is
   registered and in place still has its action to come, or its action failed. *)
Journaled ==
  /\ pc # "committed" =>
       live \cap registered \subseteq Range(journal) \cup Range(deferred) \cup failed
  /\ pc \in Mounting => registered \subseteq Range(journal)
  /\ pc \notin {"commit", "undo"} => deferred = <<>>
  /\ pc \in {"undo", "committed", "aborted", "dropped"} => journal = <<>>

Inv == TypeOK /\ "ksu" \in registered /\ Journaled

LEMMA FaultsType ==
  ASSUME faults \in 0..MaxFaults, NEW n \in {1, 2}, Faults(n)
  PROVE  faults' \in 0..MaxFaults
BY TransactionAssumption DEF Faults

(* Making and registering one effect keeps the invariant. *)
LEMMA MakeKeeps ==
  ASSUME Inv, NEW r \in Resources, NEW next \in Mounting \cup {"rollback"}, Make(r, next),
         pc \in Mounting, known' \subseteq Targets, faults' \in 0..MaxFaults
  PROVE  Inv'
<1>1. journal' \in Seq(Resources) /\ Range(journal') = {r} \cup Range(journal)
  BY PushRange DEF Inv, TypeOK, Make, Register
<1>2. live' = live \cup {r} /\ registered' = registered \cup {r} /\ pc' = next
  BY DEF Make, Register, Goto
<1>3. UNCHANGED <<conf, deferred, emptied, failed, status>>
  BY DEF Make
<1>4. TypeOK'
  BY <1>1, <1>2, <1>3 DEF Inv, TypeOK, Pcs
<1>5. Journaled'
  BY <1>1, <1>2, <1>3 DEF Inv, Journaled, Mounting
<1> QED
  BY <1>2, <1>4, <1>5 DEF Inv

(* So does a phase that fails, whatever it leaves unregistered. *)
LEMMA AbandonKeeps ==
  ASSUME Inv, NEW left \in SUBSET Resources, Abandon(left),
         pc \in Mounting, faults' \in 0..MaxFaults
  PROVE  Inv'
<1>1. live' = live \cup left /\ pc' = "rollback"
  BY DEF Abandon, Goto
<1>2. UNCHANGED <<conf, journal, registered, deferred, emptied, known, failed, status>>
  BY DEF Abandon
<1>3. TypeOK'
  BY <1>1, <1>2 DEF Inv, TypeOK, Pcs
<1>4. Journaled'
  BY <1>1, <1>2 DEF Inv, Journaled, Mounting
<1> QED
  BY <1>2, <1>3, <1>4 DEF Inv

(* And one that does nothing. *)
LEMMA SkipKeeps ==
  ASSUME Inv, NEW next \in Mounting, Skip(next), pc \in Mounting
  PROVE  Inv'
<1>1. TypeOK'
  BY DEF Inv, TypeOK, Skip, Goto, Pcs
<1>2. Journaled'
  BY DEF Inv, Journaled, Skip, Goto, Mounting
<1> QED
  BY <1>1, <1>2 DEF Inv, Skip

(* Every step of the mount phases keeps the invariant. *)
LEMMA MountKeeps == Inv /\ Mount => Inv'
<1> SUFFICES ASSUME Inv, Mount PROVE Inv'
  OBVIOUS
<1>0. faults \in 0..MaxFaults /\ known \subseteq Targets
  BY DEF Inv, TypeOK
<1>a. Named \subseteq Resources /\ Targets \subseteq Resources /\ Layers \subseteq Resources
  BY DEF Resources
<1> USE DEF Mounting
<1>1. CASE CreateTemp
  BY <1>0, <1>a, <1>1, MakeKeeps, AbandonKeeps, SkipKeeps, FaultsType DEF CreateTemp, Named
<1>2. CASE SetupStorage
  BY <1>0, <1>a, <1>2, MakeKeeps, AbandonKeeps, SkipKeeps, FaultsType DEF SetupStorage, Named
<1>3. CASE MountStaging
  BY <1>0, <1>a, <1>3, MakeKeeps, AbandonKeeps, SkipKeeps, FaultsType DEF MountStaging, Named
<1>4. ASSUME NEW l \in Layers, MountLayer(l) PROVE Inv'
  BY <1>0, <1>a, <1>4, MakeKeeps DEF MountLayer
<1>5. ASSUME NEW t \in Overlays, MountOverlay(t) PROVE Inv'
  BY <1>0, <1>a, <1>5, MakeKeeps DEF MountOverlay, Targets
<1>6. ASSUME NEW t \in Binds, MountBind(t) PROVE Inv'
  BY <1>0, <1>a, <1>6, MakeKeeps DEF MountBind, Targets
<1>7. ASSUME NEW t \in Binds, BindFail(t) PROVE Inv'
  BY <1>0, <1>a, <1>7, AbandonKeeps, FaultsType DEF BindFail, Targets
<1>8. CASE MountNext
  BY <1>8, SkipKeeps DEF MountNext
<1>9. CASE MountFail
  BY <1>0, <1>9, AbandonKeeps, FaultsType DEF MountFail
<1>10. CASE ApplyVfs
  <2>1. CASE Register("vfs") /\ UNCHANGED live /\ Faults(1) /\ pc = "vfs"
             /\ pc' \in {"ksu", "rollback"}
             /\ UNCHANGED <<conf, deferred, live, emptied, known, failed, status>>
    <3>1. "vfs" \in Resources /\ faults' \in 0..MaxFaults
      BY <1>0, <1>a, <2>1, FaultsType DEF Named
    <3>2. journal' \in Seq(Resources) /\ Range(journal') = {"vfs"} \cup Range(journal)
      BY <2>1, <3>1, PushRange DEF Inv, TypeOK, Register
    <3>3. registered' = registered \cup {"vfs"}
      BY <2>1 DEF Register
    <3>4. TypeOK'
      BY <2>1, <3>1, <3>2, <3>3 DEF Inv, TypeOK, Pcs
    <3>5. Journaled'
      BY <2>1, <3>2, <3>3 DEF Inv, Journaled
    <3> QED
      BY <3>3, <3>4, <3>5 DEF Inv
  <2> QED
    BY <1>0, <1>a, <1>10, <2>1, MakeKeeps, SkipKeeps, FaultsType DEF ApplyVfs, Named
<1>11. CASE CommitKsu
  <2>1. CASE live' = live \cup {"ksu"} /\ Goto("record") /\ pc = "ksu"
             /\ UNCHANGED <<conf, journal, registered, deferred, emptied, known, failed, status, faults>>
    <3>1. TypeOK'
      BY <1>a, <2>1 DEF Inv, TypeOK, Pcs, Goto, Named
    <3>2. Journaled'
      BY <2>1 DEF Inv, Journaled, Goto
    <3> QED
      BY <2>1, <3>1, <3>2 DEF Inv
  <2> QED
    BY <1>0, <1>a, <1>11, <2>1, AbandonKeeps, SkipKeeps, FaultsType DEF CommitKsu, Named
<1>12. CASE Record
  <2>1. TypeOK'
    BY <1>12, FaultsType DEF Inv, TypeOK, Record, Goto, Pcs, Statuses
  <2>2. Journaled'
    BY <1>12 DEF Inv, Journaled, Record, Goto
  <2> QED
    BY <1>12, <2>1, <2>2 DEF Inv, Record
<1>13. CASE Panic
  <2>1. TypeOK'
    BY <1>13, FaultsType DEF Inv, TypeOK, Panic, Goto, Pcs
  <2>2. Journaled'
    BY <1>13 DEF Inv, Journaled, Panic, Goto
  <2> QED
    BY <1>13, <2>1, <2>2 DEF Inv, Panic
<1> QED
  BY <1>1, <1>2, <1>3, <1>4, <1>5, <1>6, <1>7, <1>8, <1>9, <1>10, <1>11, <1>12, <1>13 DEF Mount

-----------------------------------------------------------------------------
(* One action: nothing new comes into place, and its own effect stays only with
   an error. *)
LEMMA RunEffect ==
  ASSUME TypeOK, NEW r \in Resources, RunAction(r)
  PROVE  /\ live' \subseteq live /\ failed \subseteq failed'
         /\ live' \cap {r} \subseteq failed'
         /\ failed' \subseteq Resources /\ emptied' \subseteq Resources
         /\ faults' \in 0..MaxFaults
<1> USE DEF TypeOK
<1>1. CASE Succeeds(r)
  BY <1>1 DEF Succeeds
<1>2. CASE Fails(r)
  BY <1>2, FaultsType DEF Fails
<1>3. CASE EntersMounts(r)
  BY <1>3 DEF EntersMounts
<1>4. CASE DropEmpties(r)
  BY <1>4, FaultsType DEF DropEmpties
<1> QED
  BY <1>1, <1>2, <1>3, <1>4 DEF RunAction

(* Every step of the commit, the rollback and the drop keeps the invariant. *)
LEMMA FinishKeeps == Inv /\ Finish => Inv'
<1> SUFFICES ASSUME Inv, Finish PROVE Inv'
  OBVIOUS
<1>1. CASE CommitStep
  <2> DEFINE r == Head(journal)
  <2>1. /\ r \in Resources /\ journal' \in Seq(Resources)
        /\ Range(journal) = {r} \cup Range(journal')
    BY <1>1, PopRange DEF CommitStep, Inv, TypeOK
  <2>2. pc = "commit" /\ UNCHANGED <<conf, pc, known, status, registered>>
    BY <1>1 DEF CommitStep
  <2>3. CASE deferred' = Append(deferred, r) /\ UNCHANGED <<live, emptied, failed, faults>>
    <3>1. deferred' \in Seq(Resources) /\ Range(deferred') = {r} \cup Range(deferred)
      BY <2>1, <2>3, AppendRange DEF Inv, TypeOK
    <3>2. TypeOK'
      BY <2>1, <2>2, <2>3, <3>1 DEF Inv, TypeOK
    <3>3. Journaled'
      BY <2>1, <2>2, <2>3, <3>1 DEF Inv, Journaled, Mounting
    <3> QED
      BY <2>2, <3>2, <3>3 DEF Inv
  <2>4. CASE RunAction(r) /\ UNCHANGED deferred
    <3>1. TypeOK'
      BY <2>1, <2>2, <2>4, RunEffect DEF Inv, TypeOK
    <3>2. Journaled'
      BY <2>1, <2>2, <2>4, RunEffect DEF Inv, Journaled, Mounting
    <3> QED
      BY <2>2, <3>1, <3>2 DEF Inv
  <2> QED
    BY <1>1, <2>3, <2>4 DEF CommitStep
<1>2. CASE CommitDone
  <2>1. TypeOK'
    BY <1>2, FaultsType DEF CommitDone, Inv, TypeOK, Goto, Pcs, Statuses
  <2>2. Journaled'
    BY <1>2 DEF CommitDone, Inv, Journaled, Goto, Mounting
  <2> QED
    BY <1>2, <2>1, <2>2 DEF CommitDone, Inv
<1>3. CASE CommitFailed
  BY <1>3 DEF CommitFailed, Inv, TypeOK, Journaled, Goto, Pcs, Mounting
<1>4. CASE UndoStep
  <2> DEFINE r == Head(deferred)
  <2>1. /\ r \in Resources /\ deferred' \in Seq(Resources)
        /\ Range(deferred) = {r} \cup Range(deferred')
    BY <1>4, PopRange DEF UndoStep, Inv, TypeOK
  <2>2. pc = "undo" /\ UNCHANGED <<conf, pc, journal, known, status, registered>> /\ RunAction(r)
    BY <1>4 DEF UndoStep
  <2>3. TypeOK'
    BY <2>1, <2>2, RunEffect DEF Inv, TypeOK
  <2>4. Journaled'
    BY <2>1, <2>2, RunEffect DEF Inv, Journaled, Mounting
  <2> QED
    BY <2>2, <2>3, <2>4 DEF Inv
<1>5. CASE RollbackStep
  <2> DEFINE r == Head(journal)
  <2>1. /\ r \in Resources /\ journal' \in Seq(Resources)
        /\ Range(journal) = {r} \cup Range(journal')
    BY <1>5, PopRange DEF RollbackStep, Inv, TypeOK
  <2>2. /\ pc \in {"rollback", "drop"} /\ RunAction(r)
        /\ UNCHANGED <<conf, pc, deferred, known, status, registered>>
    BY <1>5 DEF RollbackStep
  <2>3. TypeOK'
    BY <2>1, <2>2, RunEffect DEF Inv, TypeOK
  <2>4. Journaled'
    BY <2>1, <2>2, RunEffect DEF Inv, Journaled, Mounting
  <2> QED
    BY <2>2, <2>3, <2>4 DEF Inv
<1>6. CASE Verify
  <2>1. TypeOK'
    BY <1>6, FaultsType DEF Verify, Verdict, Inv, TypeOK, Goto, Pcs, Statuses
  <2>2. Journaled'
    BY <1>6 DEF Verify, Inv, Journaled, Goto, Mounting
  <2> QED
    BY <1>6, <2>1, <2>2 DEF Verify, Inv
<1>7. CASE Dropped
  BY <1>7 DEF Dropped, Inv, TypeOK, Journaled, Goto, Pcs, Mounting
<1> QED
  BY <1>1, <1>2, <1>3, <1>4, <1>5, <1>6, <1>7 DEF Finish

LEMMA InitInv == Init => Inv
<1> SUFFICES ASSUME Init PROVE Inv
  OBVIOUS
<1>1. journal \in Seq(Resources) /\ Range(journal) = {"ksu"}
  BY DEF Init, Resources, Named, Range
<1>2. TypeOK
  BY <1>1, TransactionAssumption DEF Init, TypeOK, Pcs, Mounting, Statuses, Resources, Named
<1>3. Journaled
  BY <1>1 DEF Init, Journaled, Mounting
<1> QED
  BY <1>2, <1>3 DEF Inv, Init

THEOREM InvAlways == Spec => []Inv
<1>1. Inv /\ [Next]_vars => Inv'
  <2> SUFFICES ASSUME Inv, [Next]_vars PROVE Inv'
    OBVIOUS
  <2>1. CASE UNCHANGED vars
    BY <2>1 DEF vars, Inv, TypeOK, Journaled
  <2> QED
    BY <2>1, MountKeeps, FinishKeeps DEF Next
<1> QED
  BY <1>1, InitInv, PTL DEF Spec

(* Every variable of the transaction keeps its shape. *)
THEOREM TypeCorrect == Spec => []TypeOK
<1>1. Inv => TypeOK
  BY DEF Inv
<1> QED
  BY <1>1, InvAlways, PTL

(* Whichever way the pipeline fails, what was registered and is still in place is
   an effect whose own cleanup reported an error (rollback, commit, Drop). *)
THEOREM AbortAlwaysReleases == Spec => []AbortReleasesAll
<1>1. Inv => AbortReleasesAll
  <2> SUFFICES ASSUME Inv, Failing PROVE live \cap registered \subseteq failed
    BY DEF AbortReleasesAll
  <2>1. journal = <<>> /\ deferred = <<>> /\ pc # "committed"
    BY DEF Inv, Journaled, Failing
  <2>2. Range(journal) = {} /\ Range(deferred) = {}
    BY <2>1 DEF Range
  <2> QED
    BY <2>1, <2>2 DEF Inv, Journaled
<1> QED
  BY <1>1, InvAlways, PTL

-----------------------------------------------------------------------------
(* Order of the journal: below the directory's action lies nothing that is mounted
   in the directory. *)
Sorted(s) ==
  \A i, j \in DOMAIN s : i < j /\ s[i] = "temp" => s[j] \notin Beneath

LEMMA PushSorted ==
  ASSUME NEW s \in Seq(Resources), NEW r \in Resources, Sorted(s),
         r = "temp" => Range(s) \cap Beneath = {}
  PROVE  Sorted(<<r>> \o s)
<1> DEFINE t == <<r>> \o s
<1>1. DOMAIN t = 1..(Len(s) + 1) /\ t[1] = r /\ DOMAIN s = 1..Len(s) /\ Len(s) \in Nat
  OBVIOUS
<1>2. \A i \in 2..(Len(s) + 1) : t[i] = s[i - 1] /\ i - 1 \in 1..Len(s)
  OBVIOUS
<1> HIDE DEF t
<1>3. ASSUME NEW i \in DOMAIN t, NEW j \in DOMAIN t, i < j, t[i] = "temp"
      PROVE  t[j] \notin Beneath
  <2>1. t[j] = s[j - 1] /\ j - 1 \in DOMAIN s
    BY <1>1, <1>2, <1>3
  <2>2. CASE i = 1
    BY <2>1, <2>2, <1>1, <1>3 DEF Range
  <2>3. CASE i # 1
    <3>1. t[i] = s[i - 1] /\ i - 1 \in DOMAIN s /\ i - 1 < j - 1
      BY <1>1, <1>2, <1>3, <2>3
    <3> QED
      BY <2>1, <3>1, <1>3 DEF Sorted
  <2> QED
    BY <2>2, <2>3
<1> QED
  BY <1>3 DEF Sorted, t

LEMMA PopSorted ==
  ASSUME NEW s \in Seq(Resources), s # <<>>, Sorted(s)
  PROVE  /\ Sorted(Tail(s))
         /\ Head(s) = "temp" => Range(Tail(s)) \cap Beneath = {}
<1> DEFINE t == Tail(s)
<1>1. DOMAIN t = 1..(Len(s) - 1) /\ DOMAIN s = 1..Len(s) /\ Len(s) \in Nat \ {0}
      /\ Head(s) = s[1]
  OBVIOUS
<1>2. \A i \in DOMAIN t : t[i] = s[i + 1] /\ i + 1 \in DOMAIN s /\ 1 \in DOMAIN s /\ 1 < i + 1
  OBVIOUS
<1> HIDE DEF t
<1>3. ASSUME NEW i \in DOMAIN t, NEW j \in DOMAIN t, i < j, t[i] = "temp"
      PROVE  t[j] \notin Beneath
  <2>1. i + 1 < j + 1
    BY <1>1, <1>3
  <2> QED
    BY <2>1, <1>2, <1>3 DEF Sorted
<1>4. ASSUME Head(s) = "temp", NEW x \in Range(t) PROVE x \notin Beneath
  <2>1. PICK i \in DOMAIN t : x = t[i]
    BY <1>4 DEF Range
  <2> QED
    BY <2>1, <1>1, <1>2, <1>4 DEF Sorted
<1> QED
  BY <1>3, <1>4 DEF Sorted, t

LEMMA AppendSorted ==
  ASSUME NEW s \in Seq(Resources), NEW r \in Resources, Sorted(s),
         "temp" \in Range(s) => r \notin Beneath
  PROVE  Sorted(Append(s, r))
<1> DEFINE t == Append(s, r)
<1>1. DOMAIN t = 1..(Len(s) + 1) /\ t[Len(s) + 1] = r /\ DOMAIN s = 1..Len(s) /\ Len(s) \in Nat
  OBVIOUS
<1>2. \A i \in 1..Len(s) : t[i] = s[i]
  OBVIOUS
<1> HIDE DEF t
<1>3. ASSUME NEW i \in DOMAIN t, NEW j \in DOMAIN t, i < j, t[i] = "temp"
      PROVE  t[j] \notin Beneath
  <2>1. i \in DOMAIN s /\ s[i] = "temp"
    BY <1>1, <1>2, <1>3
  <2>2. CASE j \in DOMAIN s
    BY <2>1, <2>2, <1>1, <1>2, <1>3 DEF Sorted
  <2>3. CASE j \notin DOMAIN s
    <3>1. t[j] = r
      BY <1>1, <2>3
    <3>2. "temp" \in Range(s)
      BY <2>1 DEF Range
    <3> QED
      BY <3>1, <3>2
  <2> QED
    BY <2>2, <2>3
<1> QED
  BY <1>3 DEF Sorted, t

LEMMA Names ==
  /\ Beneath \cap Targets = {} /\ "temp" \notin Beneath \cup Targets
  /\ "ksu" \notin Beneath \cup Targets /\ "vfs" \notin Beneath \cup Targets
  /\ "storage" \notin Layers /\ "magic" \notin Layers
  /\ "storage" \notin Targets /\ "magic" \notin Targets
  /\ "temp" \notin Layers
BY TransactionAssumption DEF Beneath, Named

(* What a commit runs and what it sets aside. *)
LEMMA DueKinds ==
  ASSUME conf \in Confs, NEW r \in Resources
  PROVE  /\ r \in Targets => ~Due(r)
         /\ Retained /\ r \in {"temp", "storage"} => ~Due(r)
         /\ r \in {"temp"} \cup Beneath /\ ~Due(r) /\ (r = "storage" => conf.storage) =>
              Retained /\ r \in {"temp", "storage"}
BY Names DEF Due, Kind, Retained, Beneath, Confs

(* The order of the journal, and what follows from it about emptied mounts. *)
Order ==
  /\ Sorted(journal) /\ Sorted(deferred)
  /\ "temp" \in Range(deferred) => Range(journal) \cap Beneath = {}
  /\ \A d \in Range(deferred) : ~Due(d)
  /\ Range(journal) \subseteq registered
  /\ pc = "temp" => registered = {"ksu"}
  /\ "storage" \in registered => conf.storage
  /\ emptied \subseteq live
  /\ pc \in Mounting => emptied = {} /\ failed = {}
  /\ emptied \cap registered \subseteq failed

(* A boot that is not failing has what it registered, and has registered all it
   made. *)
Whole ==
  /\ pc \in Mounting \cup {"commit", "committed"} =>
       live \subseteq registered /\ registered \cap Targets \subseteq live
  /\ pc \in (Mounting \ {"temp"}) \cup {"commit", "committed"} /\ Retained => "temp" \in live
  /\ pc \in (Mounting \ {"temp", "storage"}) \cup {"commit", "committed"} /\ Retained => "storage" \in live
  /\ pc = "committed" =>
       /\ emptied = {}
       /\ \A r \in live \cap ({"temp"} \cup Beneath) : Retained /\ r \in {"temp", "storage"}

LEMMA RegisterOrder ==
  ASSUME Inv, Order, NEW r \in Resources, Register(r), pc \in Mounting,
         pc' \in (Mounting \ {"temp"}) \cup {"rollback"},
         r = "temp" => pc = "temp", r = "storage" => conf.storage,
         live \subseteq live', UNCHANGED <<conf, deferred, emptied, failed>>
  PROVE  Order'
<1>1. journal \in Seq(Resources) /\ deferred = <<>>
  BY DEF Inv, TypeOK, Journaled, Mounting
<1>2. journal' = <<r>> \o journal /\ registered' = registered \cup {r}
  BY DEF Register
<1>3. Range(journal') = {r} \cup Range(journal)
  BY <1>1, <1>2, PushRange
<1>4. r = "temp" => Range(journal) \cap Beneath = {}
  BY Names DEF Order
<1>5. Sorted(journal')
  BY <1>1, <1>2, <1>4, PushSorted DEF Order
<1>6. Range(deferred') = {} /\ Sorted(deferred')
  BY <1>1 DEF Range, Sorted
<1> QED
  BY <1>2, <1>3, <1>5, <1>6 DEF Order, Mounting

(* The order is untouched when the journal and the effects that are emptied are. *)
LEMMA SameOrder ==
  ASSUME Order, live \subseteq live',
         UNCHANGED <<conf, journal, deferred, emptied, failed, registered>>,
         pc' # "temp", pc' \in Mounting => pc \in Mounting
  PROVE  Order'
BY DEF Order, Due, Kind, Retained

LEMMA MountOrder == Inv /\ Order /\ Mount => Order'
<1> SUFFICES ASSUME Inv, Order, Mount PROVE Order'
  OBVIOUS
<1>a. Named \subseteq Resources /\ Targets \subseteq Resources /\ Layers \subseteq Resources
  BY DEF Resources
<1> USE Names DEF Mounting, Make, Abandon, Skip, Goto, Register
<1>1. CASE CreateTemp
  BY <1>a, <1>1, RegisterOrder, SameOrder DEF CreateTemp, Named
<1>2. CASE SetupStorage
  BY <1>a, <1>2, RegisterOrder, SameOrder DEF SetupStorage, Named
<1>3. CASE MountStaging
  BY <1>a, <1>3, RegisterOrder, SameOrder DEF MountStaging, Named
<1>4. ASSUME NEW l \in Layers, MountLayer(l) PROVE Order'
  BY <1>a, <1>4, RegisterOrder DEF MountLayer
<1>5. ASSUME NEW t \in Overlays, MountOverlay(t) PROVE Order'
  BY <1>a, <1>5, RegisterOrder DEF MountOverlay, Targets
<1>6. ASSUME NEW t \in Binds, MountBind(t) PROVE Order'
  BY <1>a, <1>6, RegisterOrder DEF MountBind, Targets
<1>7. ASSUME NEW t \in Binds, BindFail(t) PROVE Order'
  BY <1>7, SameOrder DEF BindFail
<1>8. CASE MountNext
  BY <1>8, SameOrder DEF MountNext
<1>9. CASE MountFail
  BY <1>9, SameOrder DEF MountFail
<1>10. CASE ApplyVfs
  BY <1>a, <1>10, RegisterOrder, SameOrder DEF ApplyVfs, Named
<1>11. CASE CommitKsu
  BY <1>11, SameOrder DEF CommitKsu
<1>12. CASE Record
  BY <1>12, SameOrder DEF Record
<1>13. CASE Panic
  BY <1>13, SameOrder DEF Panic
<1> QED
  BY <1>1, <1>2, <1>3, <1>4, <1>5, <1>6, <1>7, <1>8, <1>9, <1>10, <1>11, <1>12, <1>13 DEF Mount

LEMMA MountWhole == Inv /\ Order /\ Whole /\ Mount => Whole'
<1> SUFFICES ASSUME Inv, Order, Whole, Mount PROVE Whole'
  OBVIOUS
<1> USE Names DEF Mounting, Make, Abandon, Skip, Goto, Register, Whole, Retained
<1>1. CASE CreateTemp
  BY <1>1 DEF CreateTemp, NeedsTemp
<1>2. CASE SetupStorage
  BY <1>2 DEF SetupStorage
<1>3. CASE MountStaging
  BY <1>3 DEF MountStaging
<1>4. ASSUME NEW l \in Layers, MountLayer(l) PROVE Whole'
  BY <1>4 DEF MountLayer
<1>5. ASSUME NEW t \in Overlays, MountOverlay(t) PROVE Whole'
  BY <1>5 DEF MountOverlay
<1>6. ASSUME NEW t \in Binds, MountBind(t) PROVE Whole'
  BY <1>6 DEF MountBind
<1>7. ASSUME NEW t \in Binds, BindFail(t) PROVE Whole'
  BY <1>7 DEF BindFail
<1>8. CASE MountNext
  BY <1>8 DEF MountNext
<1>9. CASE MountFail
  BY <1>9 DEF MountFail
<1>10. CASE ApplyVfs
  BY <1>10 DEF ApplyVfs
<1>11. CASE CommitKsu
  BY <1>11 DEF CommitKsu, Inv
<1>12. CASE Record
  BY <1>12 DEF Record
<1>13. CASE Panic
  BY <1>13 DEF Panic
<1> QED
  BY <1>1, <1>2, <1>3, <1>4, <1>5, <1>6, <1>7, <1>8, <1>9, <1>10, <1>11, <1>12, <1>13 DEF Mount

(* An action that runs with nothing left to come that lies in the directory empties
   only what failed before. *)
LEMMA RunEmptied ==
  ASSUME TypeOK, NEW r \in Resources, RunAction(r),
         emptied \subseteq live, emptied \cap registered \subseteq failed,
         r = "temp" => live \cap registered \cap Beneath \subseteq failed
  PROVE  emptied' \subseteq live' /\ emptied' \cap registered \subseteq failed'
<1>1. CASE Succeeds(r)
  BY <1>1 DEF Succeeds
<1>2. CASE Fails(r)
  BY <1>2 DEF Fails
<1>3. CASE EntersMounts(r)
  BY <1>3 DEF EntersMounts
<1>4. CASE DropEmpties(r)
  BY <1>4 DEF DropEmpties
<1> QED
  BY <1>1, <1>2, <1>3, <1>4 DEF RunAction

LEMMA FinishOrder == Inv /\ Order /\ Finish => Order'
<1> SUFFICES ASSUME Inv, Order, Finish PROVE Order'
  OBVIOUS
<1>a. TypeOK /\ conf \in Confs /\ journal \in Seq(Resources) /\ deferred \in Seq(Resources)
  BY DEF Inv, TypeOK
<1>1. CASE CommitStep
  <2> DEFINE r == Head(journal)
  <2>1. /\ r \in Resources /\ journal' \in Seq(Resources)
        /\ Range(journal) = {r} \cup Range(journal')
    BY <1>1, <1>a, PopRange DEF CommitStep
  <2>2. Sorted(journal') /\ (r = "temp" => Range(journal') \cap Beneath = {})
    BY <1>1, <1>a, PopSorted DEF CommitStep, Order
  <2>3. pc = "commit" /\ UNCHANGED <<conf, pc, known, status, registered>>
    BY <1>1 DEF CommitStep
  <2>4. \A d \in Resources : Due(d)' <=> Due(d)
    BY <2>3 DEF Due, Kind, Retained
  <2>5. CASE ~Due(r) /\ deferred' = Append(deferred, r) /\ UNCHANGED <<live, emptied, failed, faults>>
    <3>1. Range(deferred') = {r} \cup Range(deferred)
      BY <1>a, <2>1, <2>5, AppendRange
    <3>2. "temp" \in Range(deferred) => r \notin Beneath
      BY <2>1 DEF Order
    <3>3. Sorted(deferred')
      BY <1>a, <2>1, <2>5, <3>2, AppendSorted DEF Order
    <3>4. \A d \in Range(deferred') : ~Due(d)
      BY <2>5, <3>1 DEF Order
    <3>5. \A d \in Range(deferred') : ~Due(d)'
      BY <2>3, <3>4 DEF Due, Kind, Retained
    <3> QED
      BY <2>1, <2>2, <2>3, <2>5, <3>1, <3>3, <3>5 DEF Order, Mounting
  <2>6. CASE Due(r) /\ RunAction(r) /\ UNCHANGED deferred
    <3>1. ASSUME r = "temp" PROVE live \cap registered \cap Beneath \subseteq failed
      <4>1. Range(journal) \cap Beneath = {}
        BY <2>1, <2>2, <3>1, Names
      <4>2. ASSUME NEW d \in Range(deferred) \cap Beneath, d \in registered PROVE FALSE
        <5>1. d \in Resources /\ ~Due(d) /\ (d = "storage" => conf.storage)
          BY <4>2 DEF Order, Beneath, Resources, Named
        <5>2. Retained
          BY <1>a, <4>2, <5>1, DueKinds
        <5>3. ~Due(r)
          BY <1>a, <2>1, <3>1, <5>2, DueKinds
        <5> QED
          BY <2>6, <5>3
      <4> QED
        BY <2>3, <4>1, <4>2 DEF Inv, Journaled
    <3>2. emptied' \subseteq live' /\ emptied' \cap registered \subseteq failed'
      BY <1>a, <2>1, <2>6, <3>1, RunEmptied DEF Order
    <3>3. \A d \in Range(deferred') : ~Due(d)'
      BY <2>3, <2>6 DEF Order, Due, Kind, Retained
    <3> QED
      BY <2>1, <2>2, <2>3, <2>6, <3>2, <3>3 DEF Order, Mounting
  <2> QED
    BY <1>1, <2>5, <2>6 DEF CommitStep
<1>2. CASE CommitDone
  <2>1. Range(deferred') = {} /\ Sorted(deferred')
    BY <1>2 DEF CommitDone, Range, Sorted
  <2> QED
    BY <1>2, <2>1 DEF CommitDone, Goto, Order, Mounting
<1>3. CASE CommitFailed
  BY <1>3 DEF CommitFailed, Goto, Order, Mounting, Due, Kind, Retained
<1>4. CASE UndoStep
  <2> DEFINE r == Head(deferred)
  <2>1. /\ r \in Resources /\ deferred' \in Seq(Resources)
        /\ Range(deferred) = {r} \cup Range(deferred')
    BY <1>4, <1>a, PopRange DEF UndoStep
  <2>2. Sorted(deferred') /\ (r = "temp" => Range(deferred') \cap Beneath = {})
    BY <1>4, <1>a, PopSorted DEF UndoStep, Order
  <2>3. /\ pc = "undo" /\ RunAction(r)
        /\ UNCHANGED <<conf, pc, journal, known, status, registered>>
    BY <1>4 DEF UndoStep
  <2>4. Range(journal) = {}
    BY <2>3 DEF Inv, Journaled, Range
  <2>5. ASSUME r = "temp" PROVE live \cap registered \cap Beneath \subseteq failed
    BY <2>1, <2>2, <2>3, <2>4, <2>5, Names DEF Inv, Journaled
  <2>6. emptied' \subseteq live' /\ emptied' \cap registered \subseteq failed'
    BY <1>a, <2>1, <2>3, <2>5, RunEmptied DEF Order
  <2>7. \A d \in Range(deferred') : ~Due(d)'
    BY <2>1, <2>3 DEF Order, Due, Kind, Retained
  <2> QED
    BY <2>1, <2>2, <2>3, <2>4, <2>6, <2>7 DEF Order, Mounting
<1>5. CASE RollbackStep
  <2> DEFINE r == Head(journal)
  <2>1. /\ r \in Resources /\ journal' \in Seq(Resources)
        /\ Range(journal) = {r} \cup Range(journal')
    BY <1>5, <1>a, PopRange DEF RollbackStep
  <2>2. Sorted(journal') /\ (r = "temp" => Range(journal') \cap Beneath = {})
    BY <1>5, <1>a, PopSorted DEF RollbackStep, Order
  <2>3. /\ pc \in {"rollback", "drop"} /\ RunAction(r)
        /\ UNCHANGED <<conf, pc, deferred, known, status, registered>>
    BY <1>5 DEF RollbackStep
  <2>4. Range(deferred) = {}
    BY <2>3 DEF Inv, Journaled, Range
  <2>5. ASSUME r = "temp" PROVE live \cap registered \cap Beneath \subseteq failed
    BY <2>1, <2>2, <2>3, <2>4, <2>5, Names DEF Inv, Journaled
  <2>6. emptied' \subseteq live' /\ emptied' \cap registered \subseteq failed'
    BY <1>a, <2>1, <2>3, <2>5, RunEmptied DEF Order
  <2> QED
    BY <2>1, <2>2, <2>3, <2>4, <2>6 DEF Order, Mounting
<1>6. CASE Verify
  BY <1>6 DEF Verify, Goto, Order, Mounting, Due, Kind, Retained
<1>7. CASE Dropped
  BY <1>7 DEF Dropped, Goto, Order, Mounting, Due, Kind, Retained
<1> QED
  BY <1>1, <1>2, <1>3, <1>4, <1>5, <1>6, <1>7 DEF Finish

LEMMA FinishWhole == Inv /\ Order /\ Whole /\ Finish => Whole'
<1> SUFFICES ASSUME Inv, Order, Whole, Finish PROVE Whole'
  OBVIOUS
<1>a. TypeOK /\ conf \in Confs /\ journal \in Seq(Resources)
  BY DEF Inv, TypeOK
<1> USE DEF Mounting, Goto
<1>1. CASE CommitStep
  <2> DEFINE r == Head(journal)
  <2>1. r \in Resources
    BY <1>1, <1>a, PopRange DEF CommitStep
  <2>2. pc = "commit" /\ UNCHANGED <<conf, pc, known, status, registered>>
    BY <1>1 DEF CommitStep
  <2>3. CASE UNCHANGED live
    BY <2>2, <2>3 DEF Whole, Retained
  <2>4. CASE Due(r) /\ RunAction(r)
    <3>1. r \notin Targets /\ (Retained => r \notin {"temp", "storage"})
      BY <1>a, <2>1, <2>4, DueKinds
    <3>2. live' \in {live, live \ {r}}
      BY <2>4 DEF RunAction, Succeeds, Fails, EntersMounts, DropEmpties
    <3> QED
      BY <2>2, <3>1, <3>2 DEF Whole, Retained
  <2> QED
    BY <1>1, <2>3, <2>4 DEF CommitStep
<1>2. CASE CommitDone
  <2>1. journal = <<>> /\ failed = {} /\ pc = "commit"
        /\ pc' = "committed" /\ UNCHANGED <<conf, live, emptied, failed, registered>>
    BY <1>2 DEF CommitDone
  <2>2. live \subseteq Range(deferred)
    <3>1. Range(journal) = {}
      BY <2>1 DEF Range
    <3> QED
      BY <2>1, <3>1 DEF Inv, Journaled, Whole
  <2>3. ASSUME NEW r \in live \cap ({"temp"} \cup Beneath)
        PROVE  Retained /\ r \in {"temp", "storage"}
    <3>1. r \in Resources /\ ~Due(r) /\ (r = "storage" => conf.storage)
      BY <1>a, <2>1, <2>2 DEF Order, Whole, TypeOK
    <3> QED
      BY <1>a, <3>1, DueKinds
  <2>4. emptied = {}
    BY <2>1 DEF Order, Whole
  <2> QED
    BY <2>1, <2>3, <2>4 DEF Whole, Retained
<1>3. CASE CommitFailed
  BY <1>3 DEF CommitFailed, Whole
<1>4. CASE UndoStep
  BY <1>4 DEF UndoStep, Whole
<1>5. CASE RollbackStep
  BY <1>5 DEF RollbackStep, Whole
<1>6. CASE Verify
  BY <1>6 DEF Verify, Whole
<1>7. CASE Dropped
  BY <1>7 DEF Dropped, Whole
<1> QED
  BY <1>1, <1>2, <1>3, <1>4, <1>5, <1>6, <1>7 DEF Finish

LEMMA InitOrder == Init => Order /\ Whole
<1> SUFFICES ASSUME Init PROVE Order /\ Whole
  OBVIOUS
<1>1. Range(journal) = {"ksu"} /\ Range(deferred) = {}
  BY DEF Init, Range
<1>2. Sorted(journal) /\ Sorted(deferred)
  BY DEF Init, Sorted
<1> QED
  BY <1>1, <1>2, Names DEF Init, Order, Whole, Mounting

THEOREM OrderAlways == Spec => [](Inv /\ Order /\ Whole)
<1>1. Inv /\ Order /\ Whole /\ [Next]_vars => (Inv /\ Order /\ Whole)'
  <2> SUFFICES ASSUME Inv, Order, Whole, [Next]_vars PROVE (Inv /\ Order /\ Whole)'
    OBVIOUS
  <2>1. CASE UNCHANGED vars
    BY <2>1 DEF vars, Inv, TypeOK, Journaled, Order, Whole, Due, Kind, Retained
  <2> QED
    BY <2>1, MountKeeps, FinishKeeps, MountOrder, MountWhole, FinishOrder, FinishWhole DEF Next
<1> QED
  BY <1>1, InitInv, InitOrder, PTL DEF Spec

(* No content is deleted through a mount whose own cleanup has not failed
   (registration order, commit, RuntimeTempDir). *)
THEOREM EmptiedOnlyAfterFailure == Spec => []EmptiedAfterFailure
<1>1. Order => EmptiedAfterFailure
  BY DEF Order, EmptiedAfterFailure
<1> QED
  BY <1>1, OrderAlways, PTL

(* A commit that succeeds leaves every mount in place over intact layers, and of its
   temporary mounts exactly the retained ones. *)
THEOREM CommitAlwaysKeepsMounts == Spec => []CommitKeepsMounts
<1>1. Whole => CommitKeepsMounts
  BY DEF Whole, CommitKeepsMounts, Beneath
<1> QED
  BY <1>1, OrderAlways, PTL

-----------------------------------------------------------------------------
(* "clean" is the last thing a rollback writes. *)
CleanFinal == status = "clean" => pc = "aborted" /\ live \cap registered = {}

LEMMA CleanKeeps == Inv /\ CleanFinal /\ Next => CleanFinal'
<1> SUFFICES ASSUME Inv, CleanFinal, Next, status' = "clean"
             PROVE  pc' = "aborted" /\ live' \cap registered' = {}
  BY DEF CleanFinal
<1>1. ASSUME status = "clean" PROVE FALSE
  <2>1. pc = "aborted"
    BY <1>1 DEF CleanFinal
  <2> QED
    BY <2>1 DEF Next, Mount, Finish, CreateTemp, SetupStorage, MountStaging, MountLayer,
                MountOverlay, MountBind, BindFail, MountNext, MountFail, ApplyVfs, CommitKsu,
                Record, Panic, Mounting, CommitStep, CommitDone, CommitFailed, UndoStep,
                RollbackStep, Verify, Dropped
<1>2. ~Mount
  BY <1>1 DEF Mount, CreateTemp, SetupStorage, MountStaging, MountLayer, MountOverlay, MountBind,
              BindFail, MountNext, MountFail, ApplyVfs, CommitKsu, Record, Panic, Make, Abandon,
              Skip
<1>3. Verify
  BY <1>1, <1>2 DEF Next, Finish, CommitStep, CommitDone, CommitFailed, UndoStep, RollbackStep,
                    Dropped
<1>4. pc = "rollback" /\ journal = <<>> /\ Verdict = "clean" /\ pc' = "aborted"
      /\ UNCHANGED <<live, registered>>
  BY <1>1, <1>3 DEF Verify, Goto
<1>5. failed = {} /\ Range(journal) = {} /\ Range(deferred) = {}
  BY <1>4 DEF Verdict, Range, Inv, Journaled
<1> QED
  BY <1>4, <1>5 DEF Inv, Journaled

(* The rollback records "clean" only when nothing that was registered is still in
   place (rollback_mount_pipeline). *)
THEOREM CleanAlwaysReleased == Spec => []CleanIsReleased
<1>1. Init => CleanFinal
  BY DEF Init, CleanFinal
<1>2. Inv /\ CleanFinal /\ [Next]_vars => CleanFinal'
  <2>1. CleanFinal /\ UNCHANGED vars => CleanFinal'
    BY DEF CleanFinal, vars
  <2> QED
    BY <2>1, CleanKeeps
<1>3. CleanFinal => CleanIsReleased
  BY DEF CleanFinal, CleanIsReleased
<1> QED
  BY <1>1, <1>2, <1>3, InvAlways, PTL DEF Spec

-----------------------------------------------------------------------------
(* Where a mount is made from: made before every target, so registered before it. *)
Sources == {"temp", "storage", "magic"}

TargetsFirst(s) ==
  \A i, j \in DOMAIN s : i < j /\ s[i] \in Sources => s[j] \notin Targets

TargetOrder ==
  /\ TargetsFirst(journal)
  /\ pc \in {"temp", "storage", "staging"} => Range(journal) \cap Targets = {}

LEMMA PushTargets ==
  ASSUME NEW s \in Seq(Resources), NEW r \in Resources, TargetsFirst(s),
         r \in Sources => Range(s) \cap Targets = {}
  PROVE  TargetsFirst(<<r>> \o s)
<1> DEFINE t == <<r>> \o s
<1>1. DOMAIN t = 1..(Len(s) + 1) /\ t[1] = r /\ DOMAIN s = 1..Len(s) /\ Len(s) \in Nat
  OBVIOUS
<1>2. \A i \in 2..(Len(s) + 1) : t[i] = s[i - 1] /\ i - 1 \in 1..Len(s)
  OBVIOUS
<1> HIDE DEF t
<1>3. ASSUME NEW i \in DOMAIN t, NEW j \in DOMAIN t, i < j, t[i] \in Sources
      PROVE  t[j] \notin Targets
  <2>1. t[j] = s[j - 1] /\ j - 1 \in DOMAIN s
    BY <1>1, <1>2, <1>3
  <2>2. CASE i = 1
    BY <2>1, <2>2, <1>1, <1>3 DEF Range
  <2>3. CASE i # 1
    <3>1. t[i] = s[i - 1] /\ i - 1 \in DOMAIN s /\ i - 1 < j - 1
      BY <1>1, <1>2, <1>3, <2>3
    <3> QED
      BY <2>1, <3>1, <1>3 DEF TargetsFirst
  <2> QED
    BY <2>2, <2>3
<1> QED
  BY <1>3 DEF TargetsFirst, t

LEMMA PopTargets ==
  ASSUME NEW s \in Seq(Resources), s # <<>>, TargetsFirst(s)
  PROVE  /\ TargetsFirst(Tail(s))
         /\ Head(s) \in Sources => Range(Tail(s)) \cap Targets = {}
<1> DEFINE t == Tail(s)
<1>1. DOMAIN t = 1..(Len(s) - 1) /\ DOMAIN s = 1..Len(s) /\ Len(s) \in Nat \ {0}
      /\ Head(s) = s[1]
  OBVIOUS
<1>2. \A i \in DOMAIN t : t[i] = s[i + 1] /\ i + 1 \in DOMAIN s /\ 1 \in DOMAIN s /\ 1 < i + 1
  OBVIOUS
<1> HIDE DEF t
<1>3. ASSUME NEW i \in DOMAIN t, NEW j \in DOMAIN t, i < j, t[i] \in Sources
      PROVE  t[j] \notin Targets
  <2>1. i + 1 < j + 1
    BY <1>1, <1>3
  <2> QED
    BY <2>1, <1>2, <1>3 DEF TargetsFirst
<1>4. ASSUME Head(s) \in Sources, NEW x \in Range(t) PROVE x \notin Targets
  <2>1. PICK i \in DOMAIN t : x = t[i]
    BY <1>4 DEF Range
  <2> QED
    BY <2>1, <1>1, <1>2, <1>4 DEF TargetsFirst
<1> QED
  BY <1>3, <1>4 DEF TargetsFirst, t

(* A phase registers a source only while no target is registered, and goes back to
   none of the phases that do. *)
LEMMA RegisterTargets ==
  ASSUME Inv, TargetOrder, NEW r \in Resources, Register(r),
         r \in Sources => pc \in {"temp", "storage", "staging"},
         pc' \in {"temp", "storage", "staging"} =>
           r \notin Targets /\ pc \in {"temp", "storage", "staging"}
  PROVE  TargetOrder'
<1>1. journal \in Seq(Resources) /\ journal' = <<r>> \o journal
  BY DEF Inv, TypeOK, Register
<1>2. Range(journal') = {r} \cup Range(journal)
  BY <1>1, PushRange
<1>3. TargetsFirst(journal')
  BY <1>1, PushTargets DEF TargetOrder
<1> QED
  BY <1>2, <1>3 DEF TargetOrder

LEMMA SameTargets ==
  ASSUME TargetOrder, UNCHANGED journal,
         pc' \in {"temp", "storage", "staging"} => pc \in {"temp", "storage", "staging"}
  PROVE  TargetOrder'
BY DEF TargetOrder

LEMMA MountTargets == Inv /\ TargetOrder /\ Mount => TargetOrder'
<1> SUFFICES ASSUME Inv, TargetOrder, Mount PROVE TargetOrder'
  OBVIOUS
<1>a. Named \subseteq Resources /\ Targets \subseteq Resources /\ Layers \subseteq Resources
  BY DEF Resources
<1> USE Names DEF Sources, Make, Abandon, Skip, Goto
<1>1. CASE CreateTemp
  BY <1>a, <1>1, RegisterTargets, SameTargets DEF CreateTemp, Named
<1>2. CASE SetupStorage
  BY <1>a, <1>2, RegisterTargets, SameTargets DEF SetupStorage, Named
<1>3. CASE MountStaging
  BY <1>a, <1>3, RegisterTargets, SameTargets DEF MountStaging, Named
<1>4. ASSUME NEW l \in Layers, MountLayer(l) PROVE TargetOrder'
  BY <1>a, <1>4, RegisterTargets DEF MountLayer
<1>5. ASSUME NEW t \in Overlays, MountOverlay(t) PROVE TargetOrder'
  BY <1>a, <1>5, RegisterTargets DEF MountOverlay, Targets
<1>6. ASSUME NEW t \in Binds, MountBind(t) PROVE TargetOrder'
  BY <1>a, <1>6, RegisterTargets DEF MountBind, Targets
<1>7. ASSUME NEW t \in Binds, BindFail(t) PROVE TargetOrder'
  BY <1>7, SameTargets DEF BindFail
<1>8. CASE MountNext
  BY <1>8, SameTargets DEF MountNext
<1>9. CASE MountFail
  BY <1>9, SameTargets DEF MountFail
<1>10. CASE ApplyVfs
  BY <1>a, <1>10, RegisterTargets, SameTargets DEF ApplyVfs, Named
<1>11. CASE CommitKsu
  BY <1>11, SameTargets DEF CommitKsu
<1>12. CASE Record
  BY <1>12, SameTargets DEF Record
<1>13. CASE Panic
  BY <1>13, SameTargets DEF Panic
<1> QED
  BY <1>1, <1>2, <1>3, <1>4, <1>5, <1>6, <1>7, <1>8, <1>9, <1>10, <1>11, <1>12, <1>13 DEF Mount

LEMMA FinishTargets == Inv /\ TargetOrder /\ Finish => TargetOrder'
<1> SUFFICES ASSUME Inv, TargetOrder, Finish PROVE TargetOrder'
  OBVIOUS
<1>1. journal \in Seq(Resources)
  BY DEF Inv, TypeOK
<1>2. CASE journal # <<>> /\ journal' = Tail(journal) /\ pc \notin {"temp", "storage", "staging"}
           /\ UNCHANGED pc
  BY <1>1, <1>2, PopTargets DEF TargetOrder
<1>3. CASE UNCHANGED journal /\ pc' \notin {"temp", "storage", "staging"}
  BY <1>3, SameTargets
<1> QED
  BY <1>2, <1>3 DEF Finish, CommitStep, CommitDone, CommitFailed, UndoStep, RollbackStep, Verify,
                    Dropped, Goto

(* A rollback loses a source only when no target is left to run: each that is in
   place had its cleanup refused. *)
LEMMA StepTakesTargetsFirst ==
  ASSUME Inv, TargetOrder, Next, Storages # Storages', pc \in {"rollback", "drop"}
  PROVE  live \cap registered \cap Targets \subseteq failed
<1> DEFINE r == Head(journal)
<1>1. RollbackStep
  BY DEF Next, Mount, Finish, CreateTemp, SetupStorage, MountStaging, MountLayer, MountOverlay,
         MountBind, BindFail, MountNext, MountFail, ApplyVfs, CommitKsu, Record, Panic, Mounting,
         CommitStep, CommitDone, CommitFailed, UndoStep, Verify, Dropped, Storages
<1>2. journal # <<>> /\ RunAction(r) /\ journal \in Seq(Resources)
  BY <1>1 DEF RollbackStep, Inv, TypeOK
<1>3. live' = live \/ live' = live \ {r}
  BY <1>2 DEF RunAction, Succeeds, Fails, EntersMounts, DropEmpties
<1>4. r \in Sources
  BY <1>3 DEF Storages, Sources
<1>5. Range(journal) = {r} \cup Range(Tail(journal)) /\ Range(Tail(journal)) \cap Targets = {}
  BY <1>2, <1>4, PopRange, PopTargets DEF TargetOrder
<1>6. r \notin Targets
  BY <1>4, Names DEF Sources
<1>7. Range(deferred) = {}
  BY DEF Inv, Journaled, Range
<1> QED
  BY <1>5, <1>6, <1>7 DEF Inv, Journaled

(* The storage, the staging and their directory go away in a rollback only after
   each target mounted from them is off, or refused to come off (run_all). *)
THEOREM TargetsAlwaysBeforeStorage == Spec => TargetsBeforeStorage
<1>1. Init => TargetOrder
  <2>1. ASSUME Init PROVE TargetsFirst(journal) /\ Range(journal) = {"ksu"}
    BY <2>1 DEF Init, TargetsFirst, Range
  <2> QED
    BY <2>1, Names DEF TargetOrder
<1>2. Inv /\ TargetOrder /\ [Next]_vars => TargetOrder'
  <2>1. TargetOrder /\ UNCHANGED vars => TargetOrder'
    BY DEF TargetOrder, vars
  <2> QED
    BY <2>1, MountTargets, FinishTargets DEF Next
<1>3. Inv /\ TargetOrder /\ [Next]_vars =>
        [Storages # Storages' /\ pc \in {"rollback", "drop"} =>
           live \cap registered \cap Targets \subseteq failed]_vars
  BY StepTakesTargetsFirst
<1> QED
  BY <1>1, <1>2, <1>3, InvAlways, PTL DEF Spec, TargetsBeforeStorage

=============================================================================
