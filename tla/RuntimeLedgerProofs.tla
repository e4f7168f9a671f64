------------------------- MODULE RuntimeLedgerProofs -------------------------
(* RuntimeLedger for every value of its constants: type correctness, then that the
   ledger names everything of Hybrid Mount's that is live: rules, mounts,
   registrations and (on hm) UIDs.  Each is proved with the phase discipline of
   the three operations, which says what the ledger holds at each step. *)
EXTENDS RuntimeLedger, TLAPS

LEMMA NoRulesType == NoRules \in Rules
  BY DEF NoRules, Rules

LEMMA FreshLedgerType == FreshLedger \in Ledgers
  BY NoRulesType DEF FreshLedger, Ledgers, Phases

LEMMA NoJobType == NoJob \in Jobs
  BY NoRulesType DEF NoJob, Jobs

(* Deleting keys and writing rules that are a table's keeps the table a table. *)
LEMMA WrittenType ==
  ASSUME krules \in LiveRules, NEW gone, NEW put, NEW rules \in LiveRules
  PROVE  Written(gone, put, rules) \in LiveRules
  BY DEF Written, LiveRules

(* What a plan or the ledger holds can be live. *)
LEMMA RulesAreLive == Rules \subseteq LiveRules
  BY DEF Rules, LiveRules

(* A fault taken out of a positive budget leaves a smaller one. *)
LEMMA FaultType == faults \in 0..MaxFaults /\ Fault => faults' \in 0..MaxFaults
  BY ConstantsAssumption DEF Fault

LEMMA InitType == Init => TypeOK
<1> SUFFICES ASSUME Init PROVE TypeOK
  OBVIOUS
<1>1. ledger \in Ledgers
  BY FreshLedgerType DEF Init, Ledgers
<1>2. krules \in LiveRules
  BY NoRulesType, RulesAreLive DEF Init
<1>3. faults \in 0..MaxFaults
  BY ConstantsAssumption DEF Init
<1> QED
  BY <1>1, <1>2, <1>3, NoJobType DEF Init, TypeOK, Pcs, RunStates

(* What finish decides is a ledger. *)
LEMMA FinishedType == TypeOK => Finished \in Ledgers
<1> SUFFICES ASSUME TypeOK PROVE Finished \in Ledgers
  OBVIOUS
<1> DEFINE rejected == Provider = "nomount" /\ Dom(ledger.pending) # {} /\ runActive = {}
<1> DEFINE planned == IF rejected THEN NoRules ELSE ledger.pending
<1> DEFINE requested == IF rejected THEN {} ELSE ledger.uids
<1> DEFINE verified == \A k \in runActive : planned[k] # None /\ krules[k] = planned[k]
<1> DEFINE phase == IF job.ok /\ verified THEN "ready" ELSE "error"
<1> DEFINE rules == [k \in Keys |-> IF krules[k] = planned[k] THEN planned[k] ELSE None]
<1> DEFINE pending == IF verified THEN NoRules ELSE planned
<1> DEFINE uids == (kuids \cap requested) \ job.orig
<1>1. Finished = [ledger EXCEPT !.phase = phase, !.rules = rules, !.pending = pending,
                                !.uids = uids, !.mounts = kmounts \cap job.eff, !.ksu = kksu]
  BY DEF Finished, OwnedUids, Confirmed
<1>2. ledger \in Ledgers /\ kmounts \subseteq Mounts /\ kksu \subseteq Mounts
  BY DEF TypeOK, RunStates
<1>3. planned \in Rules
  BY <1>2, NoRulesType DEF Ledgers
<1>4. requested \subseteq Uids
  BY <1>2 DEF Ledgers
<1>5. phase \in Phases
  BY DEF Phases
<1>6. rules \in Rules
  BY <1>3 DEF Rules
<1>7. pending \in Rules
  BY <1>3, NoRulesType
<1>8. uids \in SUBSET Uids /\ kmounts \cap job.eff \in SUBSET Mounts
  BY <1>2, <1>4
<1> QED
  <2> HIDE DEF phase, rules, pending, uids
  <2> QED
    BY <1>1, <1>2, <1>5, <1>6, <1>7, <1>8 DEF Ledgers

(* What finish decides, field by field. *)
LEMMA FinishedFields ==
  ASSUME TypeOK
  PROVE  LET rejected == Provider = "nomount" /\ Dom(ledger.pending) # {} /\ runActive = {}
             planned == IF rejected THEN NoRules ELSE ledger.pending
             requested == IF rejected THEN {} ELSE ledger.uids
             verified == \A k \in runActive : planned[k] # None /\ krules[k] = planned[k]
         IN /\ Finished.current = ledger.current
            /\ Finished.phase = IF job.ok /\ verified THEN "ready" ELSE "error"
            /\ Finished.rules = [k \in Keys |-> IF krules[k] = planned[k] THEN planned[k] ELSE None]
            /\ Finished.pending = IF verified THEN NoRules ELSE planned
            /\ Finished.uids = (kuids \cap requested) \ job.orig
            /\ Finished.mounts = kmounts \cap job.eff
            /\ Finished.ksu = kksu
<1> ledger \in Ledgers
  BY DEF TypeOK, RunStates
<1> QED
  BY DEF Finished, Ledgers, OwnedUids, Confirmed

(* Every step of the boot pipeline keeps the types. *)
LEMMA BootType == TypeOK /\ BootStep => TypeOK'
<1> SUFFICES ASSUME TypeOK, BootStep PROVE TypeOK'
  OBVIOUS
<1> USE NoJobType, FaultType DEF TypeOK, Pcs, BootPcs, HotPcs, CleanPcs, Return, Goto, kernel,
   files, RunStates
<1>1. ASSUME NEW plan \in Rules, NEW requested \in SUBSET Uids,
            BootPlan(plan, requested)
     PROVE  TypeOK'
  <2>1. ledger' \in Ledgers
    BY NoRulesType, FreshLedgerType, <1>1 DEF BootPlan, Ledgers, Phases, FromPlan
  <2>2. runActive' \in SUBSET Keys
    BY <1>1 DEF BootPlan, Jobs, Dom, FromPlan
  <2> QED
    BY <1>1, <2>1, <2>2 DEF BootPlan, FromPlan
<1>2. CASE BootPlanFail
  <2>1. runActive' \in SUBSET Keys
    BY <1>2 DEF BootPlanFail, StartupFailure
  <2> QED
    BY <1>2, <2>1 DEF BootPlanFail, StartupFailure
<1>3. ASSUME NEW t \in Mounts,
            BootMount(t)
     PROVE  TypeOK'
  <2>1. job' \in Jobs
    BY <1>3 DEF BootMount, Jobs, Dom, Rules, AnyUids
  <2> QED
    BY <1>3, <2>1 DEF BootMount
<1>4. CASE BootMountFail
  BY <1>4 DEF BootMountFail
<1>5. CASE BootVfsSkip
  BY <1>5 DEF BootVfsSkip
<1>6. CASE BootVfsArm
  BY <1>6 DEF BootVfsArm, Arm
<1>7. CASE BootVfsArmFail
  <2>1. guard' \in {"absent", "own", "foreign"}
    BY <1>7 DEF BootVfsArmFail, ArmFails
  <2> QED
    BY <1>7, <2>1 DEF BootVfsArmFail, ArmFails
<1>8. CASE BootVfsRefuse
  BY <1>8 DEF BootVfsRefuse, AfterVfsFailure
<1>9. CASE BootVfsApply
  <2>1. krules' \in LiveRules
    BY NoRulesType, WrittenType, RulesAreLive, <1>9 DEF BootVfsApply, Ledgers, Jobs
  <2>2. kuids' \in SUBSET AnyUids /\ mineUids' \in SUBSET Uids
    BY <1>9 DEF BootVfsApply, Ledgers, Jobs, AnyUids
  <2>3. mine' \in SUBSET Keys
    BY <1>9 DEF BootVfsApply, Ledgers, Jobs, Dom
  <2>4. job' \in Jobs
    BY <1>9 DEF BootVfsApply, Jobs, Dom, Rules, AnyUids
  <2> QED
    BY <1>9, <2>1, <2>2, <2>3, <2>4 DEF BootVfsApply
<1>10. CASE BootVfsApplyFail
  <2>1. krules' \in LiveRules
    BY NoRulesType, WrittenType, RulesAreLive, <1>10 DEF BootVfsApplyFail, Ledgers, Jobs
  <2>2. kuids' \in SUBSET AnyUids /\ mineUids' \in SUBSET Uids
    BY <1>10 DEF BootVfsApplyFail, Ledgers, Jobs, AnyUids
  <2>3. mine' \in SUBSET Keys
    BY <1>10 DEF BootVfsApplyFail, Ledgers, Jobs, Dom
  <2>4. job' \in Jobs
    BY <1>10 DEF BootVfsApplyFail, Jobs, Dom, Rules, AnyUids
  <2> QED
    BY <1>10, <2>1, <2>2, <2>3, <2>4 DEF BootVfsApplyFail
<1>11. CASE BootVfsRead
  <2>1. job' \in Jobs
    BY <1>11 DEF BootVfsRead, Jobs, Dom, Rules, AnyUids, ReadBack
  <2> QED
    BY <1>11, <2>1 DEF BootVfsRead, ReadBack
<1>12. CASE BootVfsReadFail
  BY <1>12 DEF BootVfsReadFail
<1>13. CASE BootVfsDelete
  <2>1. krules' \in LiveRules
    BY NoRulesType, WrittenType, RulesAreLive, <1>13 DEF BootVfsDelete, AfterVfsFailure, Ledgers,
       Jobs
  <2>2. job' \in Jobs
    BY <1>13 DEF BootVfsDelete, AfterVfsFailure, Jobs, Dom, Rules, AnyUids
  <2> QED
    BY <1>13, <2>1, <2>2 DEF BootVfsDelete, AfterVfsFailure
<1>14. CASE BootVfsDeleteFail
  <2>1. krules' \in LiveRules
    BY NoRulesType, WrittenType, RulesAreLive, <1>14 DEF BootVfsDeleteFail, Ledgers, Jobs
  <2> QED
    BY <1>14, <2>1 DEF BootVfsDeleteFail
<1>15. CASE BootKsu
  <2>1. kmounts' \in SUBSET Mounts /\ kksu' \in SUBSET Mounts
    BY <1>15 DEF BootKsu, Ledgers, Jobs
  <2> QED
    BY <1>15, <2>1 DEF BootKsu
<1>16. CASE BootSave
  <2>1. runActive' \in SUBSET Keys
    BY <1>16 DEF BootSave, Jobs, Dom
  <2> QED
    BY <1>16, <2>1 DEF BootSave
<1>17. CASE BootCommit
  <2>1. job' \in Jobs
    BY <1>17 DEF BootCommit, Jobs, Dom, Rules, AnyUids
  <2> QED
    BY <1>17, <2>1 DEF BootCommit
<1>18. CASE BootRollback
  <2>1. krules' \in LiveRules
    BY NoRulesType, WrittenType, RulesAreLive, <1>18 DEF BootRollback, Ledgers, Jobs
  <2> QED
    BY <1>18, <2>1 DEF BootRollback
<1>19. CASE BootRollbackFail
  <2>1. krules' \in LiveRules
    BY NoRulesType, WrittenType, RulesAreLive, <1>19 DEF BootRollbackFail, Ledgers, Jobs
  <2>2. kmounts' \in SUBSET Mounts /\ kksu' \in SUBSET Mounts
    BY <1>19 DEF BootRollbackFail, Ledgers, Jobs
  <2>3. runActive' \in SUBSET Keys
    BY <1>19 DEF BootRollbackFail, Jobs, Dom
  <2> QED
    BY <1>19, <2>1, <2>2, <2>3 DEF BootRollbackFail
<1>20. CASE BootFinish
  <2>1. Finished \in Ledgers
    BY FinishedType DEF TypeOK, RunStates
  <2> QED
    BY <1>20, <2>1 DEF BootFinish
<1>21. CASE BootFinishFail
  <2>1. Finished \in Ledgers
    BY FinishedType DEF TypeOK, RunStates
  <2>2. ledger' \in Ledgers
    BY <1>21, <2>1 DEF BootFinishFail, SaveFails
  <2> QED
    BY <1>21, <2>2 DEF BootFinishFail, SaveFails
<1> QED
  BY <1>1, <1>2, <1>3, <1>4, <1>5, <1>6, <1>7, <1>8, <1>9, <1>10, <1>11, <1>12, <1>13, <1>14,
     <1>15, <1>16, <1>17, <1>18, <1>19, <1>20, <1>21 DEF BootStep

(* Every step of a hot operation keeps the types. *)
LEMMA HotType == TypeOK /\ HotStep => TypeOK'
<1> SUFFICES ASSUME TypeOK, HotStep PROVE TypeOK'
  OBVIOUS
<1> USE NoJobType, FaultType DEF TypeOK, Pcs, BootPcs, HotPcs, CleanPcs, Return, Goto, kernel,
   files, RunStates
<1>1. CASE HotIntent
  <2>1. Desired \in Rules
    BY <1>1 DEF HotIntent, Intent, Introduced, Desired, Ledgers, Jobs, Rules
  <2>2. ledger' \in Ledgers
    <3> DEFINE introduced == job.intro \ kuids
    <3>1. ledger.uids \cup introduced \in SUBSET Uids
      BY DEF Ledgers, Jobs
    <3>2. ledger' = [ledger EXCEPT !.phase = "applying", !.pending = Desired,
                                   !.uids = ledger.uids \cup introduced]
      BY <1>1 DEF HotIntent, Intent, Introduced, Ledgers
    <3> QED
      BY <2>1, <3>1, <3>2 DEF Ledgers, Phases
  <2>3. job' \in Jobs
    BY <1>1 DEF HotIntent, Intent, Introduced, Jobs, Dom, Rules, AnyUids
  <2> QED
    BY <1>1, <2>1, <2>2, <2>3 DEF HotIntent, Intent, Introduced
<1>2. CASE HotRefuse
  <2>1. Intent \in Ledgers
    BY DEF Intent, Introduced, Desired, Ledgers, Jobs, Rules, Phases
  <2>2. ledger' \in Ledgers
    BY <1>2, <2>1 DEF HotRefuse, SaveFails
  <2> QED
    BY <1>2, <2>2 DEF HotRefuse, SaveFails
<1>3. CASE HotAddUids
  <2>1. kuids' \in SUBSET AnyUids /\ mineUids' \in SUBSET Uids
    BY <1>3 DEF HotAddUids, Ledgers, Jobs, AnyUids
  <2> QED
    BY <1>3, <2>1 DEF HotAddUids
<1>4. CASE HotReconcile
  <2>1. krules' \in LiveRules
    BY NoRulesType, WrittenType, RulesAreLive, <1>4 DEF HotReconcile, Ledgers, Jobs
  <2>2. mine' \in SUBSET Keys
    BY <1>4 DEF HotReconcile, Ledgers, Jobs, Dom
  <2> QED
    BY <1>4, <2>1, <2>2 DEF HotReconcile
<1>5. CASE HotReconcileFail
  <2>1. krules' \in LiveRules
    BY <1>5 DEF HotReconcileFail, Mixed, Ledgers, Jobs, Rules, LiveRules, Dom
  <2>2. mine' \in SUBSET Keys
    BY <1>5 DEF HotReconcileFail, Mixed, Ledgers, Jobs, Dom
  <2> QED
    BY <1>5, <2>1, <2>2 DEF HotReconcileFail, Mixed
<1>6. CASE HotVerify
  <2>1. krules' \in LiveRules
    BY <1>6 DEF HotVerify, Mixed, Ledgers, Jobs, Rules, LiveRules, Dom
  <2>2. mine' \in SUBSET Keys
    BY <1>6 DEF HotVerify, Mixed, Ledgers, Jobs, Dom
  <2> QED
    BY <1>6, <2>1, <2>2 DEF HotVerify, Mixed
<1>7. CASE HotRecover
  <2>1. ledger' \in Ledgers
    <3>1. \/ ledger' = ledger
          \/ ledger' = [ledger EXCEPT !.phase = "ready", !.pending = NoRules,
                                      !.uids = ledger.uids \ job.intro]
          \/ ledger' = [ledger EXCEPT !.phase = "error"]
      BY <1>7 DEF HotRecover, Ledgers
    <3>2. ledger \in Ledgers /\ NoRules \in Rules /\ ledger.uids \ job.intro \in SUBSET Uids
      BY NoRulesType DEF Ledgers
    <3>3. {"ready", "error"} \subseteq Phases
      BY DEF Phases
    <3> QED
      BY ONLY <3>1, <3>2, <3>3 DEF Ledgers
  <2>2. kuids' \in SUBSET AnyUids /\ mineUids' \in SUBSET Uids
    BY <1>7 DEF HotRecover, Ledgers, Jobs, AnyUids
  <2> QED
    BY <1>7, <2>1, <2>2 DEF HotRecover
<1>8. CASE HotSync
  <2>1. ledger' \in Ledgers
    BY NoRulesType, FreshLedgerType, <1>8 DEF HotSync, SaveFails, Ledgers, Phases
  <2> QED
    BY <1>8, <2>1 DEF HotSync, SaveFails
<1>9. CASE HotSnapshot
  <2>1. runActive' \in SUBSET Keys
    BY <1>9 DEF HotSnapshot, Jobs, Dom
  <2> QED
    BY <1>9, <2>1 DEF HotSnapshot
<1>10. CASE HotReady
  <2>1. ledger' \in Ledgers
    BY NoRulesType, FreshLedgerType, <1>10 DEF HotReady, SaveFails, Ledgers, Phases
  <2> QED
    BY <1>10, <2>1 DEF HotReady, SaveFails
<1> QED
  BY <1>1, <1>2, <1>3, <1>4, <1>5, <1>6, <1>7, <1>8, <1>9, <1>10 DEF HotStep

(* Every step of prepare-reboot keeps the types. *)
LEMMA CleanType == TypeOK /\ CleanStep => TypeOK'
<1> SUFFICES ASSUME TypeOK, CleanStep PROVE TypeOK'
  OBVIOUS
<1> USE NoJobType, FaultType DEF TypeOK, Pcs, BootPcs, HotPcs, CleanPcs, Return, Goto, kernel,
   files, RunStates
<1>1. CASE CleanSkipRules
  BY <1>1 DEF CleanSkipRules
<1>2. CASE CleanArm
  BY <1>2 DEF CleanArm, Arm
<1>3. CASE CleanRefuse
  <2>1. guard' \in {"absent", "own", "foreign"}
    BY <1>3 DEF CleanRefuse, ArmFails
  <2> QED
    BY <1>3, <2>1 DEF CleanRefuse, ArmFails
<1>4. CASE CleanDelete
  <2>1. krules' \in LiveRules
    BY NoRulesType, WrittenType, RulesAreLive, <1>4 DEF CleanDelete, Ledgers, Jobs
  <2> QED
    BY <1>4, <2>1 DEF CleanDelete
<1>5. CASE CleanDeleteFail
  <2>1. krules' \in LiveRules
    BY NoRulesType, WrittenType, RulesAreLive, <1>5 DEF CleanDeleteFail, Ledgers, Jobs
  <2> QED
    BY <1>5, <2>1 DEF CleanDeleteFail
<1>6. CASE CleanUids
  <2>1. kuids' \in SUBSET AnyUids /\ mineUids' \in SUBSET Uids
    BY <1>6 DEF CleanUids, Ledgers, Jobs, AnyUids
  <2>2. guard' \in {"absent", "own", "foreign"}
    BY <1>6 DEF CleanUids
  <2> QED
    BY <1>6, <2>1, <2>2 DEF CleanUids
<1>7. CASE CleanSave
  <2>1. ledger' \in Ledgers
    BY NoRulesType, FreshLedgerType, <1>7 DEF CleanSave, SaveFails, Ledgers, Phases
  <2> QED
    BY <1>7, <2>1 DEF CleanSave, SaveFails
<1>8. CASE CleanMounts
  <2>1. kmounts' \in SUBSET Mounts /\ kksu' \in SUBSET Mounts
    BY <1>8 DEF CleanMounts, Ledgers, Jobs
  <2> QED
    BY <1>8, <2>1 DEF CleanMounts
<1>9. CASE CleanKsu
  <2>1. kmounts' \in SUBSET Mounts /\ kksu' \in SUBSET Mounts
    BY <1>9 DEF CleanKsu, Ledgers, Jobs
  <2> QED
    BY <1>9, <2>1 DEF CleanKsu
<1>10. CASE CleanRelease
  <2>1. ledger' \in Ledgers
    BY NoRulesType, FreshLedgerType, <1>10 DEF CleanRelease, SaveFails, Ledgers, Phases
  <2> QED
    BY <1>10, <2>1 DEF CleanRelease, SaveFails
<1>11. CASE CleanDone
  <2>1. ledger' \in Ledgers
    BY NoRulesType, FreshLedgerType, <1>11 DEF CleanDone, SaveFails, Ledgers, Phases
  <2> QED
    BY <1>11, <2>1 DEF CleanDone, SaveFails
<1>12. CASE CleanSnap
  <2>1. runActive' \in SUBSET Keys
    BY <1>12 DEF CleanSnap, Jobs, Dom
  <2> QED
    BY <1>12, <2>1 DEF CleanSnap
<1> QED
  BY <1>1, <1>2, <1>3, <1>4, <1>5, <1>6, <1>7, <1>8, <1>9, <1>10, <1>11, <1>12 DEF CleanStep

(* Starting an operation keeps the types. *)
LEMMA CommandType == TypeOK /\ Command => TypeOK'
<1> SUFFICES ASSUME TypeOK, Command PROVE TypeOK'
  OBVIOUS
<1> USE NoJobType, FaultType DEF TypeOK, Pcs, BootPcs, HotPcs, CleanPcs, Return, Goto, kernel,
   files, RunStates
<1>1. CASE BootStart
  <2>1. ledger' \in Ledgers
    BY NoRulesType, FreshLedgerType, <1>1 DEF BootStart, LedgerForBoot, Ledgers, Phases,
       UntrackedUids
  <2>2. job' \in Jobs
    BY <1>1 DEF BootStart, LedgerForBoot, Jobs, Dom, Rules, AnyUids, UntrackedUids
  <2> QED
    BY <1>1, <2>1, <2>2 DEF BootStart, LedgerForBoot, UntrackedUids
<1>2. CASE CleanStart
  <2>1. ledger' \in Ledgers
    BY NoRulesType, FreshLedgerType, <1>2 DEF CleanStart, Ledgers, Phases
  <2> QED
    BY <1>2, <2>1 DEF CleanStart
<1>3. CASE CleanNothing
  BY <1>3 DEF CleanNothing
<1>4. ASSUME NEW m \in ModuleIds, NEW after \in Rules, NEW requested \in SUBSET Uids,
            HotStart(m, after, requested)
     PROVE  TypeOK'
  <2>1. job' \in Jobs
    BY <1>4 DEF HotStart, Jobs, Dom, Rules, AnyUids, Arm
  <2> QED
    BY <1>4, <2>1 DEF HotStart, Arm
<1>5. ASSUME NEW m \in ModuleIds, NEW after \in Rules, NEW requested \in SUBSET Uids,
            HotArmFail(m, after, requested)
     PROVE  TypeOK'
  <2>1. guard' \in {"absent", "own", "foreign"}
    BY <1>5 DEF HotArmFail, ArmFails
  <2> QED
    BY <1>5, <2>1 DEF HotArmFail, ArmFails
<1> QED
  BY <1>1, <1>2, <1>3, <1>4, <1>5 DEF Command

(* Crashes, reboots, the user and other writers keep the types. *)
LEMMA EnvironmentType == TypeOK /\ Environment => TypeOK'
<1> SUFFICES ASSUME TypeOK, Environment PROVE TypeOK'
  OBVIOUS
<1> USE NoJobType, FaultType DEF TypeOK, Pcs, BootPcs, HotPcs, CleanPcs, Return, Goto, kernel,
   files, RunStates
<1>1. CASE Crash
  BY <1>1 DEF Crash
<1>2. CASE Reboot
  <2>1. ledger' \in Ledgers
    BY NoRulesType, FreshLedgerType, <1>2 DEF Reboot, FreshLedger, Ledgers, Phases
  <2>2. krules' \in LiveRules
    BY NoRulesType, WrittenType, RulesAreLive, <1>2 DEF Reboot, FreshLedger, Ledgers, Jobs
  <2> QED
    BY <1>2, <2>1, <2>2 DEF Reboot, FreshLedger
<1>3. CASE GuardClear
  BY <1>3 DEF GuardClear
<1>4. CASE GuardUpgrade
  BY <1>4 DEF GuardUpgrade
<1>5. ASSUME NEW k \in Keys,
            ExtDel(k)
     PROVE  TypeOK'
  <2>1. krules' \in LiveRules
    BY <1>5 DEF ExtDel, Ledgers, Jobs, Rules, LiveRules, Dom
  <2>2. mine' \in SUBSET Keys
    BY <1>5 DEF ExtDel, Ledgers, Jobs, Dom
  <2> QED
    BY <1>5, <2>1, <2>2 DEF ExtDel
<1>6. ASSUME NEW k \in Keys, NEW v \in ExtVals,
            ExtPut(k, v)
     PROVE  TypeOK'
  <2>1. krules' \in LiveRules
    BY <1>6 DEF ExtPut, Ledgers, Jobs, Rules, LiveRules, Dom
  <2>2. mine' \in SUBSET Keys
    BY <1>6 DEF ExtPut, Ledgers, Jobs, Dom
  <2> QED
    BY <1>6, <2>1, <2>2 DEF ExtPut
<1>7. ASSUME NEW u \in ExtUids,
            ExtAddUid(u)
     PROVE  TypeOK'
  <2>1. kuids' \in SUBSET AnyUids /\ mineUids' \in SUBSET Uids
    BY <1>7 DEF ExtAddUid, Ledgers, Jobs, AnyUids
  <2> QED
    BY <1>7, <2>1 DEF ExtAddUid
<1>8. ASSUME NEW u \in Uids \cup ExtUids,
            ExtDelUid(u)
     PROVE  TypeOK'
  <2>1. kuids' \in SUBSET AnyUids /\ mineUids' \in SUBSET Uids
    BY <1>8 DEF ExtDelUid, Ledgers, Jobs, AnyUids
  <2> QED
    BY <1>8, <2>1 DEF ExtDelUid
<1> QED
  BY <1>1, <1>2, <1>3, <1>4, <1>5, <1>6, <1>7, <1>8 DEF Environment

LEMMA TypeStep == TypeOK /\ [Next]_vars => TypeOK'
<1> SUFFICES ASSUME TypeOK, [Next]_vars PROVE TypeOK'
  OBVIOUS
<1>1. CASE UNCHANGED vars
  BY <1>1 DEF TypeOK, vars, RunStates
<1> QED
  BY <1>1, BootType, HotType, CleanType, CommandType, EnvironmentType DEF Next

(* The ledger, the marker, the run state, the kernel tables and the locals of the
   running operation always have the shape the code gives them. *)
THEOREM TypeCorrect == Spec => []TypeOK
  BY TypeStep, InitType, PTL DEF Spec

-----------------------------------------------------------------------------

(* Which phase is on disk while an operation is at a step, and which parts of the
   ledger an operation has already emptied or not filled yet. *)
PhaseInv ==
  /\ ledger.phase = "clean" => RequireClean(ledger)
  /\ pc # "idle" => ledger.current
  /\ ~ledger.current => ledger.phase = "clean"
  /\ pc \in BootPcs => ledger.phase = "applying" /\ ledger.rules = NoRules
  /\ pc = "intent" => ledger.phase = "ready"
  /\ pc \in {"uids", "rules", "verify", "recover", "sync"} =>
       ledger.phase = "applying" /\ ledger.pending = Desired
  /\ pc \in {"snapshot", "hotready"} => ledger.phase = "syncing"
  /\ pc \in CleanPcs \ {"csnap"} => ledger.phase = "cleaning"
  /\ pc \in {"cmounts", "cksu", "crelease", "cdone"} =>
       ledger.rules = NoRules /\ ledger.uids = {}
  /\ pc = "cdone" => ledger.mounts = {} /\ ledger.ksu = {}
  /\ pc = "csnap" => ledger.phase = "clean"
  /\ pc \in {"intent", "uids", "rules", "verify", "recover"} =>
       job.before \subseteq Dom(ledger.rules)

(* How far the live rules have got at each step. *)
RulesInv ==
  /\ RulesRecorded
  /\ \A k \in mine : krules[k] # None
  /\ pc \in {"plan", "mount", "vfs", "cuids", "csave"} => mine = {}
  /\ pc \in {"vfsread", "vfsdel"} => mine \subseteq job.reg
  /\ pc \in {"plan", "mount", "vfs", "vfsread", "vfsdel"} => job.active = {}
  /\ pc \in {"ksu", "save", "commit"} => mine \subseteq job.active
  /\ pc \in BootPcs /\ job.ok => pc = "finish" /\ mine \subseteq runActive
  /\ pc = "commit" => runActive = job.active
  /\ pc \in {"uids", "rules"} => \A k \in mine : krules[k] = ledger.rules[k]
  /\ pc \in {"verify", "sync"} => \A k \in mine : krules[k] = ledger.pending[k]

MountsInv ==
  /\ MountsRecorded
  /\ pc \in HotPcs => kmounts \subseteq ledger.mounts /\ kksu \subseteq ledger.ksu
  /\ pc = "plan" => kmounts = {} /\ kksu = {}
  /\ pc \in BootPcs => kmounts \subseteq job.eff
  /\ pc \in {"cksu", "crelease"} => kmounts = {}
  /\ pc = "crelease" => kksu = {}

UidsInv ==
  Provider = "hm" =>
    /\ mineUids \subseteq ledger.uids /\ mineUids \subseteq kuids
    /\ pc = "plan" => mineUids = {}
    /\ pc \in BootPcs => job.orig \subseteq kuids /\ mineUids \cap job.orig = {}
    /\ pc = "uids" => job.intro \subseteq ledger.uids
    /\ pc = "csave" => mineUids = {}

(* The UIDs a hot operation introduces are isolated from its first rule on. *)
IsolationInv ==
  /\ IsolatedBeforePublished
  /\ pc \in {"rules", "verify", "sync"} => job.intro \subseteq kuids

Inv == TypeOK /\ PhaseInv /\ RulesInv /\ MountsInv /\ UidsInv /\ IsolationInv

(* Nothing is live and nothing is recorded at the start. *)
LEMMA InitInv == Init => Inv
<1> SUFFICES ASSUME Init PROVE Inv
  OBVIOUS
<1>1. TypeOK
  BY InitType
<1>2. PhaseInv
  BY DEF Init, PhaseInv, FreshLedger, RequireClean, BootPcs, CleanPcs
<1>3. RulesInv
  BY DEF Init, RulesInv, RulesRecorded, BootPcs
<1>4. MountsInv /\ UidsInv /\ IsolationInv
  BY DEF Init, MountsInv, UidsInv, IsolationInv, IsolatedBeforePublished, MountsRecorded,
         BootPcs, HotPcs, FreshLedger
<1> QED
  BY <1>1, <1>2, <1>3, <1>4 DEF Inv

(* Every step keeps the phase discipline. *)
LEMMA PhaseStep ==
  TypeOK /\ PhaseInv /\ [Next]_vars => PhaseInv'
<1> SUFFICES ASSUME TypeOK, PhaseInv, [Next]_vars PROVE PhaseInv'
  OBVIOUS
<1> USE DEF TypeOK, PhaseInv, Ledgers, Jobs, Return, Goto, kernel, files, Pcs, BootPcs, HotPcs,
   CleanPcs,
           RequireClean, Desired, Affected, Dom, RunStates
<1>1. CASE BootStep
  <2>1. ASSUME NEW plan \in Rules, NEW requested \in SUBSET Uids,
               BootPlan(plan, requested)
        PROVE  PhaseInv'
    BY <2>1 DEF BootPlan, FromPlan
  <2>2. CASE BootPlanFail
    BY <2>2 DEF BootPlanFail, StartupFailure
  <2>3. ASSUME NEW t \in Mounts,
               BootMount(t)
        PROVE  PhaseInv'
    BY <2>3 DEF BootMount
  <2>4. CASE BootMountFail
    BY <2>4 DEF BootMountFail
  <2>5. CASE BootVfsSkip
    BY <2>5 DEF BootVfsSkip
  <2>6. CASE BootVfsArm
    BY <2>6 DEF BootVfsArm, Arm
  <2>7. CASE BootVfsArmFail
    BY <2>7 DEF BootVfsArmFail
  <2>8. CASE BootVfsRefuse
    BY <2>8 DEF BootVfsRefuse, AfterVfsFailure
  <2>9. CASE BootVfsApply
    BY <2>9 DEF BootVfsApply
  <2>10. CASE BootVfsApplyFail
    BY <2>10 DEF BootVfsApplyFail
  <2>11. CASE BootVfsRead
    BY <2>11 DEF BootVfsRead, ReadBack
  <2>12. CASE BootVfsReadFail
    BY <2>12 DEF BootVfsReadFail
  <2>13. CASE BootVfsDelete
    BY <2>13 DEF BootVfsDelete, AfterVfsFailure
  <2>14. CASE BootVfsDeleteFail
    BY <2>14 DEF BootVfsDeleteFail
  <2>15. CASE BootKsu
    BY <2>15 DEF BootKsu
  <2>16. CASE BootSave
    BY <2>16 DEF BootSave
  <2>17. CASE BootCommit
    BY <2>17 DEF BootCommit
  <2>18. CASE BootRollback
    BY <2>18 DEF BootRollback
  <2>19. CASE BootRollbackFail
    BY <2>19 DEF BootRollbackFail
  <2>20. CASE BootFinish
    BY <2>20 DEF BootFinish, Finished, OwnedUids, Confirmed
  <2>21. CASE BootFinishFail
    <3>1. CASE ledger' = ledger
      BY <2>21, <3>1 DEF BootFinishFail
    <3>2. CASE ledger' = Finished
      BY <2>21, <3>2 DEF BootFinishFail, Finished, OwnedUids, Confirmed
    <3> QED
      BY <2>21, <3>1, <3>2 DEF BootFinishFail, SaveFails
  <2> QED
    BY <1>1, <2>1, <2>2, <2>3, <2>4, <2>5, <2>6, <2>7, <2>8, <2>9, <2>10, <2>11, <2>12, <2>13,
       <2>14, <2>15, <2>16, <2>17, <2>18, <2>19, <2>20, <2>21 DEF BootStep
<1>2. CASE HotStep
  <2>1. CASE HotIntent
    BY <2>1 DEF HotIntent, Intent, Introduced
  <2>2. CASE HotRefuse
    <3>1. CASE ledger' = ledger
      BY <2>2, <3>1 DEF HotRefuse
    <3>2. CASE ledger' = Intent
      BY <2>2, <3>2 DEF HotRefuse, Intent, Introduced
    <3> QED
      BY <2>2, <3>1, <3>2 DEF HotRefuse, SaveFails
  <2>3. CASE HotAddUids
    BY <2>3 DEF HotAddUids
  <2>4. CASE HotReconcile
    BY <2>4 DEF HotReconcile
  <2>5. CASE HotReconcileFail
    BY <2>5 DEF HotReconcileFail, Mixed
  <2>6. CASE HotVerify
    BY <2>6 DEF HotVerify, Mixed
  <2>7. CASE HotRecover
    BY <2>7 DEF HotRecover, RulesRecovered, OwnedLive, Mixed
  <2>8. CASE HotSync
    <3>1. CASE ledger' = ledger /\ Return
      BY <2>8, <3>1 DEF HotSync
    <3>2. CASE ledger' = [ledger EXCEPT !.phase = "syncing", !.rules = ledger.pending,
                                     !.pending = NoRules] /\ pc' \in {"snapshot", "idle"}
      BY <2>8, <3>2 DEF HotSync
    <3> QED
      BY ONLY <2>8, <3>1, <3>2 DEF HotSync, SaveFails, Return, Goto
  <2>9. CASE HotSnapshot
    BY <2>9 DEF HotSnapshot
  <2>10. CASE HotReady
    BY <2>10 DEF HotReady, SaveFails
  <2> QED
    BY <1>2, <2>1, <2>2, <2>3, <2>4, <2>5, <2>6, <2>7, <2>8, <2>9, <2>10 DEF HotStep
<1>3. CASE CleanStep
  <2>1. CASE CleanSkipRules
    BY <2>1 DEF CleanSkipRules, OwnsVfs
  <2>2. CASE CleanArm
    BY <2>2 DEF CleanArm, Arm
  <2>3. CASE CleanRefuse
    BY <2>3 DEF CleanRefuse
  <2>4. CASE CleanDelete
    BY <2>4 DEF CleanDelete
  <2>5. CASE CleanDeleteFail
    BY <2>5 DEF CleanDeleteFail
  <2>6. CASE CleanUids
    BY <2>6 DEF CleanUids
  <2>7. CASE CleanSave
    <3>1. CASE ledger' = ledger /\ Return
      BY <2>7, <3>1 DEF CleanSave
    <3>2. CASE ledger' = [ledger EXCEPT !.rules = NoRules, !.uids = {}] /\ pc' \in {"cmounts", "idle"}
      BY <2>7, <3>2 DEF CleanSave
    <3> QED
      BY ONLY <2>7, <3>1, <3>2 DEF CleanSave, SaveFails, Return, Goto
  <2>8. CASE CleanMounts
    BY <2>8 DEF CleanMounts
  <2>9. CASE CleanKsu
    BY <2>9 DEF CleanKsu
  <2>10. CASE CleanRelease
    <3>1. CASE ledger' = ledger /\ Return
      BY <2>10, <3>1 DEF CleanRelease
    <3>2. CASE ledger' = [ledger EXCEPT !.mounts = {}, !.ksu = {}] /\ pc' \in {"cdone", "idle"}
      BY <2>10, <3>2 DEF CleanRelease
    <3> QED
      BY ONLY <2>10, <3>1, <3>2 DEF CleanRelease, SaveFails, Return, Goto
  <2>11. CASE CleanDone
    BY <2>11 DEF CleanDone, SaveFails
  <2>12. CASE CleanSnap
    BY <2>12 DEF CleanSnap
  <2> QED
    BY <1>3, <2>1, <2>2, <2>3, <2>4, <2>5, <2>6, <2>7, <2>8, <2>9, <2>10, <2>11, <2>12 DEF CleanStep
<1>4. CASE Command
  <2>1. CASE BootStart
    BY <2>1 DEF BootStart, LedgerForBoot, FreshLedger, NoJob, UntrackedUids
  <2>2. CASE CleanStart
    BY <2>2 DEF CleanStart
  <2>3. CASE CleanNothing
    BY <2>3 DEF CleanNothing, LedgerForBoot, FreshLedger
  <2>4. ASSUME NEW m \in ModuleIds, NEW after \in Rules, NEW requested \in SUBSET Uids,
               HotStart(m, after, requested)
        PROVE  PhaseInv'
    BY <2>4 DEF HotStart, HotAccepted, NoJob, RequireReady, Unblocked, Arm
  <2>5. ASSUME NEW m \in ModuleIds, NEW after \in Rules, NEW requested \in SUBSET Uids,
               HotArmFail(m, after, requested)
        PROVE  PhaseInv'
    BY <2>5 DEF HotArmFail, HotAccepted, RequireReady, Unblocked
  <2> QED
    BY <1>4, <2>1, <2>2, <2>3, <2>4, <2>5 DEF Command
<1>5. CASE Environment
  <2>1. CASE Crash
    BY <2>1 DEF Crash
  <2>2. CASE Reboot
    BY <2>2 DEF Reboot, FreshLedger, NoJob
  <2>3. CASE GuardClear
    BY <2>3 DEF GuardClear
  <2>4. CASE GuardUpgrade
    BY <2>4 DEF GuardUpgrade
  <2>5. ASSUME NEW k \in Keys,
               ExtDel(k)
        PROVE  PhaseInv'
    BY <2>5 DEF ExtDel
  <2>6. ASSUME NEW k \in Keys, NEW v \in ExtVals,
               ExtPut(k, v)
        PROVE  PhaseInv'
    BY <2>6 DEF ExtPut
  <2>7. ASSUME NEW u \in ExtUids,
               ExtAddUid(u)
        PROVE  PhaseInv'
    BY <2>7 DEF ExtAddUid
  <2>8. ASSUME NEW u \in Uids \cup ExtUids,
               ExtDelUid(u)
        PROVE  PhaseInv'
    BY <2>8 DEF ExtDelUid
  <2> QED
    BY <1>5, <2>1, <2>2, <2>3, <2>4, <2>5, <2>6, <2>7, <2>8 DEF Environment
<1>6. CASE UNCHANGED vars
  BY <1>6 DEF vars, Desired, Affected
<1> QED
  BY <1>1, <1>2, <1>3, <1>4, <1>5, <1>6 DEF Next

(* Every step keeps mounts and registrations recorded. *)
LEMMA MountsStep ==
  TypeOK /\ PhaseInv /\ MountsInv /\ [Next]_vars => MountsInv'
<1> SUFFICES ASSUME TypeOK, PhaseInv, MountsInv, [Next]_vars PROVE MountsInv'
  OBVIOUS
<1> USE DEF TypeOK, PhaseInv, MountsInv, MountsRecorded, Ledgers, Jobs, Return, Goto, kernel, files,
           Pcs, BootPcs, HotPcs, CleanPcs, RequireClean, RunStates
<1>1. CASE BootStep
  <2>1. ASSUME NEW plan \in Rules, NEW requested \in SUBSET Uids,
               BootPlan(plan, requested)
        PROVE  MountsInv'
    BY <2>1 DEF BootPlan, FromPlan
  <2>2. CASE BootPlanFail
    BY <2>2 DEF BootPlanFail, StartupFailure
  <2>3. ASSUME NEW t \in Mounts,
               BootMount(t)
        PROVE  MountsInv'
    BY <2>3 DEF BootMount
  <2>4. CASE BootMountFail
    BY <2>4 DEF BootMountFail
  <2>5. CASE BootVfsSkip
    BY <2>5 DEF BootVfsSkip
  <2>6. CASE BootVfsArm
    BY <2>6 DEF BootVfsArm, Arm
  <2>7. CASE BootVfsArmFail
    BY <2>7 DEF BootVfsArmFail
  <2>8. CASE BootVfsRefuse
    BY <2>8 DEF BootVfsRefuse, AfterVfsFailure
  <2>9. CASE BootVfsApply
    BY <2>9 DEF BootVfsApply
  <2>10. CASE BootVfsApplyFail
    BY <2>10 DEF BootVfsApplyFail
  <2>11. CASE BootVfsRead
    BY <2>11 DEF BootVfsRead, ReadBack
  <2>12. CASE BootVfsReadFail
    BY <2>12 DEF BootVfsReadFail
  <2>13. CASE BootVfsDelete
    BY <2>13 DEF BootVfsDelete, AfterVfsFailure
  <2>14. CASE BootVfsDeleteFail
    BY <2>14 DEF BootVfsDeleteFail
  <2>15. CASE BootKsu
    BY <2>15 DEF BootKsu
  <2>16. CASE BootSave
    BY <2>16 DEF BootSave
  <2>17. CASE BootCommit
    BY <2>17 DEF BootCommit
  <2>18. CASE BootRollback
    BY <2>18 DEF BootRollback
  <2>19. CASE BootRollbackFail
    BY <2>19 DEF BootRollbackFail
  <2>20. CASE BootFinish
    BY <2>20 DEF BootFinish, Finished, OwnedUids, Confirmed
  <2>21. CASE BootFinishFail
    <3>1. CASE ledger' = ledger
      BY <2>21, <3>1 DEF BootFinishFail
    <3>2. CASE ledger' = Finished
      BY <2>21, <3>2 DEF BootFinishFail, Finished, OwnedUids, Confirmed
    <3> QED
      BY <2>21, <3>1, <3>2 DEF BootFinishFail, SaveFails
  <2> QED
    BY <1>1, <2>1, <2>2, <2>3, <2>4, <2>5, <2>6, <2>7, <2>8, <2>9, <2>10, <2>11, <2>12, <2>13,
       <2>14, <2>15, <2>16, <2>17, <2>18, <2>19, <2>20, <2>21 DEF BootStep
<1>2. CASE HotStep
  <2>1. CASE HotIntent
    BY <2>1 DEF HotIntent, Intent, Introduced
  <2>2. CASE HotRefuse
    <3>1. CASE ledger' = ledger
      BY <2>2, <3>1 DEF HotRefuse
    <3>2. CASE ledger' = Intent
      BY <2>2, <3>2 DEF HotRefuse, Intent, Introduced
    <3> QED
      BY <2>2, <3>1, <3>2 DEF HotRefuse, SaveFails
  <2>3. CASE HotAddUids
    BY <2>3 DEF HotAddUids
  <2>4. CASE HotReconcile
    BY <2>4 DEF HotReconcile
  <2>5. CASE HotReconcileFail
    BY <2>5 DEF HotReconcileFail, Mixed
  <2>6. CASE HotVerify
    BY <2>6 DEF HotVerify, Mixed
  <2>7. CASE HotRecover
    BY <2>7 DEF HotRecover, RulesRecovered, OwnedLive, Mixed
  <2>8. CASE HotSync
    BY <2>8 DEF HotSync, SaveFails
  <2>9. CASE HotSnapshot
    BY <2>9 DEF HotSnapshot
  <2>10. CASE HotReady
    BY <2>10 DEF HotReady, SaveFails
  <2> QED
    BY <1>2, <2>1, <2>2, <2>3, <2>4, <2>5, <2>6, <2>7, <2>8, <2>9, <2>10 DEF HotStep
<1>3. CASE CleanStep
  <2>1. CASE CleanSkipRules
    BY <2>1 DEF CleanSkipRules, OwnsVfs
  <2>2. CASE CleanArm
    BY <2>2 DEF CleanArm, Arm
  <2>3. CASE CleanRefuse
    BY <2>3 DEF CleanRefuse
  <2>4. CASE CleanDelete
    BY <2>4 DEF CleanDelete
  <2>5. CASE CleanDeleteFail
    BY <2>5 DEF CleanDeleteFail
  <2>6. CASE CleanUids
    BY <2>6 DEF CleanUids
  <2>7. CASE CleanSave
    BY <2>7 DEF CleanSave, SaveFails
  <2>8. CASE CleanMounts
    BY <2>8 DEF CleanMounts
  <2>9. CASE CleanKsu
    BY <2>9 DEF CleanKsu
  <2>10. CASE CleanRelease
    BY <2>10 DEF CleanRelease, SaveFails
  <2>11. CASE CleanDone
    BY <2>11 DEF CleanDone, SaveFails
  <2>12. CASE CleanSnap
    BY <2>12 DEF CleanSnap
  <2> QED
    BY <1>3, <2>1, <2>2, <2>3, <2>4, <2>5, <2>6, <2>7, <2>8, <2>9, <2>10, <2>11, <2>12 DEF CleanStep
<1>4. CASE Command
  <2>1. CASE BootStart
    BY <2>1 DEF BootStart, LedgerForBoot, FreshLedger, NoJob, UntrackedUids
  <2>2. CASE CleanStart
    BY <2>2 DEF CleanStart
  <2>3. CASE CleanNothing
    BY <2>3 DEF CleanNothing, LedgerForBoot, FreshLedger
  <2>4. ASSUME NEW m \in ModuleIds, NEW after \in Rules, NEW requested \in SUBSET Uids,
               HotStart(m, after, requested)
        PROVE  MountsInv'
    BY <2>4 DEF HotStart, HotAccepted, NoJob, RequireReady, Unblocked, Arm
  <2>5. ASSUME NEW m \in ModuleIds, NEW after \in Rules, NEW requested \in SUBSET Uids,
               HotArmFail(m, after, requested)
        PROVE  MountsInv'
    BY <2>5 DEF HotArmFail, HotAccepted, RequireReady, Unblocked
  <2> QED
    BY <1>4, <2>1, <2>2, <2>3, <2>4, <2>5 DEF Command
<1>5. CASE Environment
  <2>1. CASE Crash
    BY <2>1 DEF Crash
  <2>2. CASE Reboot
    BY <2>2 DEF Reboot, FreshLedger, NoJob
  <2>3. CASE GuardClear
    BY <2>3 DEF GuardClear
  <2>4. CASE GuardUpgrade
    BY <2>4 DEF GuardUpgrade
  <2>5. ASSUME NEW k \in Keys,
               ExtDel(k)
        PROVE  MountsInv'
    BY <2>5 DEF ExtDel
  <2>6. ASSUME NEW k \in Keys, NEW v \in ExtVals,
               ExtPut(k, v)
        PROVE  MountsInv'
    BY <2>6 DEF ExtPut
  <2>7. ASSUME NEW u \in ExtUids,
               ExtAddUid(u)
        PROVE  MountsInv'
    BY <2>7 DEF ExtAddUid
  <2>8. ASSUME NEW u \in Uids \cup ExtUids,
               ExtDelUid(u)
        PROVE  MountsInv'
    BY <2>8 DEF ExtDelUid
  <2> QED
    BY <1>5, <2>1, <2>2, <2>3, <2>4, <2>5, <2>6, <2>7, <2>8 DEF Environment
<1>6. CASE UNCHANGED vars
  BY <1>6 DEF vars
<1> QED
  BY <1>1, <1>2, <1>3, <1>4, <1>5, <1>6 DEF Next

(* Every step keeps the isolated UIDs recorded. *)
LEMMA UidsStep ==
  TypeOK /\ PhaseInv /\ UidsInv /\ [Next]_vars => UidsInv'
<1> SUFFICES ASSUME TypeOK, PhaseInv, UidsInv, [Next]_vars PROVE UidsInv'
  OBVIOUS
<1> USE DEF TypeOK, PhaseInv, UidsInv, Ledgers, Jobs, Return, Goto, kernel, files, Pcs, BootPcs,
   HotPcs, CleanPcs,
           RequireClean, RunStates
<1>1. CASE BootStep
  <2>1. ASSUME NEW plan \in Rules, NEW requested \in SUBSET Uids,
               BootPlan(plan, requested)
        PROVE  UidsInv'
    BY <2>1 DEF BootPlan, FromPlan
  <2>2. CASE BootPlanFail
    BY <2>2 DEF BootPlanFail, StartupFailure
  <2>3. ASSUME NEW t \in Mounts,
               BootMount(t)
        PROVE  UidsInv'
    BY <2>3 DEF BootMount
  <2>4. CASE BootMountFail
    BY <2>4 DEF BootMountFail
  <2>5. CASE BootVfsSkip
    BY <2>5 DEF BootVfsSkip
  <2>6. CASE BootVfsArm
    BY <2>6 DEF BootVfsArm, Arm
  <2>7. CASE BootVfsArmFail
    BY <2>7 DEF BootVfsArmFail
  <2>8. CASE BootVfsRefuse
    BY <2>8 DEF BootVfsRefuse, AfterVfsFailure
  <2>9. CASE BootVfsApply
    BY <2>9 DEF BootVfsApply
  <2>10. CASE BootVfsApplyFail
    BY <2>10 DEF BootVfsApplyFail
  <2>11. CASE BootVfsRead
    BY <2>11 DEF BootVfsRead, ReadBack
  <2>12. CASE BootVfsReadFail
    BY <2>12 DEF BootVfsReadFail
  <2>13. CASE BootVfsDelete
    BY <2>13 DEF BootVfsDelete, AfterVfsFailure
  <2>14. CASE BootVfsDeleteFail
    BY <2>14 DEF BootVfsDeleteFail
  <2>15. CASE BootKsu
    BY <2>15 DEF BootKsu
  <2>16. CASE BootSave
    BY <2>16 DEF BootSave
  <2>17. CASE BootCommit
    BY <2>17 DEF BootCommit
  <2>18. CASE BootRollback
    BY <2>18 DEF BootRollback
  <2>19. CASE BootRollbackFail
    BY <2>19 DEF BootRollbackFail
  <2>20. CASE BootFinish
    BY <2>20 DEF BootFinish, Finished, OwnedUids, Confirmed
  <2>21. CASE BootFinishFail
    <3>1. CASE ledger' = ledger
      BY <2>21, <3>1 DEF BootFinishFail
    <3>2. CASE ledger' = Finished
      BY <2>21, <3>2 DEF BootFinishFail, Finished, OwnedUids, Confirmed
    <3> QED
      BY <2>21, <3>1, <3>2 DEF BootFinishFail, SaveFails
  <2> QED
    BY <1>1, <2>1, <2>2, <2>3, <2>4, <2>5, <2>6, <2>7, <2>8, <2>9, <2>10, <2>11, <2>12, <2>13,
       <2>14, <2>15, <2>16, <2>17, <2>18, <2>19, <2>20, <2>21 DEF BootStep
<1>2. CASE HotStep
  <2>1. CASE HotIntent
    BY <2>1 DEF HotIntent, Intent, Introduced
  <2>2. CASE HotRefuse
    <3>1. CASE ledger' = ledger
      BY <2>2, <3>1 DEF HotRefuse
    <3>2. CASE ledger' = Intent
      BY <2>2, <3>2 DEF HotRefuse, Intent, Introduced
    <3> QED
      BY <2>2, <3>1, <3>2 DEF HotRefuse, SaveFails
  <2>3. CASE HotAddUids
    BY <2>3 DEF HotAddUids
  <2>4. CASE HotReconcile
    BY <2>4 DEF HotReconcile
  <2>5. CASE HotReconcileFail
    BY <2>5 DEF HotReconcileFail, Mixed
  <2>6. CASE HotVerify
    BY <2>6 DEF HotVerify, Mixed
  <2>7. CASE HotRecover
    BY <2>7 DEF HotRecover, RulesRecovered, OwnedLive, Mixed
  <2>8. CASE HotSync
    BY <2>8 DEF HotSync, SaveFails
  <2>9. CASE HotSnapshot
    BY <2>9 DEF HotSnapshot
  <2>10. CASE HotReady
    BY <2>10 DEF HotReady, SaveFails
  <2> QED
    BY <1>2, <2>1, <2>2, <2>3, <2>4, <2>5, <2>6, <2>7, <2>8, <2>9, <2>10 DEF HotStep
<1>3. CASE CleanStep
  <2>1. CASE CleanSkipRules
    BY <2>1 DEF CleanSkipRules, OwnsVfs
  <2>2. CASE CleanArm
    BY <2>2 DEF CleanArm, Arm
  <2>3. CASE CleanRefuse
    BY <2>3 DEF CleanRefuse
  <2>4. CASE CleanDelete
    BY <2>4 DEF CleanDelete
  <2>5. CASE CleanDeleteFail
    BY <2>5 DEF CleanDeleteFail
  <2>6. CASE CleanUids
    BY <2>6 DEF CleanUids
  <2>7. CASE CleanSave
    BY <2>7 DEF CleanSave, SaveFails
  <2>8. CASE CleanMounts
    BY <2>8 DEF CleanMounts
  <2>9. CASE CleanKsu
    BY <2>9 DEF CleanKsu
  <2>10. CASE CleanRelease
    BY <2>10 DEF CleanRelease, SaveFails
  <2>11. CASE CleanDone
    BY <2>11 DEF CleanDone, SaveFails
  <2>12. CASE CleanSnap
    BY <2>12 DEF CleanSnap
  <2> QED
    BY <1>3, <2>1, <2>2, <2>3, <2>4, <2>5, <2>6, <2>7, <2>8, <2>9, <2>10, <2>11, <2>12 DEF CleanStep
<1>4. CASE Command
  <2>1. CASE BootStart
    BY <2>1 DEF BootStart, LedgerForBoot, FreshLedger, NoJob, UntrackedUids
  <2>2. CASE CleanStart
    BY <2>2 DEF CleanStart
  <2>3. CASE CleanNothing
    BY <2>3 DEF CleanNothing, LedgerForBoot, FreshLedger
  <2>4. ASSUME NEW m \in ModuleIds, NEW after \in Rules, NEW requested \in SUBSET Uids,
               HotStart(m, after, requested)
        PROVE  UidsInv'
    BY <2>4 DEF HotStart, HotAccepted, NoJob, RequireReady, Unblocked, Arm
  <2>5. ASSUME NEW m \in ModuleIds, NEW after \in Rules, NEW requested \in SUBSET Uids,
               HotArmFail(m, after, requested)
        PROVE  UidsInv'
    BY <2>5 DEF HotArmFail, HotAccepted, RequireReady, Unblocked
  <2> QED
    BY <1>4, <2>1, <2>2, <2>3, <2>4, <2>5 DEF Command
<1>5. CASE Environment
  <2>1. CASE Crash
    BY <2>1 DEF Crash
  <2>2. CASE Reboot
    BY <2>2 DEF Reboot, FreshLedger, NoJob
  <2>3. CASE GuardClear
    BY <2>3 DEF GuardClear
  <2>4. CASE GuardUpgrade
    BY <2>4 DEF GuardUpgrade
  <2>5. ASSUME NEW k \in Keys,
               ExtDel(k)
        PROVE  UidsInv'
    BY <2>5 DEF ExtDel
  <2>6. ASSUME NEW k \in Keys, NEW v \in ExtVals,
               ExtPut(k, v)
        PROVE  UidsInv'
    BY <2>6 DEF ExtPut
  <2>7. ASSUME NEW u \in ExtUids,
               ExtAddUid(u)
        PROVE  UidsInv'
    BY <2>7 DEF ExtAddUid
  <2>8. ASSUME NEW u \in Uids \cup ExtUids,
               ExtDelUid(u)
        PROVE  UidsInv'
    BY <2>8 DEF ExtDelUid
  <2> QED
    BY <1>5, <2>1, <2>2, <2>3, <2>4, <2>5, <2>6, <2>7, <2>8 DEF Environment
<1>6. CASE UNCHANGED vars
  BY <1>6 DEF vars
<1> QED
  BY <1>1, <1>2, <1>3, <1>4, <1>5, <1>6 DEF Next

(* Every step keeps the live rules recorded. *)
LEMMA RulesStep ==
  TypeOK /\ PhaseInv /\ RulesInv /\ [Next]_vars => RulesInv'
<1> SUFFICES ASSUME TypeOK, PhaseInv, RulesInv, [Next]_vars PROVE RulesInv'
  OBVIOUS
<1> USE DEF TypeOK, PhaseInv, RulesInv, RulesRecorded, Settled, Ledgers, Jobs, Return, Goto, kernel,
           files, Pcs, BootPcs, HotPcs, CleanPcs, RequireClean, Dom, NoRules, Rules, LiveRules, Written,
           Desired, Affected, RunStates
<1>1. CASE BootStep
  <2>1. ASSUME NEW plan \in Rules, NEW requested \in SUBSET Uids,
               BootPlan(plan, requested)
        PROVE  RulesInv'
    BY <2>1 DEF BootPlan, FromPlan
  <2>2. CASE BootPlanFail
    BY <2>2 DEF BootPlanFail, StartupFailure
  <2>3. ASSUME NEW t \in Mounts,
               BootMount(t)
        PROVE  RulesInv'
    BY <2>3 DEF BootMount
  <2>4. CASE BootMountFail
    BY <2>4 DEF BootMountFail
  <2>5. CASE BootVfsSkip
    BY <2>5 DEF BootVfsSkip
  <2>6. CASE BootVfsArm
    BY <2>6 DEF BootVfsArm, Arm
  <2>7. CASE BootVfsArmFail
    BY <2>7 DEF BootVfsArmFail
  <2>8. CASE BootVfsRefuse
    BY <2>8 DEF BootVfsRefuse, AfterVfsFailure
  <2>9. CASE BootVfsApply
    BY <2>9 DEF BootVfsApply
  <2>10. CASE BootVfsApplyFail
    BY <2>10 DEF BootVfsApplyFail
  <2>11. CASE BootVfsRead
    BY <2>11 DEF BootVfsRead, ReadBack
  <2>12. CASE BootVfsReadFail
    BY <2>12 DEF BootVfsReadFail
  <2>13. CASE BootVfsDelete
    BY <2>13 DEF BootVfsDelete, AfterVfsFailure
  <2>14. CASE BootVfsDeleteFail
    BY <2>14 DEF BootVfsDeleteFail
  <2>15. CASE BootKsu
    BY <2>15 DEF BootKsu
  <2>16. CASE BootSave
    BY <2>16 DEF BootSave
  <2>17. CASE BootCommit
    BY <2>17 DEF BootCommit
  <2>18. CASE BootRollback
    BY <2>18 DEF BootRollback
  <2>19. CASE BootRollbackFail
    BY <2>19 DEF BootRollbackFail
  <2>20. CASE BootFinish
    BY <2>20 DEF BootFinish, Finished, OwnedUids, Confirmed
  <2>21. CASE BootFinishFail
    <3>1. CASE ledger' = ledger
      BY <2>21, <3>1 DEF BootFinishFail
    <3>2. CASE ledger' = Finished
      <4>1. pc' = "idle" /\ UNCHANGED <<krules, mine, runActive>> /\ pc = "finish"
        BY <2>21 DEF BootFinishFail
      <4> DEFINE rejected == Provider = "nomount" /\ Dom(ledger.pending) # {} /\ runActive = {}
      <4>2. ledger'.current = ledger.current
        BY <3>2 DEF Finished, OwnedUids, Confirmed
      <4>3. ASSUME NEW k \in mine, rejected
            PROVE  ledger'.phase = "error" /\ Provider = "nomount"
        <5>1. ~job.ok
          BY <4>1, <4>3
        <5> QED
          BY <3>2, <4>3, <5>1 DEF Finished, OwnedUids, Confirmed
      <4>4. ASSUME NEW k \in mine, ~rejected
            PROVE  ledger'.rules[k] = krules[k]
        <5>1. krules[k] = ledger.pending[k] /\ k \in Keys
          BY <4>1
        <5>2. ledger'.rules[k] = IF krules[k] = ledger.pending[k] THEN ledger.pending[k] ELSE None
          BY <3>2, <4>4, <5>1 DEF Finished, OwnedUids, Confirmed
        <5> QED
          BY <5>1, <5>2
      <4>5. \A k \in mine : ledger.current /\ krules[k] # None
        OBVIOUS
      <4>6. RulesRecorded'
        BY <4>1, <4>2, <4>3, <4>4, <4>5
      <4> QED
        BY ONLY <4>1, <4>5, <4>6 DEF RulesInv, BootPcs
    <3> QED
      BY <2>21, <3>1, <3>2 DEF BootFinishFail, SaveFails
  <2> QED
    BY <1>1, <2>1, <2>2, <2>3, <2>4, <2>5, <2>6, <2>7, <2>8, <2>9, <2>10, <2>11, <2>12, <2>13,
       <2>14, <2>15, <2>16, <2>17, <2>18, <2>19, <2>20, <2>21 DEF BootStep
<1>2. CASE HotStep
  <2>1. CASE HotIntent
    BY <2>1 DEF HotIntent, Intent, Introduced
  <2>2. CASE HotRefuse
    <3>1. CASE ledger' = ledger
      BY <2>2, <3>1 DEF HotRefuse
    <3>2. CASE ledger' = Intent
      BY <2>2, <3>2 DEF HotRefuse, Intent, Introduced
    <3> QED
      BY <2>2, <3>1, <3>2 DEF HotRefuse, SaveFails
  <2>3. CASE HotAddUids
    BY <2>3 DEF HotAddUids
  <2>4. CASE HotReconcile
    BY <2>4 DEF HotReconcile
  <2>5. CASE HotReconcileFail
    BY <2>5 DEF HotReconcileFail, Mixed
  <2>6. CASE HotVerify
    BY <2>6 DEF HotVerify, Mixed
  <2>7. CASE HotRecover
    BY <2>7 DEF HotRecover, RulesRecovered, OwnedLive, Mixed
  <2>8. CASE HotSync
    <3>1. CASE ledger' = ledger /\ Return
      BY <2>8, <3>1 DEF HotSync
    <3>2. CASE ledger' = [ledger EXCEPT !.phase = "syncing", !.rules = ledger.pending,
                                     !.pending = NoRules] /\ pc' \in {"snapshot", "idle"}
      BY <2>8, <3>2 DEF HotSync
    <3> QED
      BY ONLY <2>8, <3>1, <3>2 DEF HotSync, SaveFails, Return, Goto
  <2>9. CASE HotSnapshot
    BY <2>9 DEF HotSnapshot
  <2>10. CASE HotReady
    BY <2>10 DEF HotReady, SaveFails
  <2> QED
    BY <1>2, <2>1, <2>2, <2>3, <2>4, <2>5, <2>6, <2>7, <2>8, <2>9, <2>10 DEF HotStep
<1>3. CASE CleanStep
  <2>1. CASE CleanSkipRules
    BY <2>1 DEF CleanSkipRules, OwnsVfs
  <2>2. CASE CleanArm
    BY <2>2 DEF CleanArm, Arm
  <2>3. CASE CleanRefuse
    BY <2>3 DEF CleanRefuse
  <2>4. CASE CleanDelete
    BY <2>4 DEF CleanDelete
  <2>5. CASE CleanDeleteFail
    BY <2>5 DEF CleanDeleteFail
  <2>6. CASE CleanUids
    BY <2>6 DEF CleanUids
  <2>7. CASE CleanSave
    BY <2>7 DEF CleanSave, SaveFails
  <2>8. CASE CleanMounts
    BY <2>8 DEF CleanMounts
  <2>9. CASE CleanKsu
    BY <2>9 DEF CleanKsu
  <2>10. CASE CleanRelease
    BY <2>10 DEF CleanRelease, SaveFails
  <2>11. CASE CleanDone
    BY <2>11 DEF CleanDone, SaveFails
  <2>12. CASE CleanSnap
    BY <2>12 DEF CleanSnap
  <2> QED
    BY <1>3, <2>1, <2>2, <2>3, <2>4, <2>5, <2>6, <2>7, <2>8, <2>9, <2>10, <2>11, <2>12 DEF CleanStep
<1>4. CASE Command
  <2>1. CASE BootStart
    BY <2>1 DEF BootStart, LedgerForBoot, FreshLedger, NoJob, UntrackedUids
  <2>2. CASE CleanStart
    BY <2>2 DEF CleanStart
  <2>3. CASE CleanNothing
    BY <2>3 DEF CleanNothing, LedgerForBoot, FreshLedger
  <2>4. ASSUME NEW m \in ModuleIds, NEW after \in Rules, NEW requested \in SUBSET Uids,
               HotStart(m, after, requested)
        PROVE  RulesInv'
    BY <2>4 DEF HotStart, HotAccepted, NoJob, RequireReady, Unblocked, Arm
  <2>5. ASSUME NEW m \in ModuleIds, NEW after \in Rules, NEW requested \in SUBSET Uids,
               HotArmFail(m, after, requested)
        PROVE  RulesInv'
    BY <2>5 DEF HotArmFail, HotAccepted, RequireReady, Unblocked
  <2> QED
    BY <1>4, <2>1, <2>2, <2>3, <2>4, <2>5 DEF Command
<1>5. CASE Environment
  <2>1. CASE Crash
    BY <2>1 DEF Crash
  <2>2. CASE Reboot
    BY <2>2 DEF Reboot, FreshLedger, NoJob
  <2>3. CASE GuardClear
    BY <2>3 DEF GuardClear
  <2>4. CASE GuardUpgrade
    BY <2>4 DEF GuardUpgrade
  <2>5. ASSUME NEW k \in Keys,
               ExtDel(k)
        PROVE  RulesInv'
    BY <2>5 DEF ExtDel
  <2>6. ASSUME NEW k \in Keys, NEW v \in ExtVals,
               ExtPut(k, v)
        PROVE  RulesInv'
    BY <2>6 DEF ExtPut
  <2>7. ASSUME NEW u \in ExtUids,
               ExtAddUid(u)
        PROVE  RulesInv'
    BY <2>7 DEF ExtAddUid
  <2>8. ASSUME NEW u \in Uids \cup ExtUids,
               ExtDelUid(u)
        PROVE  RulesInv'
    BY <2>8 DEF ExtDelUid
  <2> QED
    BY <1>5, <2>1, <2>2, <2>3, <2>4, <2>5, <2>6, <2>7, <2>8 DEF Environment
<1>6. CASE UNCHANGED vars
  BY <1>6 DEF vars, Desired, Affected
<1> QED
  BY <1>1, <1>2, <1>3, <1>4, <1>5, <1>6 DEF Next

(* Every step keeps the UIDs of a hot operation isolated. *)
LEMMA IsolationStep ==
  TypeOK /\ PhaseInv /\ RulesInv /\ IsolationInv /\ [Next]_vars => IsolationInv'
<1> SUFFICES ASSUME TypeOK, PhaseInv, RulesInv, IsolationInv, [Next]_vars PROVE IsolationInv'
  OBVIOUS
<1> USE DEF TypeOK, PhaseInv, RulesInv, RulesRecorded, Settled, IsolationInv,
           IsolatedBeforePublished, Ledgers, Jobs, Return, Goto, kernel, files, Pcs, BootPcs,
           HotPcs, CleanPcs, RunStates
<1>1. CASE BootStep
  <2>1. ASSUME NEW plan \in Rules, NEW requested \in SUBSET Uids,
               BootPlan(plan, requested)
        PROVE  IsolationInv'
    BY <2>1 DEF BootPlan, FromPlan
  <2>2. CASE BootPlanFail
    BY <2>2 DEF BootPlanFail, StartupFailure
  <2>3. ASSUME NEW t \in Mounts,
               BootMount(t)
        PROVE  IsolationInv'
    BY <2>3 DEF BootMount
  <2>4. CASE BootMountFail
    BY <2>4 DEF BootMountFail
  <2>5. CASE BootVfsSkip
    BY <2>5 DEF BootVfsSkip
  <2>6. CASE BootVfsArm
    BY <2>6 DEF BootVfsArm, Arm
  <2>7. CASE BootVfsArmFail
    BY <2>7 DEF BootVfsArmFail
  <2>8. CASE BootVfsRefuse
    BY <2>8 DEF BootVfsRefuse, AfterVfsFailure
  <2>9. CASE BootVfsApply
    BY <2>9 DEF BootVfsApply
  <2>10. CASE BootVfsApplyFail
    BY <2>10 DEF BootVfsApplyFail
  <2>11. CASE BootVfsRead
    BY <2>11 DEF BootVfsRead, ReadBack
  <2>12. CASE BootVfsReadFail
    BY <2>12 DEF BootVfsReadFail
  <2>13. CASE BootVfsDelete
    BY <2>13 DEF BootVfsDelete, AfterVfsFailure
  <2>14. CASE BootVfsDeleteFail
    BY <2>14 DEF BootVfsDeleteFail
  <2>15. CASE BootKsu
    BY <2>15 DEF BootKsu
  <2>16. CASE BootSave
    BY <2>16 DEF BootSave
  <2>17. CASE BootCommit
    BY <2>17 DEF BootCommit
  <2>18. CASE BootRollback
    BY <2>18 DEF BootRollback
  <2>19. CASE BootRollbackFail
    BY <2>19 DEF BootRollbackFail
  <2>20. CASE BootFinish
    BY <2>20 DEF BootFinish, Finished, OwnedUids, Confirmed
  <2>21. CASE BootFinishFail
    <3>1. CASE ledger' = ledger
      BY <2>21, <3>1 DEF BootFinishFail
    <3>2. CASE ledger' = Finished
      BY <2>21, <3>2 DEF BootFinishFail, Finished, OwnedUids, Confirmed
    <3> QED
      BY <2>21, <3>1, <3>2 DEF BootFinishFail, SaveFails
  <2> QED
    BY <1>1, <2>1, <2>2, <2>3, <2>4, <2>5, <2>6, <2>7, <2>8, <2>9, <2>10, <2>11, <2>12, <2>13,
       <2>14, <2>15, <2>16, <2>17, <2>18, <2>19, <2>20, <2>21 DEF BootStep
<1>2. CASE HotStep
  <2>1. CASE HotIntent
    BY <2>1 DEF HotIntent, Intent, Introduced
  <2>2. CASE HotRefuse
    <3>1. CASE ledger' = ledger
      BY <2>2, <3>1 DEF HotRefuse
    <3>2. CASE ledger' = Intent
      BY <2>2, <3>2 DEF HotRefuse, Intent, Introduced
    <3> QED
      BY <2>2, <3>1, <3>2 DEF HotRefuse, SaveFails
  <2>3. CASE HotAddUids
    BY <2>3 DEF HotAddUids
  <2>4. CASE HotReconcile
    BY <2>4 DEF HotReconcile
  <2>5. CASE HotReconcileFail
    BY <2>5 DEF HotReconcileFail, Mixed
  <2>6. CASE HotVerify
    BY <2>6 DEF HotVerify, Mixed
  <2>7. CASE HotRecover
    BY <2>7 DEF HotRecover, RulesRecovered, OwnedLive, Mixed
  <2>8. CASE HotSync
    BY <2>8 DEF HotSync, SaveFails
  <2>9. CASE HotSnapshot
    BY <2>9 DEF HotSnapshot
  <2>10. CASE HotReady
    BY <2>10 DEF HotReady, SaveFails
  <2> QED
    BY <1>2, <2>1, <2>2, <2>3, <2>4, <2>5, <2>6, <2>7, <2>8, <2>9, <2>10 DEF HotStep
<1>3. CASE CleanStep
  <2>1. CASE CleanSkipRules
    BY <2>1 DEF CleanSkipRules, OwnsVfs
  <2>2. CASE CleanArm
    BY <2>2 DEF CleanArm, Arm
  <2>3. CASE CleanRefuse
    BY <2>3 DEF CleanRefuse
  <2>4. CASE CleanDelete
    BY <2>4 DEF CleanDelete
  <2>5. CASE CleanDeleteFail
    BY <2>5 DEF CleanDeleteFail
  <2>6. CASE CleanUids
    BY <2>6 DEF CleanUids
  <2>7. CASE CleanSave
    BY <2>7 DEF CleanSave, SaveFails
  <2>8. CASE CleanMounts
    BY <2>8 DEF CleanMounts
  <2>9. CASE CleanKsu
    BY <2>9 DEF CleanKsu
  <2>10. CASE CleanRelease
    BY <2>10 DEF CleanRelease, SaveFails
  <2>11. CASE CleanDone
    BY <2>11 DEF CleanDone, SaveFails
  <2>12. CASE CleanSnap
    BY <2>12 DEF CleanSnap
  <2> QED
    BY <1>3, <2>1, <2>2, <2>3, <2>4, <2>5, <2>6, <2>7, <2>8, <2>9, <2>10, <2>11, <2>12 DEF CleanStep
<1>4. CASE Command
  <2>1. CASE BootStart
    BY <2>1 DEF BootStart, LedgerForBoot, FreshLedger, NoJob, UntrackedUids
  <2>2. CASE CleanStart
    BY <2>2 DEF CleanStart
  <2>3. CASE CleanNothing
    BY <2>3 DEF CleanNothing, LedgerForBoot, FreshLedger
  <2>4. ASSUME NEW m \in ModuleIds, NEW after \in Rules, NEW requested \in SUBSET Uids,
               HotStart(m, after, requested)
        PROVE  IsolationInv'
    BY <2>4 DEF HotStart, HotAccepted, NoJob, RequireReady, Unblocked, Arm
  <2>5. ASSUME NEW m \in ModuleIds, NEW after \in Rules, NEW requested \in SUBSET Uids,
               HotArmFail(m, after, requested)
        PROVE  IsolationInv'
    BY <2>5 DEF HotArmFail, HotAccepted, RequireReady, Unblocked
  <2> QED
    BY <1>4, <2>1, <2>2, <2>3, <2>4, <2>5 DEF Command
<1>5. CASE Environment
  <2>1. CASE Crash
    BY <2>1 DEF Crash
  <2>2. CASE Reboot
    BY <2>2 DEF Reboot, FreshLedger, NoJob
  <2>3. CASE GuardClear
    BY <2>3 DEF GuardClear
  <2>4. CASE GuardUpgrade
    BY <2>4 DEF GuardUpgrade
  <2>5. ASSUME NEW k \in Keys,
               ExtDel(k)
        PROVE  IsolationInv'
    BY <2>5 DEF ExtDel
  <2>6. ASSUME NEW k \in Keys, NEW v \in ExtVals,
               ExtPut(k, v)
        PROVE  IsolationInv'
    BY <2>6 DEF ExtPut
  <2>7. ASSUME NEW u \in ExtUids,
               ExtAddUid(u)
        PROVE  IsolationInv'
    BY <2>7 DEF ExtAddUid
  <2>8. ASSUME NEW u \in Uids \cup ExtUids,
               ExtDelUid(u)
        PROVE  IsolationInv'
    BY <2>8 DEF ExtDelUid
  <2> QED
    BY <1>5, <2>1, <2>2, <2>3, <2>4, <2>5, <2>6, <2>7, <2>8 DEF Environment
<1>6. CASE UNCHANGED vars
  BY <1>6 DEF vars
<1> QED
  BY <1>1, <1>2, <1>3, <1>4, <1>5, <1>6 DEF Next

LEMMA InvAlways == Spec => []Inv
<1>1. Inv /\ [Next]_vars => Inv'
  <2> SUFFICES ASSUME Inv, [Next]_vars PROVE Inv'
    OBVIOUS
  <2> QED
    BY TypeStep, PhaseStep, MountsStep, UidsStep, RulesStep, IsolationStep DEF Inv
<1> QED
  BY <1>1, InitInv, PTL DEF Spec

(* Whatever fails, is killed or is written by others, no rule of Hybrid Mount's is
   live that the ledger on disk does not name. *)
THEOREM RulesAlwaysRecorded == Spec => []RulesRecorded
<1>1. Inv => RulesRecorded
  BY DEF Inv, RulesInv
<1> QED
  BY <1>1, InvAlways, PTL

(* Outside an unfinished boot the ledger names every live mount and registration. *)
THEOREM MountsAlwaysRecorded == Spec => []MountsRecorded
<1>1. Inv => MountsRecorded
  BY DEF Inv, MountsInv
<1> QED
  BY <1>1, InvAlways, PTL

(* On hm every UID Hybrid Mount isolated is in the ledger. *)
THEOREM UidsAlwaysRecorded == Spec => []UidsRecorded
<1>1. Inv => UidsRecorded
  BY DEF Inv, UidsInv, UidsRecorded
<1> QED
  BY <1>1, InvAlways, PTL

(* A boot starts from a clean ledger, and then nothing of an earlier session of
   this kernel is live. *)
THEOREM CleanAlwaysReleased == Spec => []CleanMeansReleased
<1>1. Inv => CleanMeansReleased
  <2> SUFFICES ASSUME Inv, ledger.phase = "clean"
               PROVE  /\ mine = {} /\ kmounts = {} /\ kksu = {}
                      /\ Provider = "hm" => mineUids = {}
    BY DEF CleanMeansReleased
  <2>1. RequireClean(ledger)
    BY DEF Inv, PhaseInv
  <2>2. mine = {}
    BY <2>1 DEF Inv, TypeOK, RulesInv, RulesRecorded, Settled, RequireClean, NoRules, RunStates
  <2>3. kmounts = {} /\ kksu = {}
    BY <2>1 DEF Inv, MountsInv, MountsRecorded, RequireClean
  <2>4. Provider = "hm" => mineUids = {}
    BY <2>1 DEF Inv, UidsInv, RequireClean
  <2> QED
    BY <2>2, <2>3, <2>4
<1> QED
  BY <1>1, InvAlways, PTL

(* A hot operation isolates before it publishes. *)
THEOREM AlwaysIsolatedBeforePublished == Spec => []IsolatedBeforePublished
<1>1. Inv => IsolatedBeforePublished
  BY DEF Inv, IsolationInv
<1> QED
  BY <1>1, InvAlways, PTL

(* UIDs are only taken back by a recovered hot operation, by a cleanup after the
   rules are gone, by another writer or by a reboot. *)
LEMMA UidRemoval ==
  Next /\ ~(kuids \subseteq kuids') =>
    HotRecover \/ CleanUids \/ Reboot \/ pc = "idle"
<1> SUFFICES ASSUME Next, ~(kuids \subseteq kuids')
             PROVE  HotRecover \/ CleanUids \/ Reboot \/ pc = "idle"
  OBVIOUS
<1> USE DEF kernel, files
<1>1. CASE BootStep
  BY <1>1 DEF BootStep, BootPlan, BootPlanFail, BootMount, BootMountFail, BootVfsSkip,
       BootVfsArm, BootVfsArmFail, BootVfsRefuse, BootVfsApply, BootVfsApplyFail,
       BootVfsRead, BootVfsReadFail, BootVfsDelete, BootVfsDeleteFail, BootKsu,
       BootSave, BootCommit, BootRollback, BootRollbackFail, BootFinish, BootFinishFail,
       Finished, SaveFails, Arm, ReadBack, OwnedUids, Confirmed, StartupFailure, FromPlan
<1>2. CASE HotStep
  BY <1>2 DEF HotStep, HotIntent, Intent, Introduced, HotRefuse, HotAddUids, HotReconcile,
       HotReconcileFail, HotVerify, HotSync, HotSnapshot, HotReady, SaveFails
<1>3. CASE CleanStep
  BY <1>3 DEF CleanStep, CleanSkipRules, CleanArm, CleanRefuse, CleanDelete,
       CleanDeleteFail, CleanSave, CleanMounts, CleanKsu, CleanRelease, CleanDone, CleanSnap,
       SaveFails, Arm
<1>4. CASE Command
  BY <1>4 DEF Command, BootStart, CleanStart, CleanNothing, HotStart, HotArmFail, HotAccepted,
     RequireReady, Unblocked, Arm, UntrackedUids
<1>5. CASE Environment
  BY <1>5 DEF Environment, Crash, GuardClear, GuardUpgrade, ExtDel, ExtPut,
       ExtAddUid, ExtDelUid
<1> QED
  BY <1>1, <1>2, <1>3, <1>4, <1>5 DEF Next

(* An isolation is taken away only under rules that were owned before. *)
THEOREM IsolationAlwaysOutlivesRules == Spec => IsolationOutlivesRules
<1> DEFINE Kept == OwnStep /\ ~(kuids \subseteq kuids') =>
                     \A k \in mine : krules[k] = ledger.rules[k]
<1>1. Inv /\ [Next]_vars => [Kept]_vars
  <2> SUFFICES ASSUME Inv, Next, OwnStep, ~(kuids \subseteq kuids'), NEW k \in mine
               PROVE  krules[k] = ledger.rules[k]
    OBVIOUS
  <2>1. CASE HotRecover
    <3>1. RulesRecovered
      BY <2>1 DEF HotRecover
    <3>2. krules[k] # None /\ k \in Keys /\ job.before \subseteq Dom(ledger.rules)
      BY <2>1 DEF HotRecover, Inv, RulesInv, PhaseInv, TypeOK, RunStates
    <3>3. CASE k \in Dom(ledger.rules)
      BY <3>1, <3>3 DEF RulesRecovered, OwnedLive
    <3>4. CASE k \notin Dom(ledger.rules)
      <4>1. krules[k] = Desired[k] \/ krules[k] = ledger.rules[k]
        BY <2>1 DEF HotRecover, Inv, RulesInv, RulesRecorded, PhaseInv, Settled
      <4>2. k \notin Dom(job.after)
        BY <3>1, <3>2, <3>4 DEF RulesRecovered
      <4>3. Desired[k] = None \/ Desired[k] = ledger.rules[k]
        BY <3>2, <4>2 DEF Desired, Dom
      <4> QED
        BY <3>2, <4>1, <4>3
    <3> QED
      BY <3>3, <3>4
  <2>2. CASE CleanUids
    BY <2>2 DEF CleanUids, Inv, RulesInv
  <2>3. CASE Reboot
    BY <2>3 DEF Reboot, OwnStep, FreshLedger
  <2> QED
    BY <2>1, <2>2, <2>3, UidRemoval DEF OwnStep
<1> QED
  BY <1>1, InvAlways, PTL DEF IsolationOutlivesRules, Spec

-----------------------------------------------------------------------------
(* What a ledger says when it becomes ready, and what is left to other writers of
   the same tables. *)

(* What the operations establish before they commit: rules and UIDs are read back,
   and nobody else writes while the lock is held. *)
ExactInv ==
  /\ pc \in {"intent", "uids", "rules", "snapshot", "hotready"} => OwnedLive
  /\ pc \in {"verify", "sync"} => \A k \in Dom(ledger.pending) : krules[k] = ledger.pending[k]
  /\ pc \in {"uids", "rules", "verify", "recover", "sync"} =>
       ledger.uids \subseteq kuids \cup job.intro
  /\ pc \in {"snapshot", "hotready"} => ledger.uids \subseteq kuids /\ ledger.pending = NoRules
  /\ ledger.phase = "ready" \/ pc \in HotPcs => ledger.mounts = kmounts /\ ledger.ksu = kksu

(* The isolated UIDs a ledger records are its own; what a boot found is told apart
   by job.orig. *)
UidsOurs ==
  /\ ledger.phase \in {"ready", "syncing", "cleaning"} \/ pc \in HotPcs =>
       ledger.uids \cap kuids \subseteq mineUids
  /\ pc \in BootPcs => kuids \subseteq mineUids \cup job.orig
  /\ pc \in {"uids", "rules", "verify", "recover", "sync"} => job.intro \subseteq ledger.uids

(* Every step keeps what a commit relies on. *)
LEMMA ExactStep ==
  Inv /\ ExactInv /\ [Next]_vars => ExactInv'
<1> SUFFICES ASSUME Inv, ExactInv, [Next]_vars PROVE ExactInv'
  OBVIOUS
<1> USE DEF Inv, ExactInv, TypeOK, PhaseInv, Ledgers, Jobs, Return, Goto, kernel,
           files, Pcs, BootPcs, HotPcs, CleanPcs, RequireClean, Dom, NoRules,
           Rules, LiveRules, Written, Desired, Affected, OwnedLive, RunStates
<1>1. CASE BootStep
  <2>1. ASSUME NEW plan \in Rules, NEW requested \in SUBSET Uids,
               BootPlan(plan, requested)
        PROVE  ExactInv'
    BY <2>1 DEF BootPlan, FromPlan
  <2>2. CASE BootPlanFail
    BY <2>2 DEF BootPlanFail, StartupFailure
  <2>3. ASSUME NEW t \in Mounts,
               BootMount(t)
        PROVE  ExactInv'
    BY <2>3 DEF BootMount
  <2>4. CASE BootMountFail
    BY <2>4 DEF BootMountFail
  <2>5. CASE BootVfsSkip
    BY <2>5 DEF BootVfsSkip
  <2>6. CASE BootVfsArm
    BY <2>6 DEF BootVfsArm, Arm
  <2>7. CASE BootVfsArmFail
    BY <2>7 DEF BootVfsArmFail
  <2>8. CASE BootVfsRefuse
    BY <2>8 DEF BootVfsRefuse, AfterVfsFailure
  <2>9. CASE BootVfsApply
    BY <2>9 DEF BootVfsApply
  <2>10. CASE BootVfsApplyFail
    BY <2>10 DEF BootVfsApplyFail
  <2>11. CASE BootVfsRead
    BY <2>11 DEF BootVfsRead, ReadBack
  <2>12. CASE BootVfsReadFail
    BY <2>12 DEF BootVfsReadFail
  <2>13. CASE BootVfsDelete
    BY <2>13 DEF BootVfsDelete, AfterVfsFailure
  <2>14. CASE BootVfsDeleteFail
    BY <2>14 DEF BootVfsDeleteFail
  <2>15. CASE BootKsu
    BY <2>15 DEF BootKsu
  <2>16. CASE BootSave
    BY <2>16 DEF BootSave
  <2>17. CASE BootCommit
    BY <2>17 DEF BootCommit
  <2>18. CASE BootRollback
    BY <2>18 DEF BootRollback
  <2>19. CASE BootRollbackFail
    BY <2>19 DEF BootRollbackFail
  <2>0. ASSUME pc = "finish", ledger' = Finished, pc' = "idle", UNCHANGED kernel
        PROVE  ExactInv'
    <3>1. kmounts \subseteq job.eff
      BY <2>0 DEF MountsInv
    <3>2. Finished.mounts = kmounts \cap job.eff /\ Finished.ksu = kksu
      BY ONLY TypeOK, FinishedFields
    <3>3. kmounts' = kmounts /\ kksu' = kksu
      BY <2>0 DEF kernel
    <3>4. ledger'.mounts = kmounts' /\ ledger'.ksu = kksu'
      BY ONLY <2>0, <3>1, <3>2, <3>3
    <3> QED
      BY ONLY <2>0, <3>4 DEF ExactInv, HotPcs
  <2>20. CASE BootFinish
    BY <2>0, <2>20 DEF BootFinish
  <2>21. CASE BootFinishFail
    <3>1. CASE ledger' = ledger
      BY <2>21, <3>1 DEF BootFinishFail
    <3>2. CASE ledger' = Finished
      BY <2>0, <2>21, <3>2 DEF BootFinishFail
    <3> QED
      BY <2>21, <3>1, <3>2 DEF BootFinishFail, SaveFails
  <2> QED
    BY <1>1, <2>1, <2>2, <2>3, <2>4, <2>5, <2>6, <2>7, <2>8, <2>9, <2>10, <2>11, <2>12, <2>13,
       <2>14, <2>15, <2>16, <2>17, <2>18, <2>19, <2>20, <2>21 DEF BootStep
<1>2. CASE HotStep
  <2>1. CASE HotIntent
    BY <2>1 DEF HotIntent, Intent, Introduced
  <2>2. CASE HotRefuse
    <3>1. CASE ledger' = ledger
      BY <2>2, <3>1 DEF HotRefuse
    <3>2. CASE ledger' = Intent
      BY <2>2, <3>2 DEF HotRefuse, Intent, Introduced
    <3> QED
      BY <2>2, <3>1, <3>2 DEF HotRefuse, SaveFails
  <2>3. CASE HotAddUids
    BY <2>3 DEF HotAddUids
  <2>4. CASE HotReconcile
    BY <2>4 DEF HotReconcile
  <2>5. CASE HotReconcileFail
    BY <2>5 DEF HotReconcileFail, Mixed
  <2>6. CASE HotVerify
    BY <2>6 DEF HotVerify, Mixed
  <2>7. CASE HotRecover
    BY <2>7 DEF HotRecover, RulesRecovered, OwnedLive, Mixed
  <2>8. CASE HotSync
    <3>1. CASE pc' = "idle"
      <4>1. CASE ledger' = ledger
        BY <2>8, <3>1, <4>1 DEF HotSync
      <4>2. CASE ledger' = [ledger EXCEPT !.phase = "syncing", !.rules = ledger.pending,
                                          !.pending = NoRules]
        BY <3>1, <4>2
      <4> QED
        BY ONLY <2>8, <4>1, <4>2 DEF HotSync, SaveFails
    <3>2. CASE pc' = "snapshot"
      <4>1. /\ ledger' = [ledger EXCEPT !.phase = "syncing", !.rules = ledger.pending,
                                     !.pending = NoRules]
            /\ pc = "sync" /\ UNCHANGED <<krules, kuids, kmounts, kksu>>
        BY <2>8, <3>2 DEF HotSync
      <4>2. ledger'.uids = ledger.uids /\ ledger.uids \subseteq kuids
        BY <4>1 DEF IsolationInv
      <4>3. OwnedLive'
        BY <4>1
      <4>4. ledger'.mounts = kmounts' /\ ledger'.ksu = kksu' /\ ledger'.pending = NoRules
        BY <4>1
      <4> QED
        BY <3>2, <4>1, <4>2, <4>3, <4>4
    <3> QED
      BY <2>8, <3>1, <3>2 DEF HotSync
  <2>9. CASE HotSnapshot
    BY <2>9 DEF HotSnapshot
  <2>10. CASE HotReady
    BY <2>10 DEF HotReady, SaveFails
  <2> QED
    BY <1>2, <2>1, <2>2, <2>3, <2>4, <2>5, <2>6, <2>7, <2>8, <2>9, <2>10 DEF HotStep
<1>3. CASE CleanStep
  <2>1. CASE CleanSkipRules
    BY <2>1 DEF CleanSkipRules, OwnsVfs
  <2>2. CASE CleanArm
    BY <2>2 DEF CleanArm, Arm
  <2>3. CASE CleanRefuse
    BY <2>3 DEF CleanRefuse
  <2>4. CASE CleanDelete
    BY <2>4 DEF CleanDelete
  <2>5. CASE CleanDeleteFail
    BY <2>5 DEF CleanDeleteFail
  <2>6. CASE CleanUids
    BY <2>6 DEF CleanUids
  <2>7. CASE CleanSave
    <3>1. CASE ledger' = ledger /\ Return
      BY <2>7, <3>1 DEF CleanSave
    <3>2. CASE ledger' = [ledger EXCEPT !.rules = NoRules, !.uids = {}] /\ pc' \in {"cmounts", "idle"}
      BY <2>7, <3>2 DEF CleanSave
    <3> QED
      BY ONLY <2>7, <3>1, <3>2 DEF CleanSave, SaveFails, Return, Goto
  <2>8. CASE CleanMounts
    BY <2>8 DEF CleanMounts
  <2>9. CASE CleanKsu
    BY <2>9 DEF CleanKsu
  <2>10. CASE CleanRelease
    <3>1. CASE ledger' = ledger /\ Return
      BY <2>10, <3>1 DEF CleanRelease
    <3>2. CASE ledger' = [ledger EXCEPT !.mounts = {}, !.ksu = {}] /\ pc' \in {"cdone", "idle"}
      BY <2>10, <3>2 DEF CleanRelease
    <3> QED
      BY ONLY <2>10, <3>1, <3>2 DEF CleanRelease, SaveFails, Return, Goto
  <2>11. CASE CleanDone
    <3>1. CASE ledger' = ledger /\ Return
      BY <2>11, <3>1 DEF CleanDone
    <3>2. CASE ledger' = [ledger EXCEPT !.phase = "clean", !.pending = NoRules] /\ pc' \in {"csnap", "idle"}
      BY <2>11, <3>2 DEF CleanDone
    <3> QED
      BY ONLY <2>11, <3>1, <3>2 DEF CleanDone, SaveFails, Return, Goto
  <2>12. CASE CleanSnap
    BY <2>12 DEF CleanSnap
  <2> QED
    BY <1>3, <2>1, <2>2, <2>3, <2>4, <2>5, <2>6, <2>7, <2>8, <2>9, <2>10, <2>11, <2>12 DEF CleanStep
<1>4. CASE Command
  <2>1. CASE BootStart
    BY <2>1 DEF BootStart, LedgerForBoot, FreshLedger, NoJob, UntrackedUids
  <2>2. CASE CleanStart
    BY <2>2 DEF CleanStart
  <2>3. CASE CleanNothing
    BY <2>3 DEF CleanNothing, LedgerForBoot, FreshLedger
  <2>4. ASSUME NEW m \in ModuleIds, NEW after \in Rules, NEW requested \in SUBSET Uids,
               HotStart(m, after, requested)
        PROVE  ExactInv'
    BY <2>4 DEF HotStart, HotAccepted, NoJob, RequireReady, Unblocked, Arm
  <2>5. ASSUME NEW m \in ModuleIds, NEW after \in Rules, NEW requested \in SUBSET Uids,
               HotArmFail(m, after, requested)
        PROVE  ExactInv'
    BY <2>5 DEF HotArmFail, HotAccepted, RequireReady, Unblocked
  <2> QED
    BY <1>4, <2>1, <2>2, <2>3, <2>4, <2>5 DEF Command
<1>5. CASE Environment
  <2>1. CASE Crash
    BY <2>1 DEF Crash
  <2>2. CASE Reboot
    BY <2>2 DEF Reboot, FreshLedger, NoJob
  <2>3. CASE GuardClear
    BY <2>3 DEF GuardClear
  <2>4. CASE GuardUpgrade
    BY <2>4 DEF GuardUpgrade
  <2>5. ASSUME NEW k \in Keys,
               ExtDel(k)
        PROVE  ExactInv'
    BY <2>5 DEF ExtDel
  <2>6. ASSUME NEW k \in Keys, NEW v \in ExtVals,
               ExtPut(k, v)
        PROVE  ExactInv'
    BY <2>6 DEF ExtPut
  <2>7. ASSUME NEW u \in ExtUids,
               ExtAddUid(u)
        PROVE  ExactInv'
    BY <2>7 DEF ExtAddUid
  <2>8. ASSUME NEW u \in Uids \cup ExtUids,
               ExtDelUid(u)
        PROVE  ExactInv'
    BY <2>8 DEF ExtDelUid
  <2> QED
    BY <1>5, <2>1, <2>2, <2>3, <2>4, <2>5, <2>6, <2>7, <2>8 DEF Environment
<1>6. CASE UNCHANGED vars
  BY <1>6 DEF vars
<1> QED
  BY <1>1, <1>2, <1>3, <1>4, <1>5, <1>6 DEF Next



(* Every step keeps the recorded UIDs apart from those of others. *)
LEMMA UidsOursStep ==
  TypeOK /\ PhaseInv /\ UidsOurs /\ [Next]_vars => UidsOurs'
<1> SUFFICES ASSUME TypeOK, PhaseInv, UidsOurs, [Next]_vars PROVE UidsOurs'
  OBVIOUS
<1> USE DEF UidsOurs, TypeOK, PhaseInv, Ledgers, Jobs, Return, Goto, kernel,
           files, Pcs, BootPcs, HotPcs, CleanPcs, RequireClean, RunStates
<1>1. CASE BootStep
  <2>1. ASSUME NEW plan \in Rules, NEW requested \in SUBSET Uids,
               BootPlan(plan, requested)
        PROVE  UidsOurs'
    BY <2>1 DEF BootPlan, FromPlan
  <2>2. CASE BootPlanFail
    BY <2>2 DEF BootPlanFail, StartupFailure
  <2>3. ASSUME NEW t \in Mounts,
               BootMount(t)
        PROVE  UidsOurs'
    BY <2>3 DEF BootMount
  <2>4. CASE BootMountFail
    BY <2>4 DEF BootMountFail
  <2>5. CASE BootVfsSkip
    BY <2>5 DEF BootVfsSkip
  <2>6. CASE BootVfsArm
    BY <2>6 DEF BootVfsArm, Arm
  <2>7. CASE BootVfsArmFail
    BY <2>7 DEF BootVfsArmFail
  <2>8. CASE BootVfsRefuse
    BY <2>8 DEF BootVfsRefuse, AfterVfsFailure
  <2>9. CASE BootVfsApply
    BY <2>9 DEF BootVfsApply
  <2>10. CASE BootVfsApplyFail
    BY <2>10 DEF BootVfsApplyFail
  <2>11. CASE BootVfsRead
    BY <2>11 DEF BootVfsRead, ReadBack
  <2>12. CASE BootVfsReadFail
    BY <2>12 DEF BootVfsReadFail
  <2>13. CASE BootVfsDelete
    BY <2>13 DEF BootVfsDelete, AfterVfsFailure
  <2>14. CASE BootVfsDeleteFail
    BY <2>14 DEF BootVfsDeleteFail
  <2>15. CASE BootKsu
    BY <2>15 DEF BootKsu
  <2>16. CASE BootSave
    BY <2>16 DEF BootSave
  <2>17. CASE BootCommit
    BY <2>17 DEF BootCommit
  <2>18. CASE BootRollback
    BY <2>18 DEF BootRollback
  <2>19. CASE BootRollbackFail
    BY <2>19 DEF BootRollbackFail
  <2>20. CASE BootFinish
    BY <2>20 DEF BootFinish, Finished, OwnedUids, Confirmed
  <2>21. CASE BootFinishFail
    <3>1. CASE ledger' = ledger
      BY <2>21, <3>1 DEF BootFinishFail
    <3>2. CASE ledger' = Finished
      BY <2>21, <3>2 DEF BootFinishFail, Finished, OwnedUids, Confirmed
    <3> QED
      BY <2>21, <3>1, <3>2 DEF BootFinishFail, SaveFails
  <2> QED
    BY <1>1, <2>1, <2>2, <2>3, <2>4, <2>5, <2>6, <2>7, <2>8, <2>9, <2>10, <2>11, <2>12, <2>13,
       <2>14, <2>15, <2>16, <2>17, <2>18, <2>19, <2>20, <2>21 DEF BootStep
<1>2. CASE HotStep
  <2>1. CASE HotIntent
    BY <2>1 DEF HotIntent, Intent, Introduced
  <2>2. CASE HotRefuse
    <3>1. CASE ledger' = ledger
      BY <2>2, <3>1 DEF HotRefuse
    <3>2. CASE ledger' = Intent
      BY <2>2, <3>2 DEF HotRefuse, Intent, Introduced
    <3> QED
      BY <2>2, <3>1, <3>2 DEF HotRefuse, SaveFails
  <2>3. CASE HotAddUids
    BY <2>3 DEF HotAddUids
  <2>4. CASE HotReconcile
    BY <2>4 DEF HotReconcile
  <2>5. CASE HotReconcileFail
    BY <2>5 DEF HotReconcileFail, Mixed
  <2>6. CASE HotVerify
    BY <2>6 DEF HotVerify, Mixed
  <2>7. CASE HotRecover
    BY <2>7 DEF HotRecover, RulesRecovered, OwnedLive, Mixed
  <2>8. CASE HotSync
    BY <2>8 DEF HotSync, SaveFails
  <2>9. CASE HotSnapshot
    BY <2>9 DEF HotSnapshot
  <2>10. CASE HotReady
    BY <2>10 DEF HotReady, SaveFails
  <2> QED
    BY <1>2, <2>1, <2>2, <2>3, <2>4, <2>5, <2>6, <2>7, <2>8, <2>9, <2>10 DEF HotStep
<1>3. CASE CleanStep
  <2>1. CASE CleanSkipRules
    BY <2>1 DEF CleanSkipRules, OwnsVfs
  <2>2. CASE CleanArm
    BY <2>2 DEF CleanArm, Arm
  <2>3. CASE CleanRefuse
    BY <2>3 DEF CleanRefuse
  <2>4. CASE CleanDelete
    BY <2>4 DEF CleanDelete
  <2>5. CASE CleanDeleteFail
    BY <2>5 DEF CleanDeleteFail
  <2>6. CASE CleanUids
    BY <2>6 DEF CleanUids
  <2>7. CASE CleanSave
    <3>1. CASE ledger' = ledger /\ Return
      BY <2>7, <3>1 DEF CleanSave
    <3>2. CASE ledger' = [ledger EXCEPT !.rules = NoRules, !.uids = {}] /\ pc' \in {"cmounts", "idle"}
      BY <2>7, <3>2 DEF CleanSave
    <3> QED
      BY ONLY <2>7, <3>1, <3>2 DEF CleanSave, SaveFails, Return, Goto
  <2>8. CASE CleanMounts
    BY <2>8 DEF CleanMounts
  <2>9. CASE CleanKsu
    BY <2>9 DEF CleanKsu
  <2>10. CASE CleanRelease
    <3>1. CASE ledger' = ledger /\ Return
      BY <2>10, <3>1 DEF CleanRelease
    <3>2. CASE ledger' = [ledger EXCEPT !.mounts = {}, !.ksu = {}] /\ pc' \in {"cdone", "idle"}
      BY <2>10, <3>2 DEF CleanRelease
    <3> QED
      BY ONLY <2>10, <3>1, <3>2 DEF CleanRelease, SaveFails, Return, Goto
  <2>11. CASE CleanDone
    <3>1. CASE ledger' = ledger /\ Return
      BY <2>11, <3>1 DEF CleanDone
    <3>2. CASE ledger' = [ledger EXCEPT !.phase = "clean", !.pending = NoRules] /\ pc' \in {"csnap", "idle"}
      BY <2>11, <3>2 DEF CleanDone
    <3> QED
      BY ONLY <2>11, <3>1, <3>2 DEF CleanDone, SaveFails, Return, Goto
  <2>12. CASE CleanSnap
    BY <2>12 DEF CleanSnap
  <2> QED
    BY <1>3, <2>1, <2>2, <2>3, <2>4, <2>5, <2>6, <2>7, <2>8, <2>9, <2>10, <2>11, <2>12 DEF CleanStep
<1>4. CASE Command
  <2>1. CASE BootStart
    BY <2>1 DEF BootStart, LedgerForBoot, FreshLedger, NoJob, UntrackedUids
  <2>2. CASE CleanStart
    BY <2>2 DEF CleanStart
  <2>3. CASE CleanNothing
    BY <2>3 DEF CleanNothing, LedgerForBoot, FreshLedger
  <2>4. ASSUME NEW m \in ModuleIds, NEW after \in Rules, NEW requested \in SUBSET Uids,
               HotStart(m, after, requested)
        PROVE  UidsOurs'
    BY <2>4 DEF HotStart, HotAccepted, NoJob, RequireReady, Unblocked, Arm
  <2>5. ASSUME NEW m \in ModuleIds, NEW after \in Rules, NEW requested \in SUBSET Uids,
               HotArmFail(m, after, requested)
        PROVE  UidsOurs'
    BY <2>5 DEF HotArmFail, HotAccepted, RequireReady, Unblocked
  <2> QED
    BY <1>4, <2>1, <2>2, <2>3, <2>4, <2>5 DEF Command
<1>5. CASE Environment
  <2>1. CASE Crash
    BY <2>1 DEF Crash
  <2>2. CASE Reboot
    BY <2>2 DEF Reboot, FreshLedger, NoJob
  <2>3. CASE GuardClear
    BY <2>3 DEF GuardClear
  <2>4. CASE GuardUpgrade
    BY <2>4 DEF GuardUpgrade
  <2>5. ASSUME NEW k \in Keys,
               ExtDel(k)
        PROVE  UidsOurs'
    BY <2>5 DEF ExtDel
  <2>6. ASSUME NEW k \in Keys, NEW v \in ExtVals,
               ExtPut(k, v)
        PROVE  UidsOurs'
    BY <2>6 DEF ExtPut
  <2>7. ASSUME NEW u \in ExtUids,
               ExtAddUid(u)
        PROVE  UidsOurs'
    BY <2>7 DEF ExtAddUid
  <2>8. ASSUME NEW u \in Uids \cup ExtUids,
               ExtDelUid(u)
        PROVE  UidsOurs'
    BY <2>8 DEF ExtDelUid
  <2> QED
    BY <1>5, <2>1, <2>2, <2>3, <2>4, <2>5, <2>6, <2>7, <2>8 DEF Environment
<1>6. CASE UNCHANGED vars
  BY <1>6 DEF vars
<1> QED
  BY <1>1, <1>2, <1>3, <1>4, <1>5, <1>6 DEF Next

(* The payloads of Hybrid Mount and of other writers can be told apart. *)
PayloadsDiffer == OurVals \cap ExtVals = {}

(* Whose a live rule is: what carries a payload of Hybrid Mount's, what a boot on a
   channel that refuses collisions registered, what a hot operation is about to
   replace and what a cleanup is about to delete is Hybrid Mount's. *)
OursInv ==
  /\ \A k \in Keys : krules[k] \in OurVals => k \in mine
  /\ Provider = "nomount" /\ pc \in BootPcs => \A k \in job.reg : krules[k] # None => k \in mine
  /\ pc \in {"intent", "uids", "rules", "verify"} =>
       \A k \in Affected : krules[k] # None => k \in mine
  /\ pc = "cdelete" => \A k \in Dom(ledger.rules) : krules[k] # None => k \in mine

(* The run state of a ready ledger is that of the rules it owns, up to the save that
   follows the hot operation. *)
SnapInv ==
  (ledger.phase = "ready" /\ ledger.current)
      \/ pc \in {"intent", "uids", "rules", "verify", "recover", "hotready"} =>
    runActive = Dom(ledger.rules)


(* Every step keeps the rules of others apart. *)
LEMMA OursStep ==
  PayloadsDiffer /\ TypeOK /\ PhaseInv /\ OursInv /\ [Next]_vars => OursInv'
<1> SUFFICES ASSUME PayloadsDiffer, TypeOK, PhaseInv, OursInv, [Next]_vars PROVE OursInv'
  OBVIOUS
<1> USE ConstantsAssumption DEF PayloadsDiffer, OursInv, TypeOK, PhaseInv, Ledgers, Jobs, Return,
           Goto, kernel,
           files, Pcs, BootPcs, HotPcs, CleanPcs, RequireClean, Dom, NoRules,
           Rules, LiveRules, Written, Desired, Affected, RunStates
<1>1. CASE BootStep
  <2>1. ASSUME NEW plan \in Rules, NEW requested \in SUBSET Uids,
               BootPlan(plan, requested)
        PROVE  OursInv'
    BY <2>1 DEF BootPlan, FromPlan
  <2>2. CASE BootPlanFail
    BY <2>2 DEF BootPlanFail, StartupFailure
  <2>3. ASSUME NEW t \in Mounts,
               BootMount(t)
        PROVE  OursInv'
    BY <2>3 DEF BootMount
  <2>4. CASE BootMountFail
    BY <2>4 DEF BootMountFail
  <2>5. CASE BootVfsSkip
    BY <2>5 DEF BootVfsSkip
  <2>6. CASE BootVfsArm
    BY <2>6 DEF BootVfsArm, Arm
  <2>7. CASE BootVfsArmFail
    BY <2>7 DEF BootVfsArmFail
  <2>8. CASE BootVfsRefuse
    BY <2>8 DEF BootVfsRefuse, AfterVfsFailure
  <2>9. CASE BootVfsApply
    BY <2>9 DEF BootVfsApply
  <2>10. CASE BootVfsApplyFail
    BY <2>10 DEF BootVfsApplyFail, Collision
  <2>11. CASE BootVfsRead
    BY <2>11 DEF BootVfsRead, ReadBack
  <2>12. CASE BootVfsReadFail
    BY <2>12 DEF BootVfsReadFail
  <2>13. CASE BootVfsDelete
    BY <2>13 DEF BootVfsDelete, AfterVfsFailure
  <2>14. CASE BootVfsDeleteFail
    BY <2>14 DEF BootVfsDeleteFail
  <2>15. CASE BootKsu
    BY <2>15 DEF BootKsu
  <2>16. CASE BootSave
    BY <2>16 DEF BootSave
  <2>17. CASE BootCommit
    BY <2>17 DEF BootCommit
  <2>18. CASE BootRollback
    BY <2>18 DEF BootRollback
  <2>19. CASE BootRollbackFail
    BY <2>19 DEF BootRollbackFail
  <2>20. CASE BootFinish
    BY <2>20 DEF BootFinish, Finished, OwnedUids, Confirmed
  <2>21. CASE BootFinishFail
    <3>1. CASE ledger' = ledger
      BY <2>21, <3>1 DEF BootFinishFail
    <3>2. CASE ledger' = Finished
      BY <2>21, <3>2 DEF BootFinishFail, Finished, OwnedUids, Confirmed
    <3> QED
      BY <2>21, <3>1, <3>2 DEF BootFinishFail, SaveFails
  <2> QED
    BY <1>1, <2>1, <2>2, <2>3, <2>4, <2>5, <2>6, <2>7, <2>8, <2>9, <2>10, <2>11, <2>12, <2>13,
       <2>14, <2>15, <2>16, <2>17, <2>18, <2>19, <2>20, <2>21 DEF BootStep
<1>2. CASE HotStep
  <2>1. CASE HotIntent
    BY <2>1 DEF HotIntent, Intent, Introduced
  <2>2. CASE HotRefuse
    <3>1. CASE ledger' = ledger
      BY <2>2, <3>1 DEF HotRefuse
    <3>2. CASE ledger' = Intent
      BY <2>2, <3>2 DEF HotRefuse, Intent, Introduced
    <3> QED
      BY <2>2, <3>1, <3>2 DEF HotRefuse, SaveFails
  <2>3. CASE HotAddUids
    BY <2>3 DEF HotAddUids
  <2>4. CASE HotReconcile
    BY <2>4 DEF HotReconcile
  <2>5. CASE HotReconcileFail
    BY <2>5 DEF HotReconcileFail, Mixed
  <2>6. CASE HotVerify
    BY <2>6 DEF HotVerify, Mixed
  <2>7. CASE HotRecover
    BY <2>7 DEF HotRecover, RulesRecovered, OwnedLive, Mixed
  <2>8. CASE HotSync
    BY <2>8 DEF HotSync, SaveFails
  <2>9. CASE HotSnapshot
    BY <2>9 DEF HotSnapshot
  <2>10. CASE HotReady
    BY <2>10 DEF HotReady, SaveFails
  <2> QED
    BY <1>2, <2>1, <2>2, <2>3, <2>4, <2>5, <2>6, <2>7, <2>8, <2>9, <2>10 DEF HotStep
<1>3. CASE CleanStep
  <2>1. CASE CleanSkipRules
    BY <2>1 DEF CleanSkipRules, OwnsVfs
  <2>2. CASE CleanArm
    BY <2>2 DEF CleanArm, Drift, Arm
  <2>3. CASE CleanRefuse
    BY <2>3 DEF CleanRefuse
  <2>4. CASE CleanDelete
    BY <2>4 DEF CleanDelete
  <2>5. CASE CleanDeleteFail
    BY <2>5 DEF CleanDeleteFail
  <2>6. CASE CleanUids
    BY <2>6 DEF CleanUids
  <2>7. CASE CleanSave
    <3>1. CASE ledger' = ledger /\ Return
      BY <2>7, <3>1 DEF CleanSave
    <3>2. CASE ledger' = [ledger EXCEPT !.rules = NoRules, !.uids = {}] /\ pc' \in {"cmounts", "idle"}
      BY <2>7, <3>2 DEF CleanSave
    <3> QED
      BY ONLY <2>7, <3>1, <3>2 DEF CleanSave, SaveFails, Return, Goto
  <2>8. CASE CleanMounts
    BY <2>8 DEF CleanMounts
  <2>9. CASE CleanKsu
    BY <2>9 DEF CleanKsu
  <2>10. CASE CleanRelease
    <3>1. CASE ledger' = ledger /\ Return
      BY <2>10, <3>1 DEF CleanRelease
    <3>2. CASE ledger' = [ledger EXCEPT !.mounts = {}, !.ksu = {}] /\ pc' \in {"cdone", "idle"}
      BY <2>10, <3>2 DEF CleanRelease
    <3> QED
      BY ONLY <2>10, <3>1, <3>2 DEF CleanRelease, SaveFails, Return, Goto
  <2>11. CASE CleanDone
    <3>1. CASE ledger' = ledger /\ Return
      BY <2>11, <3>1 DEF CleanDone
    <3>2. CASE ledger' = [ledger EXCEPT !.phase = "clean", !.pending = NoRules] /\ pc' \in {"csnap", "idle"}
      BY <2>11, <3>2 DEF CleanDone
    <3> QED
      BY ONLY <2>11, <3>1, <3>2 DEF CleanDone, SaveFails, Return, Goto
  <2>12. CASE CleanSnap
    BY <2>12 DEF CleanSnap
  <2> QED
    BY <1>3, <2>1, <2>2, <2>3, <2>4, <2>5, <2>6, <2>7, <2>8, <2>9, <2>10, <2>11, <2>12 DEF CleanStep
<1>4. CASE Command
  <2>1. CASE BootStart
    BY <2>1 DEF BootStart, LedgerForBoot, FreshLedger, NoJob, UntrackedUids
  <2>2. CASE CleanStart
    BY <2>2 DEF CleanStart
  <2>3. CASE CleanNothing
    BY <2>3 DEF CleanNothing, LedgerForBoot, FreshLedger
  <2>4. ASSUME NEW m \in ModuleIds, NEW after \in Rules, NEW requested \in SUBSET Uids,
               HotStart(m, after, requested)
        PROVE  OursInv'
    BY <2>4 DEF HotStart, HotAccepted, NoJob, OwnedLive, RequireReady, Unblocked, Arm
  <2>5. ASSUME NEW m \in ModuleIds, NEW after \in Rules, NEW requested \in SUBSET Uids,
               HotArmFail(m, after, requested)
        PROVE  OursInv'
    BY <2>5 DEF HotArmFail, HotAccepted, RequireReady, Unblocked
  <2> QED
    BY <1>4, <2>1, <2>2, <2>3, <2>4, <2>5 DEF Command
<1>5. CASE Environment
  <2>1. CASE Crash
    BY <2>1 DEF Crash
  <2>2. CASE Reboot
    BY <2>2 DEF Reboot, FreshLedger, NoJob
  <2>3. CASE GuardClear
    BY <2>3 DEF GuardClear
  <2>4. CASE GuardUpgrade
    BY <2>4 DEF GuardUpgrade
  <2>5. ASSUME NEW k \in Keys,
               ExtDel(k)
        PROVE  OursInv'
    BY <2>5 DEF ExtDel
  <2>6. ASSUME NEW k \in Keys, NEW v \in ExtVals,
               ExtPut(k, v)
        PROVE  OursInv'
    BY <2>6 DEF ExtPut
  <2>7. ASSUME NEW u \in ExtUids,
               ExtAddUid(u)
        PROVE  OursInv'
    BY <2>7 DEF ExtAddUid
  <2>8. ASSUME NEW u \in Uids \cup ExtUids,
               ExtDelUid(u)
        PROVE  OursInv'
    BY <2>8 DEF ExtDelUid
  <2> QED
    BY <1>5, <2>1, <2>2, <2>3, <2>4, <2>5, <2>6, <2>7, <2>8 DEF Environment
<1>6. CASE UNCHANGED vars
  BY <1>6 DEF vars
<1> QED
  BY <1>1, <1>2, <1>3, <1>4, <1>5, <1>6 DEF Next

(* A boot that ends ready owns what its run state shows: it verified each rule there,
   and no planned rule it finds live is another's. *)
LEMMA FinishedIsShown ==
  ASSUME Inv, OursInv, pc = "finish", Finished.phase = "ready"
  PROVE  runActive = Dom(Finished.rules)
<1> DEFINE rejected == Provider = "nomount" /\ Dom(ledger.pending) # {} /\ runActive = {}
           planned == IF rejected THEN NoRules ELSE ledger.pending
           verified == \A k \in runActive : planned[k] # None /\ krules[k] = planned[k]
<1>1. planned \in Rules /\ runActive \subseteq Keys /\ krules \in LiveRules
  BY NoRulesType DEF Inv, TypeOK, Ledgers, RunStates
<1>2. /\ Finished.phase = IF job.ok /\ verified THEN "ready" ELSE "error"
      /\ Finished.rules = [k \in Keys |-> IF krules[k] = planned[k] THEN planned[k] ELSE None]
  BY DEF Inv, TypeOK, Ledgers, Finished, OwnedUids, Confirmed, RunStates
<1> HIDE DEF planned
<1>3. job.ok /\ verified
  BY <1>2
<1>4. mine \subseteq runActive
  BY <1>3 DEF Inv, RulesInv, BootPcs
<1>5. ASSUME NEW k \in Keys PROVE Finished.rules[k] # None <=> k \in runActive
  <2>1. CASE k \in runActive
    BY <1>1, <1>2, <1>3, <2>1
  <2>2. CASE k \notin runActive
    <3>1. krules[k] \notin OurVals
      BY <1>4, <2>2 DEF OursInv
    <3>2. planned[k] \in OurVals \cup {None}
      BY <1>1 DEF Rules
    <3> QED
      BY <1>2, <2>2, <3>1, <3>2
  <2> QED
    BY <2>1, <2>2
<1> QED
  BY <1>1, <1>5 DEF Dom


(* Every step keeps the run state of a ready ledger exact. *)
LEMMA SnapStep ==
  Inv /\ OursInv /\ SnapInv /\ [Next]_vars => SnapInv'
<1> SUFFICES ASSUME Inv, OursInv, SnapInv, [Next]_vars PROVE SnapInv'
  OBVIOUS
<1> USE DEF Inv, SnapInv, TypeOK, PhaseInv, Ledgers, Jobs, Return, Goto, kernel,
           files, Pcs, BootPcs, HotPcs, CleanPcs, RequireClean, Dom, NoRules,
           Rules, LiveRules, Written, Desired, Affected, RunStates
<1>1. CASE BootStep
  <2>1. ASSUME NEW plan \in Rules, NEW requested \in SUBSET Uids,
               BootPlan(plan, requested)
        PROVE  SnapInv'
    BY <2>1 DEF BootPlan, FromPlan
  <2>2. CASE BootPlanFail
    BY <2>2 DEF BootPlanFail, StartupFailure
  <2>3. ASSUME NEW t \in Mounts,
               BootMount(t)
        PROVE  SnapInv'
    BY <2>3 DEF BootMount
  <2>4. CASE BootMountFail
    BY <2>4 DEF BootMountFail
  <2>5. CASE BootVfsSkip
    BY <2>5 DEF BootVfsSkip
  <2>6. CASE BootVfsArm
    BY <2>6 DEF BootVfsArm, Arm
  <2>7. CASE BootVfsArmFail
    BY <2>7 DEF BootVfsArmFail
  <2>8. CASE BootVfsRefuse
    BY <2>8 DEF BootVfsRefuse, AfterVfsFailure
  <2>9. CASE BootVfsApply
    BY <2>9 DEF BootVfsApply
  <2>10. CASE BootVfsApplyFail
    BY <2>10 DEF BootVfsApplyFail
  <2>11. CASE BootVfsRead
    BY <2>11 DEF BootVfsRead, ReadBack
  <2>12. CASE BootVfsReadFail
    BY <2>12 DEF BootVfsReadFail
  <2>13. CASE BootVfsDelete
    BY <2>13 DEF BootVfsDelete, AfterVfsFailure
  <2>14. CASE BootVfsDeleteFail
    BY <2>14 DEF BootVfsDeleteFail
  <2>15. CASE BootKsu
    BY <2>15 DEF BootKsu
  <2>16. CASE BootSave
    BY <2>16 DEF BootSave
  <2>17. CASE BootCommit
    BY <2>17 DEF BootCommit
  <2>18. CASE BootRollback
    BY <2>18 DEF BootRollback
  <2>19. CASE BootRollbackFail
    BY <2>19 DEF BootRollbackFail
  <2>20. CASE BootFinish
    <3>1. pc = "finish" /\ ledger' = Finished /\ pc' = "idle" /\ UNCHANGED runActive
      BY <2>20 DEF BootFinish
    <3> QED
      BY <3>1, FinishedIsShown
  <2>21. CASE BootFinishFail
    <3>1. pc = "finish" /\ ledger' \in {ledger, Finished} /\ pc' = "idle" /\ UNCHANGED runActive
      BY <2>21 DEF BootFinishFail, SaveFails
    <3> QED
      BY <3>1, FinishedIsShown
  <2> QED
    BY <1>1, <2>1, <2>2, <2>3, <2>4, <2>5, <2>6, <2>7, <2>8, <2>9, <2>10, <2>11, <2>12, <2>13,
       <2>14, <2>15, <2>16, <2>17, <2>18, <2>19, <2>20, <2>21 DEF BootStep
<1>2. CASE HotStep
  <2>1. CASE HotIntent
    BY <2>1 DEF HotIntent, Intent, Introduced
  <2>2. CASE HotRefuse
    <3>1. CASE ledger' = ledger
      BY <2>2, <3>1 DEF HotRefuse
    <3>2. CASE ledger' = Intent
      BY <2>2, <3>2 DEF HotRefuse, Intent, Introduced
    <3> QED
      BY <2>2, <3>1, <3>2 DEF HotRefuse, SaveFails
  <2>3. CASE HotAddUids
    BY <2>3 DEF HotAddUids
  <2>4. CASE HotReconcile
    BY <2>4 DEF HotReconcile
  <2>5. CASE HotReconcileFail
    BY <2>5 DEF HotReconcileFail, Mixed
  <2>6. CASE HotVerify
    BY <2>6 DEF HotVerify, Mixed
  <2>7. CASE HotRecover
    BY <2>7 DEF HotRecover, RulesRecovered, OwnedLive, Mixed
  <2>8. CASE HotSync
    <3>1. ledger'.phase \in {"applying", "syncing"} /\ pc' \in {"snapshot", "idle"}
      BY <2>8 DEF HotSync, SaveFails
    <3> QED
      BY <3>1
  <2>9. CASE HotSnapshot
    BY <2>9 DEF HotSnapshot
  <2>10. CASE HotReady
    BY <2>10 DEF HotReady, SaveFails
  <2> QED
    BY <1>2, <2>1, <2>2, <2>3, <2>4, <2>5, <2>6, <2>7, <2>8, <2>9, <2>10 DEF HotStep
<1>3. CASE CleanStep
  <2>1. CASE CleanSkipRules
    BY <2>1 DEF CleanSkipRules, OwnsVfs
  <2>2. CASE CleanArm
    BY <2>2 DEF CleanArm, Arm
  <2>3. CASE CleanRefuse
    BY <2>3 DEF CleanRefuse
  <2>4. CASE CleanDelete
    BY <2>4 DEF CleanDelete
  <2>5. CASE CleanDeleteFail
    BY <2>5 DEF CleanDeleteFail
  <2>6. CASE CleanUids
    BY <2>6 DEF CleanUids
  <2>7. CASE CleanSave
    <3>1. CASE ledger' = ledger /\ Return
      BY <2>7, <3>1 DEF CleanSave
    <3>2. CASE ledger' = [ledger EXCEPT !.rules = NoRules, !.uids = {}] /\ pc' \in {"cmounts", "idle"}
      BY <2>7, <3>2 DEF CleanSave
    <3> QED
      BY ONLY <2>7, <3>1, <3>2 DEF CleanSave, SaveFails, Return, Goto
  <2>8. CASE CleanMounts
    BY <2>8 DEF CleanMounts
  <2>9. CASE CleanKsu
    BY <2>9 DEF CleanKsu
  <2>10. CASE CleanRelease
    <3>1. CASE ledger' = ledger /\ Return
      BY <2>10, <3>1 DEF CleanRelease
    <3>2. CASE ledger' = [ledger EXCEPT !.mounts = {}, !.ksu = {}] /\ pc' \in {"cdone", "idle"}
      BY <2>10, <3>2 DEF CleanRelease
    <3> QED
      BY ONLY <2>10, <3>1, <3>2 DEF CleanRelease, SaveFails, Return, Goto
  <2>11. CASE CleanDone
    <3>1. ledger'.phase \in {"clean", "cleaning"} /\ pc' \in {"csnap", "idle"}
      BY <2>11 DEF CleanDone, SaveFails
    <3> QED
      BY <3>1
  <2>12. CASE CleanSnap
    BY <2>12 DEF CleanSnap
  <2> QED
    BY <1>3, <2>1, <2>2, <2>3, <2>4, <2>5, <2>6, <2>7, <2>8, <2>9, <2>10, <2>11, <2>12 DEF CleanStep
<1>4. CASE Command
  <2>1. CASE BootStart
    BY <2>1 DEF BootStart, LedgerForBoot, FreshLedger, NoJob, UntrackedUids
  <2>2. CASE CleanStart
    BY <2>2 DEF CleanStart
  <2>3. CASE CleanNothing
    BY <2>3 DEF CleanNothing, LedgerForBoot, FreshLedger
  <2>4. ASSUME NEW m \in ModuleIds, NEW after \in Rules, NEW requested \in SUBSET Uids,
               HotStart(m, after, requested)
        PROVE  SnapInv'
    BY <2>4 DEF HotStart, HotAccepted, NoJob, RequireReady, Unblocked, Arm
  <2>5. ASSUME NEW m \in ModuleIds, NEW after \in Rules, NEW requested \in SUBSET Uids,
               HotArmFail(m, after, requested)
        PROVE  SnapInv'
    BY <2>5 DEF HotArmFail, HotAccepted, RequireReady, Unblocked
  <2> QED
    BY <1>4, <2>1, <2>2, <2>3, <2>4, <2>5 DEF Command
<1>5. CASE Environment
  <2>1. CASE Crash
    BY <2>1 DEF Crash
  <2>2. CASE Reboot
    BY <2>2 DEF Reboot, FreshLedger, NoJob
  <2>3. CASE GuardClear
    BY <2>3 DEF GuardClear
  <2>4. CASE GuardUpgrade
    BY <2>4 DEF GuardUpgrade
  <2>5. ASSUME NEW k \in Keys,
               ExtDel(k)
        PROVE  SnapInv'
    BY <2>5 DEF ExtDel
  <2>6. ASSUME NEW k \in Keys, NEW v \in ExtVals,
               ExtPut(k, v)
        PROVE  SnapInv'
    BY <2>6 DEF ExtPut
  <2>7. ASSUME NEW u \in ExtUids,
               ExtAddUid(u)
        PROVE  SnapInv'
    BY <2>7 DEF ExtAddUid
  <2>8. ASSUME NEW u \in Uids \cup ExtUids,
               ExtDelUid(u)
        PROVE  SnapInv'
    BY <2>8 DEF ExtDelUid
  <2> QED
    BY <1>5, <2>1, <2>2, <2>3, <2>4, <2>5, <2>6, <2>7, <2>8 DEF Environment
<1>6. CASE UNCHANGED vars
  BY <1>6 DEF vars
<1> QED
  BY <1>1, <1>2, <1>3, <1>4, <1>5, <1>6 DEF Next

LEMMA InitExact == Init => ExactInv /\ UidsOurs /\ OursInv /\ SnapInv
<1> SUFFICES ASSUME Init PROVE ExactInv /\ UidsOurs /\ OursInv /\ SnapInv
  OBVIOUS
<1> USE ConstantsAssumption DEF Init, FreshLedger, BootPcs, HotPcs
<1>1. ExactInv /\ UidsOurs
  BY DEF ExactInv, UidsOurs
<1>2. OursInv
  BY DEF OursInv, NoRules
<1>3. SnapInv
  BY DEF SnapInv
<1> QED
  BY <1>1, <1>2, <1>3

LEMMA ExactAlways == Spec => [](Inv /\ ExactInv /\ UidsOurs)
<1>1. Inv /\ ExactInv /\ UidsOurs /\ [Next]_vars => (ExactInv /\ UidsOurs)'
  BY ExactStep, UidsOursStep DEF Inv
<1> QED
  BY <1>1, InvAlways, InitExact, PTL DEF Spec

LEMMA OursAlways ==
  ASSUME PayloadsDiffer PROVE Spec => [](Inv /\ OursInv /\ SnapInv)
<1>1. Inv /\ OursInv /\ SnapInv /\ [Next]_vars => (OursInv /\ SnapInv)'
  BY OursStep, SnapStep DEF Inv
<1> QED
  BY <1>1, InvAlways, InitExact, PTL DEF Spec

(* A ledger becomes ready at the end of a boot, of a hot operation, or of one that
   was taken back. *)
LEMMA BecomesReady ==
  Next /\ ledger.phase # "ready" /\ ledger'.phase = "ready" /\ TypeOK =>
    (pc = "finish" /\ ledger' = Finished /\ UNCHANGED kernel) \/ HotReady \/ HotRecover
<1> SUFFICES ASSUME Next, ledger.phase # "ready", ledger'.phase = "ready", ledger \in Ledgers
             PROVE  \/ pc = "finish" /\ ledger' = Finished /\ UNCHANGED kernel
                    \/ HotReady \/ HotRecover
  BY DEF TypeOK, RunStates
<1> USE DEF kernel, files, Ledgers
<1>1. CASE BootStep
  BY <1>1 DEF BootStep, BootPlan, BootPlanFail, BootMount, BootMountFail, BootVfsSkip,
       BootVfsArm, BootVfsArmFail, BootVfsRefuse, BootVfsApply, BootVfsApplyFail,
       BootVfsRead, BootVfsReadFail, BootVfsDelete, BootVfsDeleteFail, BootKsu,
       BootSave, BootCommit, BootRollback, BootRollbackFail, BootFinish, BootFinishFail,
       SaveFails, Arm, ReadBack, StartupFailure, FromPlan
<1>2. CASE HotStep
  BY <1>2 DEF HotStep, HotIntent, Intent, Introduced, HotRefuse, HotAddUids, HotReconcile,
       HotReconcileFail, HotVerify, HotSync, HotSnapshot, SaveFails
<1>3. CASE CleanStep
  BY <1>3 DEF CleanStep, CleanSkipRules, CleanArm, CleanRefuse, CleanDelete, CleanUids,
       CleanDeleteFail, CleanSave, CleanMounts, CleanKsu, CleanRelease, CleanDone, CleanSnap,
       SaveFails, Arm
<1>4. CASE Command
  <2>1. CASE BootStart
    BY <2>1 DEF BootStart, LedgerForBoot, FreshLedger, UntrackedUids
  <2>2. CASE CleanStart
    BY <2>2 DEF CleanStart
  <2>3. CASE CleanNothing
    BY <2>3 DEF CleanNothing, LedgerForBoot, FreshLedger
  <2>4. ASSUME NEW m \in ModuleIds, NEW after \in Rules, NEW requested \in SUBSET Uids,
               HotStart(m, after, requested) \/ HotArmFail(m, after, requested)
        PROVE  FALSE
    BY <2>4 DEF HotStart, HotArmFail, HotAccepted, RequireReady, Unblocked, Arm
  <2> QED
    BY <1>4, <2>1, <2>2, <2>3, <2>4 DEF Command
<1>5. CASE Environment
  BY <1>5 DEF Environment, Crash, Reboot, GuardClear, GuardUpgrade, ExtDel, ExtPut,
       ExtAddUid, ExtDelUid, FreshLedger
<1> QED
  BY <1>1, <1>2, <1>3, <1>4, <1>5 DEF Next

(* A ledger that becomes ready names what is live, as it is, and no intent (finish,
   hot apply, the recovered rollback of one). *)
THEOREM ReadyAlwaysExact == Spec => ReadyIsExact
<1> DEFINE Exact == /\ \A k \in Dom(ledger'.rules) : krules'[k] = ledger'.rules[k]
                    /\ mine' \subseteq Dom(ledger'.rules)
                    /\ ledger'.uids \subseteq kuids'
                    /\ ledger'.mounts = kmounts' /\ ledger'.ksu = kksu'
                    /\ ledger'.pending = NoRules
           Commits == ledger.phase # "ready" /\ ledger'.phase = "ready" => Exact
<1>1. Inv /\ Inv' /\ ExactInv /\ [Next]_vars => [Commits]_vars
  <2> SUFFICES ASSUME Inv, Inv', ExactInv, Next, ledger.phase # "ready", ledger'.phase = "ready"
               PROVE  Exact
    OBVIOUS
  <2>1. mine' \subseteq Dom(ledger'.rules)
    <3>1. \A k \in mine' : krules'[k] = ledger'.rules[k] /\ krules'[k] # None /\ k \in Keys
      BY DEF Inv, TypeOK, RulesInv, RulesRecorded, Settled, RunStates
    <3> QED
      BY <3>1 DEF Dom
  <2>2. CASE pc = "finish" /\ ledger' = Finished /\ UNCHANGED kernel
    <3> DEFINE rejected == Provider = "nomount" /\ Dom(ledger.pending) # {} /\ runActive = {}
               planned == IF rejected THEN NoRules ELSE ledger.pending
               requested == IF rejected THEN {} ELSE ledger.uids
               verified == \A k \in runActive : planned[k] # None /\ krules[k] = planned[k]
    <3>1. /\ ledger'.phase = IF job.ok /\ verified THEN "ready" ELSE "error"
          /\ ledger'.rules = [k \in Keys |-> IF krules[k] = planned[k] THEN planned[k] ELSE None]
          /\ ledger'.pending = IF verified THEN NoRules ELSE planned
          /\ ledger'.uids = (kuids \cap requested) \ job.orig
          /\ ledger'.mounts = kmounts \cap job.eff
          /\ ledger'.ksu = kksu
      BY <2>2, FinishedFields DEF Inv
    <3>2. UNCHANGED <<krules, kuids, kmounts, kksu>>
      BY <2>2 DEF kernel
    <3>3. kmounts \subseteq job.eff
      BY <2>2 DEF Inv, MountsInv, BootPcs
    <3> HIDE DEF planned, requested
    <3>4. \A k \in Dom(ledger'.rules) : krules'[k] = ledger'.rules[k]
      BY <3>1, <3>2 DEF Dom
    <3> QED
      BY <2>1, <3>1, <3>2, <3>3, <3>4
  <2>3. CASE HotReady
    <3>1. /\ ledger' = [ledger EXCEPT !.phase = "ready"] /\ pc = "hotready"
          /\ UNCHANGED <<krules, kuids, kmounts, kksu>>
      BY <2>3 DEF HotReady, SaveFails, kernel
    <3>2. OwnedLive /\ ledger.uids \subseteq kuids /\ ledger.pending = NoRules
          /\ ledger.mounts = kmounts /\ ledger.ksu = kksu
      BY <3>1 DEF ExactInv, HotPcs
    <3> QED
      BY <2>1, <3>1, <3>2 DEF OwnedLive, Inv, TypeOK, Ledgers, RunStates
  <2>4. CASE HotRecover
    <3>1. pc = "recover" /\ UNCHANGED <<krules, kmounts, kksu>>
      BY <2>4 DEF HotRecover
    <3>2. /\ OwnedLive
          /\ ledger' = [ledger EXCEPT !.phase = "ready", !.pending = NoRules,
                                      !.uids = @ \ job.intro]
          /\ \E gone \in SUBSET job.intro : kuids' = kuids \ gone
      <4>1. PICK gone \in SUBSET job.intro, readable, uidsRead, saved \in BOOLEAN :
              LET rulesRecovered == RulesRecovered /\ readable
                  recovered == /\ rulesRecovered /\ uidsRead
                               /\ job.orig \subseteq kuids' /\ kuids' \cap job.intro = {}
              IN /\ kuids' = kuids \ gone
                 /\ ledger' = IF ~saved THEN ledger
                              ELSE IF recovered
                              THEN [ledger EXCEPT !.phase = "ready", !.pending = NoRules,
                                                  !.uids = @ \ job.intro]
                              ELSE [ledger EXCEPT !.phase = "error"]
        BY <2>4 DEF HotRecover
      <4>2. [ledger EXCEPT !.phase = "error"].phase = "error"
        BY DEF Inv, TypeOK, Ledgers, RunStates
      <4> QED
        BY <4>1, <4>2 DEF RulesRecovered
    <3>3. ledger.uids \subseteq kuids \cup job.intro /\ ledger.mounts = kmounts /\ ledger.ksu = kksu
      BY <3>1 DEF ExactInv, HotPcs
    <3>4. /\ ledger'.rules = ledger.rules /\ ledger'.pending = NoRules
          /\ ledger'.uids = ledger.uids \ job.intro
          /\ ledger'.mounts = ledger.mounts /\ ledger'.ksu = ledger.ksu
      BY <3>2 DEF Inv, TypeOK, Ledgers, RunStates
    <3> QED
      BY <2>1, <3>1, <3>2, <3>3, <3>4 DEF OwnedLive
  <2> QED
    BY <2>2, <2>3, <2>4, BecomesReady DEF Inv
<1> QED
  BY <1>1, ExactAlways, PTL DEF ReadyIsExact, Spec

(* An operation takes away no isolation that another tool added (the error path of
   the hot transaction, cleanup). *)
THEOREM ForeignUidsAlwaysUntouched == Spec => ForeignUidsUntouched
<1> DEFINE Kept == OwnStep => kuids \ mineUids \subseteq kuids'
<1>1. Inv /\ UidsOurs /\ [Next]_vars => [Kept]_vars
  <2> SUFFICES ASSUME Inv, UidsOurs, Next, OwnStep, ~(kuids \subseteq kuids')
               PROVE  kuids \ mineUids \subseteq kuids'
    OBVIOUS
  <2>1. CASE HotRecover
    <3>1. \E gone \in SUBSET job.intro : kuids' = kuids \ gone
      BY <2>1 DEF HotRecover
    <3>2. job.intro \subseteq ledger.uids /\ ledger.uids \cap kuids \subseteq mineUids
      BY <2>1 DEF HotRecover, UidsOurs, HotPcs
    <3> QED
      BY <3>1, <3>2
  <2>2. CASE CleanUids
    <3>1. ledger.uids \cap kuids \subseteq mineUids
      BY <2>2 DEF CleanUids, UidsOurs, Inv, PhaseInv, CleanPcs
    <3> QED
      BY <2>2, <3>1 DEF CleanUids
  <2>3. CASE Reboot
    BY <2>3 DEF Reboot, OwnStep, FreshLedger
  <2> QED
    BY <2>1, <2>2, <2>3, UidRemoval DEF OwnStep
<1> QED
  BY <1>1, ExactAlways, PTL DEF ForeignUidsUntouched, Spec

(* Every step of an operation leaves the rules of others, as long as they can be told
   apart; on hm a boot is the exception, since its adds replace. *)
LEMMA StepKeepsForeign ==
  ASSUME Inv, OursInv, Next, OwnStep, pc \in BootPcs => Provider = "nomount",
         NEW k \in Keys \ mine, krules[k] # None
  PROVE  krules'[k] = krules[k]
<1> USE DEF kernel, files, Written, Inv, TypeOK, LiveRules, BootPcs, RunStates
<1>1. CASE BootStep
  <2>1. CASE BootVfsApply \/ BootVfsApplyFail
    <3>1. k \notin Dom(ledger.pending)
      BY <1>1, <2>1 DEF BootVfsApply, BootVfsApplyFail, Collision
    <3> QED
      BY <1>1, <2>1, <3>1 DEF BootVfsApply, BootVfsApplyFail
  <2>2. CASE BootVfsDelete \/ BootVfsDeleteFail \/ BootRollback \/ BootRollbackFail
    <3>1. k \notin job.reg
      BY <2>2 DEF BootVfsDelete, BootVfsDeleteFail, BootRollback, BootRollbackFail, OursInv
    <3> QED
      BY <2>2, <3>1 DEF BootVfsDelete, BootVfsDeleteFail, BootRollback, BootRollbackFail
  <2>3. CASE UNCHANGED krules
    BY <2>3
  <2> QED
    BY <1>1, <2>1, <2>2, <2>3
    DEF BootStep, BootPlan, BootPlanFail, BootMount, BootMountFail, BootVfsSkip, BootVfsArm,
        BootVfsArmFail, BootVfsRefuse, BootVfsRead, BootVfsReadFail, BootKsu, BootSave,
        BootCommit, BootFinish, BootFinishFail, Arm, ReadBack, StartupFailure, FromPlan
<1>2. CASE HotStep
  <2>1. CASE HotReconcile \/ HotReconcileFail \/ HotVerify
    <3>1. k \notin Affected
      BY <2>1 DEF HotReconcile, HotReconcileFail, HotVerify, OursInv
    <3>2. k \notin job.before /\ k \notin Dom(job.after)
      BY <3>1 DEF Affected
    <3> QED
      <4>1. CASE UNCHANGED krules
        BY <4>1
      <4>2. CASE HotReconcile
        BY <3>2, <4>2 DEF HotReconcile
      <4>3. ASSUME NEW new \in SUBSET Dom(job.after), NEW old \in SUBSET job.before, Mixed(new, old)
            PROVE  krules'[k] = krules[k]
        BY <3>1, <3>2, <4>3 DEF Mixed
      <4> QED
        BY <2>1, <4>1, <4>2, <4>3 DEF HotReconcileFail, HotVerify
  <2>2. CASE UNCHANGED krules
    BY <2>2
  <2> QED
    BY <1>2, <2>1, <2>2
    DEF HotStep, HotIntent, HotRefuse, HotAddUids, HotRecover, HotSync, HotSnapshot, HotReady
<1>3. CASE CleanStep
  <2>1. CASE CleanDelete \/ CleanDeleteFail
    <3>1. k \notin Dom(ledger.rules)
      BY <2>1 DEF CleanDelete, CleanDeleteFail, OursInv
    <3> QED
      BY <2>1, <3>1 DEF CleanDelete, CleanDeleteFail
  <2>2. CASE UNCHANGED krules
    BY <2>2
  <2> QED
    BY <1>3, <2>1, <2>2
    DEF CleanStep, CleanSkipRules, CleanArm, CleanRefuse, CleanUids, CleanSave, CleanMounts,
        CleanKsu, CleanRelease, CleanDone, CleanSnap, Arm
<1>4. CASE Command
  BY <1>4 DEF Command, BootStart, CleanStart, CleanNothing, HotStart, HotArmFail, HotAccepted,
     OwnStep, RequireReady, Unblocked, Arm, UntrackedUids
<1>5. CASE Environment
  BY <1>5 DEF Environment, Crash, Reboot, GuardClear, GuardUpgrade, ExtDel, ExtPut,
       ExtAddUid, ExtDelUid, OwnStep, FreshLedger
<1> QED
  BY <1>1, <1>2, <1>3, <1>4, <1>5 DEF Next

(* No operation replaces or removes a rule of another tool, but for a boot on hm
   (collision check of the NoMount channel, hot preconditions, drift check). *)
THEOREM ForeignRulesAlwaysUntouched ==
  ASSUME PayloadsDiffer PROVE Spec => ForeignRulesUntouched
<1>1. Inv /\ OursInv /\ [Next]_vars =>
        [OwnStep /\ (pc \in BootPcs => Provider = "nomount") =>
           \A k \in Keys \ mine : krules[k] # None => krules'[k] = krules[k]]_vars
  BY StepKeepsForeign
<1> QED
  BY <1>1, OursAlways, PTL DEF ForeignRulesUntouched, Spec

(* The run state of a ready ledger shows exactly its rules (finish,
   refresh_snapshots). *)
THEOREM SnapshotAlwaysMatches ==
  ASSUME PayloadsDiffer PROVE Spec => []SnapshotMatchesLedger
<1>1. SnapInv => SnapshotMatchesLedger
  BY DEF SnapInv, SnapshotMatchesLedger
<1> QED
  BY <1>1, OursAlways, PTL
==============================================================================
