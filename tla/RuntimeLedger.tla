--------------------------- MODULE RuntimeLedger ---------------------------
(***************************************************************************)
(* Boot-scoped ownership of everything Hybrid Mount puts into the kernel:  *)
(* VFS rules, isolated UIDs, real mounts and KernelSU try-umount           *)
(* registrations.  Three operations share the ledger run/runtime.json and  *)
(* the operation lock: the boot pipeline, a hot load/unload/reload of one  *)
(* module, and prepare-reboot.  The lock admits one of them at a time, so  *)
(* the operation that holds it is the single process (pc, job); it can be  *)
(* killed between any two steps, and the kernel can restart at any time.   *)
(*                                                                         *)
(* A rule table is a function from keys (virtual path and uid) to the      *)
(* payload (real path and flags) or None.  One reconcile of rules.rs is    *)
(* one step with the outcomes it can leave behind.                         *)
(***************************************************************************)
EXTENDS Naturals

CONSTANTS
  Keys,       \* keys of the provider's rule table
  ModuleIds,  \* installed modules
  ModuleOf,   \* the module a key belongs to
  OurVals,    \* payloads Hybrid Mount can plan
  ExtVals,    \* payloads other writers of the rule table use
  Uids,       \* UIDs the configuration may ask to isolate
  ExtUids,    \* UIDs other writers may isolate
  Mounts,     \* mount targets of the boot plan
  Provider,   \* the VFS kernel provider: "hm" or "nomount"
  Strict,     \* config.vfs_strict
  MaxFaults,  \* bound on failing calls and killed processes in a behaviour
  None        \* no rule at a key

ASSUME ConstantsAssumption ==
  /\ ModuleOf \in [Keys -> ModuleIds]
  /\ None \notin OurVals \cup ExtVals
  /\ Provider \in {"hm", "nomount"}
  /\ Strict \in BOOLEAN
  /\ MaxFaults \in Nat

VARIABLES
  (* durable files *)
  ledger,     \* run/runtime.json, `current` when its boot_id is this boot's
  runActive,  \* run/state.json: vfs_active_mounts
  guard,      \* the VFS crash marker: "absent", "own" or "foreign"
  (* kernel *)
  krules,     \* live rule table
  kuids,      \* live isolated UIDs
  kmounts,    \* live mounts made by the pipeline
  kksu,       \* live try-umount registrations made by the pipeline
  (* the operation holding the lock *)
  pc,
  job,
  (* observation *)
  mine,       \* keys whose live record was written by Hybrid Mount
  mineUids,   \* live UIDs whose isolation Hybrid Mount added
  faults      \* faults left in this behaviour

kernel == <<krules, kuids, kmounts, kksu, mine, mineUids>>
files == <<ledger, runActive, guard>>
vars == <<ledger, runActive, guard, krules, kuids, kmounts, kksu,
          pc, job, mine, mineUids, faults>>

Rules == [Keys -> OurVals \cup {None}]
NoRules == [k \in Keys |-> None]
Dom(rules) == {k \in Keys : rules[k] # None}

Phases == {"clean", "applying", "ready", "syncing", "cleaning", "error"}

Ledgers == [current : BOOLEAN, phase : Phases, rules : Rules, pending : Rules,
            uids : SUBSET Uids, mounts : SUBSET Mounts, ksu : SUBSET Mounts]

(* Of the run state, run/state.json, the VFS targets it reports active. *)
RunStates == SUBSET Keys

(* The ledger of a boot that has none yet. *)
FreshLedger == [current |-> TRUE, phase |-> "clean", rules |-> NoRules,
                pending |-> NoRules, uids |-> {}, mounts |-> {}, ksu |-> {}]

(* A ledger another kernel boot wrote owns nothing here. *)
LedgerForBoot == IF ledger.current THEN ledger ELSE FreshLedger

RequireClean(l) ==
  /\ l.phase = "clean"
  /\ l.rules = NoRules /\ l.pending = NoRules
  /\ l.uids = {} /\ l.mounts = {} /\ l.ksu = {}

(* Hot operations need a boot, or an operation before them, that completed. *)
RequireReady(l) == l.phase = "ready"

BootPcs == {"plan", "mount", "vfs", "vfsread", "vfsdel", "ksu", "save",
            "commit", "rollback", "finish"}
HotPcs == {"intent", "uids", "rules", "verify", "recover", "sync", "snapshot", "hotready"}
CleanPcs == {"crules", "cdelete", "cuids", "csave", "cmounts", "cksu",
             "crelease", "cdone", "csnap"}
Pcs == {"idle"} \cup BootPcs \cup HotPcs \cup CleanPcs

Jobs == [orig : SUBSET (Uids \cup ExtUids),  \* UIDs isolated before the operation
         before : SUBSET Keys,  \* hot: keys the module owns
         after : Rules,         \* hot: rules planned for the module
         intro : SUBSET Uids,   \* hot: UIDs requested, then introduced
         eff : SUBSET Mounts,   \* boot: targets whose mount was performed
         reg : SUBSET Keys,     \* boot: rules registered for rollback
         active : SUBSET Keys,  \* boot: VFS targets reported active
         ok : BOOLEAN]          \* boot: the pipeline succeeded

NoJob == [orig |-> {}, before |-> {}, after |-> NoRules, intro |-> {},
          eff |-> {}, reg |-> {}, active |-> {}, ok |-> FALSE]

Init ==
  /\ ledger = [FreshLedger EXCEPT !.current = FALSE]
  /\ runActive = {}
  /\ guard = "absent"
  /\ krules = NoRules /\ kuids = {} /\ kmounts = {} /\ kksu = {}
  /\ pc = "idle" /\ job = NoJob
  /\ mine = {} /\ mineUids = {}
  /\ faults = MaxFaults

(* A call that fails, or a process that is killed, uses up one fault. *)
Fault == faults > 0 /\ faults' = faults - 1

(* atomic_write renames before it syncs the directory: a save that fails may
   have replaced the file. *)
SaveFails(new) == ledger' \in {ledger, new} /\ Fault

(* The operation returns: the lock is released. *)
Return == pc' = "idle" /\ job' = NoJob

Goto(l) == pc' = l /\ job' = job

(* The table after the keys in `gone` were deleted and those in `put` written. *)
Written(gone, put, rules) ==
  [k \in Keys |-> IF k \in put THEN rules[k] ELSE IF k \in gone THEN None ELSE krules[k]]

(* The marker is put in place, after one that another build left was retired; one
   of this build's own refuses the mutation. *)
Arm == guard # "own" /\ guard' = "own"

-----------------------------------------------------------------------------
(* The boot pipeline *)

(* Rules and UIDs that are there before the boot are left alone, and the UIDs are
   remembered as such. *)
UntrackedUids == kuids

(* boot::start: only from a clean ledger; records intent before any effect.
   The failing save of interest is the one that replaced the file. *)
BootStart ==
  /\ pc = "idle"
  /\ RequireClean(LedgerForBoot)
  /\ ledger' = [LedgerForBoot EXCEPT !.phase = "applying"]
  /\ \/ pc' = "plan" /\ job' = [NoJob EXCEPT !.orig = UntrackedUids] /\ UNCHANGED faults
     \/ UNCHANGED <<pc, job>> /\ Fault
  /\ UNCHANGED <<runActive, guard, kernel>>

(* The run state of a plan: nothing is active yet. *)
FromPlan == {}

(* boot::stage_plan, then the planned run state replaces the last boot's.  A save
   that fails, of either file, ends the pipeline. *)
BootPlan(plan, requested) ==
  /\ pc = "plan"
  /\ ledger' = [ledger EXCEPT !.pending = plan, !.uids = requested]
  /\ \/ runActive' = FromPlan /\ UNCHANGED faults /\ Goto("mount")
     \/ runActive' \in {runActive, FromPlan} /\ Fault /\ Goto("finish")
  /\ UNCHANGED <<guard, kernel>>

(* A startup failure replaces the run state by an empty one, if that can be saved. *)
StartupFailure == runActive' \in {runActive, {}}

(* Configuration, scan, planning or stage_plan failed: finish records the error.
   stage_plan's own error is no startup failure. *)
BootPlanFail ==
  /\ pc = "plan"
  /\ Fault
  /\ StartupFailure
  /\ Goto("finish")
  /\ UNCHANGED <<ledger, guard, kernel>>

(* One overlay or magic mount; its target is an effect from then on. *)
BootMount(t) ==
  /\ pc = "mount"
  /\ t \notin kmounts
  /\ kmounts' = kmounts \cup {t}
  /\ pc' = pc /\ job' = [job EXCEPT !.eff = @ \cup {t}]
  /\ UNCHANGED <<files, krules, kuids, kksu, mine, mineUids, faults>>

BootMountFail ==
  /\ pc = "mount"
  /\ Fault
  /\ Goto("rollback")
  /\ UNCHANGED <<files, kernel>>

(* No VFS module is planned, or a marker of this build skips the backend;
   a marker that cannot be read or retired skips it too. *)
BootVfsSkip ==
  /\ pc = "mount"
  /\ \/ (Dom(ledger.pending) = {} \/ guard = "own") /\ UNCHANGED faults
     \/ Fault
  /\ Goto("ksu")
  /\ UNCHANGED <<files, kernel>>

BootVfsArm ==
  /\ pc = "mount"
  /\ Dom(ledger.pending) # {}
  /\ Arm
  /\ Goto("vfs")
  /\ UNCHANGED <<ledger, runActive, kernel, faults>>

(* The marker is created, then written and synced.  A failure after the creation
   is returned like any other error and leaves the marker. *)
ArmFails == guard # "own" /\ guard' \in {"absent", "own"} /\ Fault

BootVfsArmFail ==
  /\ pc = "mount"
  /\ Dom(ledger.pending) # {}
  /\ ArmFails
  /\ Goto("rollback")
  /\ UNCHANGED <<ledger, runActive, kernel>>

(* Where a VFS phase that failed with nothing of its own live goes. *)
AfterVfsFailure == IF Strict THEN "rollback" ELSE "ksu"

(* Only the NoMount channel looks for rules already at the planned keys. *)
Collision == Provider = "nomount" /\ \E k \in Dom(ledger.pending) : krules[k] # None

(* Collision, or the provider or its read-back fails; a rule that cannot be
   encoded fails the boot even when VFS is not strict. *)
BootVfsRefuse ==
  /\ pc = "vfs"
  /\ \/ Collision /\ UNCHANGED faults /\ Goto(AfterVfsFailure)
     \/ Fault /\ (Goto(AfterVfsFailure) \/ Goto("rollback"))
  /\ guard' = "absent"
  /\ UNCHANGED <<ledger, runActive, kernel>>

(* The whole batch and then the UIDs: adding a rule replaces the one at its key,
   adding an isolated UID again is accepted. *)
BootVfsApply ==
  /\ pc = "vfs"
  /\ ~Collision
  /\ LET plan == ledger.pending IN
     /\ krules' = Written({}, Dom(plan), plan)
     /\ mine' = mine \cup Dom(plan)
     /\ pc' = "vfsread" /\ job' = [job EXCEPT !.reg = Dom(plan)]
  /\ kuids' = kuids \cup ledger.uids
  /\ mineUids' = mineUids \cup (ledger.uids \ kuids)
  /\ UNCHANGED <<files, kmounts, kksu, faults>>

(* Part of the batch, or all of it and part of the UIDs.  A record that fails
   on hm has already taken out the one it was to replace. *)
BootVfsApplyFail ==
  /\ pc = "vfs"
  /\ ~Collision
  /\ Fault
  /\ LET plan == ledger.pending IN
     \E put \in SUBSET Dom(plan), uids \in SUBSET ledger.uids :
       \E lost \in SUBSET (Dom(plan) \ put) :
         /\ uids # {} => put = Dom(plan)
         /\ Provider = "nomount" => lost = {}
         /\ krules' = Written(lost, put, plan)
         /\ mine' = (mine \cup put) \ lost
         /\ kuids' = kuids \cup uids
         /\ mineUids' = mineUids \cup (uids \ kuids)
  /\ pc' = "vfsdel" /\ job' = [job EXCEPT !.reg = Dom(ledger.pending)]
  /\ UNCHANGED <<files, kmounts, kksu>>

(* An accepted batch proves nothing: every key of it is looked for in the table. *)
ReadBack == \A k \in job.reg : krules[k] # None

BootVfsRead ==
  /\ pc = "vfsread"
  /\ ReadBack
  /\ guard' = "absent"
  /\ pc' = "ksu" /\ job' = [job EXCEPT !.active = job.reg]
  /\ UNCHANGED <<ledger, runActive, kernel, faults>>

BootVfsReadFail ==
  /\ pc = "vfsread"
  /\ Fault
  /\ Goto("vfsdel")
  /\ UNCHANGED <<files, kernel>>

(* remove_rules: by key, whoever wrote the record.  UIDs are not taken back. *)
BootVfsDelete ==
  /\ pc = "vfsdel"
  /\ krules' = Written(job.reg, {}, krules)
  /\ mine' = mine \ job.reg
  /\ guard' = "absent"
  /\ pc' = AfterVfsFailure /\ job' = [job EXCEPT !.reg = {}]
  /\ UNCHANGED <<ledger, runActive, kuids, kmounts, kksu, mineUids, faults>>

BootVfsDeleteFail ==
  /\ pc = "vfsdel"
  /\ Fault
  /\ \E gone \in SUBSET job.reg :
       krules' = Written(gone, {}, krules) /\ mine' = mine \ gone
  /\ guard' = "absent"
  /\ Goto("rollback")
  /\ UNCHANGED <<ledger, runActive, kuids, kmounts, kksu, mineUids>>

(* ksu::commit_unmount_list registers queued targets until one fails. *)
BootKsu ==
  /\ pc = "ksu"
  /\ \E queued \in SUBSET job.eff :
       /\ \/ kksu' = queued /\ UNCHANGED faults /\ Goto("save")
          \/ kksu' \in SUBSET queued /\ Fault /\ Goto("rollback")
  /\ UNCHANGED <<files, krules, kuids, kmounts, mine, mineUids>>

(* scan.ret and run/state.json ("pending_commit") before the commit. *)
BootSave ==
  /\ pc = "save"
  /\ \/ runActive' = job.active /\ UNCHANGED faults /\ Goto("commit")
     \/ runActive' \in {runActive, job.active} /\ Fault /\ Goto("rollback")
  /\ UNCHANGED <<ledger, guard, kernel>>

(* A failed cleanup action makes the commit run every deferred rollback. *)
BootCommit ==
  /\ pc = "commit"
  /\ \/ pc' = "finish" /\ job' = [job EXCEPT !.ok = TRUE] /\ UNCHANGED faults
     \/ Fault /\ Goto("rollback")
  /\ UNCHANGED <<files, kernel>>

(* Every action is tried; record_mount_failure then empties the run state. *)
BootRollback ==
  /\ pc = "rollback"
  /\ krules' = Written(job.reg, {}, krules)
  /\ mine' = mine \ job.reg
  /\ kmounts' = {} /\ kksu' = {}
  /\ runActive' = {}
  /\ Goto("finish")
  /\ UNCHANGED <<ledger, guard, kuids, mineUids, faults>>

BootRollbackFail ==
  /\ pc = "rollback"
  /\ Fault
  /\ \E gone \in SUBSET job.reg :
       krules' = Written(gone, {}, krules) /\ mine' = mine \ gone
  /\ kmounts' \in SUBSET kmounts /\ kksu' \in SUBSET kksu
  /\ runActive' \in {runActive, {}}
  /\ Goto("finish")
  /\ UNCHANGED <<ledger, guard, kuids, mineUids>>

(* The requested UIDs that are isolated and were not before the boot. *)
OwnedUids(requested) == (kuids \cap requested) \ job.orig

(* Every target the run state reports active still has its planned rule. *)
Confirmed(planned) == \A k \in runActive : planned[k] # None /\ krules[k] = planned[k]

(* boot::finish: the effects found live become owned, the phase is decided. *)
Finished ==
  LET rejected == Provider = "nomount" /\ Dom(ledger.pending) # {} /\ runActive = {}
      planned == IF rejected THEN NoRules ELSE ledger.pending
      requested == IF rejected THEN {} ELSE ledger.uids
      verified == Confirmed(planned)
  IN [ledger EXCEPT
        !.phase = IF job.ok /\ verified THEN "ready" ELSE "error",
        !.rules = [k \in Keys |-> IF krules[k] = planned[k] THEN planned[k] ELSE None],
        !.pending = IF verified THEN NoRules ELSE planned,
        !.uids = OwnedUids(requested),
        !.mounts = kmounts \cap job.eff,
        !.ksu = kksu]

BootFinish ==
  /\ pc = "finish"
  /\ ledger' = Finished
  /\ Return
  /\ UNCHANGED <<runActive, guard, kernel, faults>>

(* A read or the save fails: the ledger on disk may still say "applying". *)
BootFinishFail ==
  /\ pc = "finish"
  /\ SaveFails(Finished)
  /\ Return
  /\ UNCHANGED <<runActive, guard, kernel>>

-----------------------------------------------------------------------------
(* Hot load, unload and reload of one module *)

OwnedLive == \A k \in Dom(ledger.rules) : krules[k] = ledger.rules[k]

Affected == job.before \cup Dom(job.after)

(* What the module's rules become: the other modules' rules stay. *)
Desired == [k \in Keys |-> IF k \in Affected THEN job.after[k] ELSE ledger.rules[k]]

(* hot::guard: no marker of this build is standing. *)
Unblocked == guard # "own"

(* hot::apply up to the guard: the ledger is ready, the recorded rules are live,
   no other writer's rule is at a new key.  A new load plans some rule, only a
   load or reload asks for UIDs. *)
HotAccepted(m, after, requested) ==
  /\ pc = "idle"
  /\ ledger.current /\ RequireReady(ledger)
  /\ Unblocked
  /\ OwnedLive
  /\ \A k \in Dom(after) : ModuleOf[k] = m
  /\ Dom(after) = {} => requested = {}
  /\ LET before == {k \in Dom(ledger.rules) : ModuleOf[k] = m} IN
     /\ before \cup Dom(after) # {}
     /\ \A k \in Dom(after) \ before : krules[k] = None

HotStart(m, after, requested) ==
  /\ HotAccepted(m, after, requested)
  /\ job' = [NoJob EXCEPT !.before = {k \in Dom(ledger.rules) : ModuleOf[k] = m},
                          !.after = after, !.intro = requested]
  /\ Arm
  /\ pc' = "intent"
  /\ UNCHANGED <<ledger, runActive, kernel, faults>>

HotArmFail(m, after, requested) ==
  /\ HotAccepted(m, after, requested)
  /\ ArmFails
  /\ UNCHANGED <<ledger, runActive, kernel, pc, job>>

(* Mutant: UIDs that are isolated already count as introduced. *)
IntroducedAll == job.intro

(* The UIDs the operation has to add: the requested ones that are not isolated. *)
Introduced == job.intro \ kuids

(* Mutants: the saved intent leaves out the desired rules, or the new UIDs, or
   takes every isolated UID for an owned one. *)
IntentWithoutRules == [ledger EXCEPT !.phase = "applying", !.uids = @ \cup Introduced]
IntentWithoutUids == [ledger EXCEPT !.phase = "applying", !.pending = Desired]
IntentAllUids == [ledger EXCEPT !.phase = "applying", !.pending = Desired,
                                !.uids = @ \cup kuids \cup Introduced]

Intent == [ledger EXCEPT !.phase = "applying", !.pending = Desired,
                         !.uids = @ \cup Introduced]

(* transaction::reconcile: intent is durable before the first mutation. *)
HotIntent ==
  /\ pc = "intent"
  /\ ledger.uids \subseteq kuids
  /\ ledger' = Intent
  /\ pc' = "uids"
  /\ job' = [job EXCEPT !.intro = Introduced, !.orig = kuids]
  /\ UNCHANGED <<runActive, guard, kernel, faults>>

(* An owned UID is gone, or the intent cannot be saved: nothing was touched. *)
HotRefuse ==
  /\ pc = "intent"
  /\ \/ ~(ledger.uids \subseteq kuids) /\ UNCHANGED <<ledger, faults>>
     \/ SaveFails(Intent)
  /\ guard' = "absent"
  /\ Return
  /\ UNCHANGED <<runActive, kernel>>

(* Mutant: a UID that cannot be added is passed over. *)
AddUidsLeniently ==
  /\ pc = "uids"
  /\ \E added \in SUBSET job.intro :
       /\ kuids' = kuids \cup added
       /\ mineUids' = mineUids \cup (added \ kuids)
       /\ IF added = job.intro THEN UNCHANGED faults ELSE Fault
  /\ Goto("rules")
  /\ UNCHANGED <<files, krules, kmounts, kksu, mine>>

HotAddUids ==
  /\ pc = "uids"
  /\ \E added \in SUBSET job.intro :
       /\ kuids' = kuids \cup added
       /\ mineUids' = mineUids \cup (added \ kuids)
       /\ \/ added = job.intro /\ UNCHANGED faults /\ Goto("rules")
          \/ Fault /\ Goto("recover")
  /\ UNCHANGED <<files, krules, kmounts, kksu, mine>>

(* rules::reconcile succeeds, or fails with a rollback that may be incomplete. *)
HotReconcile ==
  /\ pc = "rules"
  /\ krules' = Written(job.before, Dom(job.after), job.after)
  /\ mine' = (mine \ job.before) \cup Dom(job.after)
  /\ Goto("verify")
  /\ UNCHANGED <<files, kuids, kmounts, kksu, mineUids, faults>>

(* Rules a failed reconcile may leave: the recorded one, the planned one or none. *)
Mixed(new, old) ==
  /\ new \cap old = {}
  /\ krules' = [k \in Keys |-> IF k \in new THEN job.after[k]
                               ELSE IF k \in old THEN ledger.rules[k]
                               ELSE IF k \in Affected THEN None ELSE krules[k]]
  /\ mine' = (mine \ Affected) \cup new \cup old

HotReconcileFail ==
  /\ pc = "rules"
  /\ Fault
  /\ \E new \in SUBSET Dom(job.after), old \in SUBSET job.before : Mixed(new, old)
  /\ Goto("recover")
  /\ UNCHANGED <<files, kuids, kmounts, kksu, mineUids>>

(* The UIDs are read back once more after the rules are published; if that
   fails, the rules are reconciled back as far as that works. *)
HotVerify ==
  /\ pc = "verify"
  /\ \/ UNCHANGED <<krules, mine, faults>> /\ Goto("sync")
     \/ /\ Fault
        /\ \E new \in SUBSET Dom(job.after), old \in SUBSET job.before : Mixed(new, old)
        /\ Goto("recover")
  /\ UNCHANGED <<files, kuids, kmounts, kksu, mineUids>>

(* Mutants: new rules, or the old ones, are not looked at. *)
RecoveredOwned == OwnedLive
RecoveredNew == \A k \in Dom(job.after) \ job.before : krules[k] = None

RulesRecovered == OwnedLive /\ \A k \in Dom(job.after) \ job.before : krules[k] = None

(* The error path of transaction::reconcile.  A failing read-back counts as not
   recovered, a failing save leaves the intent on disk.  The introduced UIDs are
   taken back one by one only when no new rule is live. *)
HotRecover ==
  /\ pc = "recover"
  /\ \E gone \in SUBSET job.intro, readable, uidsRead, saved \in BOOLEAN :
       LET rulesRecovered == RulesRecovered /\ readable
           recovered == /\ rulesRecovered /\ uidsRead
                        /\ job.orig \subseteq kuids' /\ kuids' \cap job.intro = {}
           flawless == /\ saved
                       /\ RulesRecovered => readable /\ uidsRead /\ kuids' \cap job.intro = {}
       IN /\ gone \subseteq kuids
          /\ rulesRecovered \/ gone = {}
          /\ kuids' = kuids \ gone
          /\ mineUids' = mineUids \ gone
          /\ ledger' = IF ~saved THEN ledger
                       ELSE IF recovered
                       THEN [ledger EXCEPT !.phase = "ready", !.pending = NoRules,
                                           !.uids = @ \ job.intro]
                       ELSE [ledger EXCEPT !.phase = "error"]
          /\ IF flawless THEN UNCHANGED faults ELSE Fault
  /\ guard' = "absent"
  /\ Return
  /\ UNCHANGED <<runActive, krules, kmounts, kksu, mine>>

(* Ownership is complete; only the snapshots are left.  Each of the three saves
   can fail, and the command then returns its error. *)
HotSync ==
  /\ pc = "sync"
  /\ LET synced == [ledger EXCEPT !.phase = "syncing", !.rules = ledger.pending,
                                  !.pending = NoRules]
     IN \/ ledger' = synced /\ Goto("snapshot") /\ UNCHANGED <<guard, faults>>
        \/ SaveFails(synced) /\ Return /\ guard' = "absent"
  /\ UNCHANGED <<runActive, kernel>>

(* Mutant: the snapshot is rebuilt from the module's own rules. *)
SnapshotOfModule ==
  /\ pc = "snapshot"
  /\ runActive' = Dom(job.after)
  /\ Goto("hotready")
  /\ UNCHANGED <<ledger, guard, kernel, faults>>

HotSnapshot ==
  /\ pc = "snapshot"
  /\ \/ runActive' = Dom(ledger.rules) /\ Goto("hotready") /\ UNCHANGED <<guard, faults>>
     \/ runActive' \in {runActive, Dom(ledger.rules)} /\ Fault /\ Return /\ guard' = "absent"
  /\ UNCHANGED <<ledger, kernel>>

HotReady ==
  /\ pc = "hotready"
  /\ LET ready == [ledger EXCEPT !.phase = "ready"] IN
     (ledger' = ready /\ UNCHANGED faults) \/ SaveFails(ready)
  /\ guard' = "absent"
  /\ Return
  /\ UNCHANGED <<runActive, kernel>>

-----------------------------------------------------------------------------
(* prepare-reboot: boot::cleanup *)

(* Nothing is owned: only the snapshots are refreshed. *)
CleanNothing ==
  /\ pc = "idle"
  /\ RequireClean(LedgerForBoot)
  /\ runActive' = {}
  /\ UNCHANGED <<ledger, guard, kernel, pc, job, faults>>

(* "applying" and "error" are refused: ownership is never guessed. *)
CleanStart ==
  /\ pc = "idle"
  /\ ledger.current /\ ledger.phase \in {"ready", "syncing", "cleaning"}
  /\ ledger' = [ledger EXCEPT !.phase = "cleaning"]
  /\ \/ Goto("crules") /\ UNCHANGED faults
     \/ UNCHANGED <<pc, job>> /\ Fault
  /\ UNCHANGED <<runActive, guard, kernel>>

(* Mutant: owned UIDs alone are not worth a cleanup. *)
OwnsRules == ledger.rules # NoRules

OwnsVfs == ledger.rules # NoRules \/ ledger.uids # {}

(* Mutants: no drift is ever seen; a key an earlier attempt deleted is drift. *)
NoDrift == FALSE
DriftOrMissing == \E k \in Dom(ledger.rules) : krules[k] # ledger.rules[k]

(* A recorded key holds another writer's rule.  A key with no rule is what an
   earlier attempt left. *)
Drift == \E k \in Dom(ledger.rules) : krules[k] \notin {ledger.rules[k], None}

CleanSkipRules ==
  /\ pc = "crules"
  /\ ~OwnsVfs
  /\ Goto("cmounts")
  /\ UNCHANGED <<files, kernel, faults>>

CleanArm ==
  /\ pc = "crules"
  /\ OwnsVfs /\ ~Drift
  /\ Arm
  /\ Goto("cdelete")
  /\ UNCHANGED <<ledger, runActive, kernel, faults>>

(* The error is recorded; the phase stays "cleaning". *)
CleanRefuse ==
  /\ pc = "crules"
  /\ OwnsVfs
  /\ \/ (Drift \/ guard = "own") /\ UNCHANGED <<guard, faults>>
     \/ Fault /\ UNCHANGED guard
     \/ ~Drift /\ ArmFails
  /\ Return
  /\ UNCHANGED <<ledger, runActive, kernel>>

CleanDelete ==
  /\ pc = "cdelete"
  /\ krules' = Written(Dom(ledger.rules), {}, krules)
  /\ mine' = mine \ Dom(ledger.rules)
  /\ Goto("cuids")
  /\ UNCHANGED <<files, kuids, kmounts, kksu, mineUids, faults>>

(* The delete stops part way and its rollback restores what it can. *)
CleanDeleteFail ==
  /\ pc = "cdelete"
  /\ Fault
  /\ \E gone \in SUBSET Dom(ledger.rules) :
       krules' = Written(gone, {}, krules) /\ mine' = mine \ gone
  /\ guard' = "absent"
  /\ Return
  /\ UNCHANGED <<ledger, runActive, kuids, kmounts, kksu, mineUids>>

(* Recorded UIDs that are still isolated are released one by one. *)
CleanUids ==
  /\ pc = "cuids"
  /\ \E gone \in SUBSET ledger.uids :
       /\ kuids' = kuids \ gone
       /\ mineUids' = mineUids \ gone
       /\ \/ gone = ledger.uids /\ Goto("csave") /\ UNCHANGED <<guard, faults>>
          \/ Fault /\ Return /\ guard' = "absent"
  /\ UNCHANGED <<ledger, runActive, krules, kmounts, kksu, mine>>

(* The ledger forgets rules and UIDs before it releases the guard.  After a
   failed save the error path saves again, with both already forgotten; that can
   fail too. *)
CleanSave ==
  /\ pc = "csave"
  /\ LET released == [ledger EXCEPT !.rules = NoRules, !.uids = {}] IN
     \/ ledger' = released /\ Goto("cmounts") /\ UNCHANGED faults
     \/ SaveFails(released) /\ Return
  /\ guard' = "absent"
  /\ UNCHANGED <<runActive, kernel>>

(* Mutant: a target that cannot be detached is passed over. *)
DetachLeniently ==
  /\ pc = "cmounts"
  /\ \E gone \in SUBSET ledger.mounts :
       /\ kmounts' = kmounts \ gone
       /\ IF gone = ledger.mounts THEN UNCHANGED faults ELSE Fault
  /\ Goto("cksu")
  /\ UNCHANGED <<files, krules, kuids, kksu, mine, mineUids>>

CleanMounts ==
  /\ pc = "cmounts"
  /\ \E gone \in SUBSET ledger.mounts :
       /\ kmounts' = kmounts \ gone
       /\ \/ gone = ledger.mounts /\ Goto("cksu") /\ UNCHANGED faults
          \/ Fault /\ Return
  /\ UNCHANGED <<files, krules, kuids, kksu, mine, mineUids>>

CleanKsu ==
  /\ pc = "cksu"
  /\ \E gone \in SUBSET ledger.ksu :
       /\ kksu' = kksu \ gone
       /\ \/ gone = ledger.ksu /\ Goto("crelease") /\ UNCHANGED faults
          \/ Fault /\ Return
  /\ UNCHANGED <<files, krules, kuids, kmounts, mine, mineUids>>

CleanRelease ==
  /\ pc = "crelease"
  /\ LET released == [ledger EXCEPT !.mounts = {}, !.ksu = {}] IN
     \/ ledger' = released /\ Goto("cdone") /\ UNCHANGED faults
     \/ SaveFails(released) /\ Return
  /\ UNCHANGED <<runActive, guard, kernel>>

CleanDone ==
  /\ pc = "cdone"
  /\ LET done == [ledger EXCEPT !.phase = "clean", !.pending = NoRules] IN
     \/ ledger' = done /\ Goto("csnap") /\ UNCHANGED faults
     \/ SaveFails(done) /\ Return
  /\ UNCHANGED <<runActive, guard, kernel>>

CleanSnap ==
  /\ pc = "csnap"
  /\ \/ runActive' = {} /\ UNCHANGED faults
     \/ runActive' \in {runActive, {}} /\ Fault
  /\ Return
  /\ UNCHANGED <<ledger, guard, kernel>>

-----------------------------------------------------------------------------
(* The environment *)

(* The process is killed: its lock goes with it, its guard marker does not. *)
Crash ==
  /\ pc # "idle"
  /\ Fault
  /\ Return
  /\ UNCHANGED <<files, kernel>>

(* A new kernel boot.  The ledger file survives, but of another boot's ledger
   nothing but its boot id is read again. *)
Reboot ==
  /\ ledger.current
  /\ ledger' = [FreshLedger EXCEPT !.current = FALSE]
  /\ krules' = NoRules /\ kuids' = {} /\ kmounts' = {} /\ kksu' = {}
  /\ mine' = {} /\ mineUids' = {}
  /\ Return
  /\ UNCHANGED <<runActive, guard, faults>>

(* `vfs guard clear`, run by the user. *)
GuardClear ==
  /\ pc = "idle" /\ guard = "own"
  /\ guard' = "absent"
  /\ UNCHANGED <<ledger, runActive, kernel, pc, job, faults>>

(* Another build is installed: the marker left behind is no longer its own. *)
GuardUpgrade ==
  /\ pc = "idle" /\ guard = "own"
  /\ guard' = "foreign"
  /\ UNCHANGED <<ledger, runActive, kernel, pc, job, faults>>

(* Other tools write the same tables between two operations. *)
ExtPut(k, v) ==
  /\ pc = "idle"
  /\ krules' = [krules EXCEPT ![k] = v]
  /\ mine' = mine \ {k}
  /\ UNCHANGED <<files, kuids, kmounts, kksu, mineUids, pc, job, faults>>

ExtDel(k) ==
  /\ pc = "idle" /\ krules[k] # None
  /\ krules' = [krules EXCEPT ![k] = None]
  /\ mine' = mine \ {k}
  /\ UNCHANGED <<files, kuids, kmounts, kksu, mineUids, pc, job, faults>>

ExtAddUid(u) ==
  /\ pc = "idle" /\ u \notin kuids \cup ledger.uids
  /\ kuids' = kuids \cup {u}
  /\ UNCHANGED <<files, krules, kmounts, kksu, mine, mineUids, pc, job, faults>>

ExtDelUid(u) ==
  /\ pc = "idle" /\ u \in kuids
  /\ kuids' = kuids \ {u} /\ mineUids' = mineUids \ {u}
  /\ UNCHANGED <<files, krules, kmounts, kksu, mine, pc, job, faults>>

-----------------------------------------------------------------------------

BootStep ==
  \/ \E plan \in Rules, requested \in SUBSET Uids : BootPlan(plan, requested)
  \/ BootPlanFail
  \/ \E t \in Mounts : BootMount(t)
  \/ BootMountFail
  \/ BootVfsSkip \/ BootVfsArm \/ BootVfsArmFail \/ BootVfsRefuse
  \/ BootVfsApply \/ BootVfsApplyFail
  \/ BootVfsRead \/ BootVfsReadFail
  \/ BootVfsDelete \/ BootVfsDeleteFail
  \/ BootKsu \/ BootSave \/ BootCommit
  \/ BootRollback \/ BootRollbackFail
  \/ BootFinish \/ BootFinishFail

HotStep ==
  \/ HotIntent \/ HotRefuse \/ HotAddUids
  \/ HotReconcile \/ HotReconcileFail \/ HotVerify \/ HotRecover
  \/ HotSync \/ HotSnapshot \/ HotReady

CleanStep ==
  \/ CleanSkipRules \/ CleanArm \/ CleanRefuse
  \/ CleanDelete \/ CleanDeleteFail \/ CleanUids \/ CleanSave
  \/ CleanMounts \/ CleanKsu \/ CleanRelease \/ CleanDone \/ CleanSnap

Command ==
  \/ BootStart \/ CleanStart \/ CleanNothing
  \/ \E m \in ModuleIds, after \in Rules, requested \in SUBSET Uids :
       HotStart(m, after, requested) \/ HotArmFail(m, after, requested)

Environment ==
  \/ Crash \/ Reboot \/ GuardClear \/ GuardUpgrade
  \/ \E k \in Keys : ExtDel(k) \/ \E v \in ExtVals : ExtPut(k, v)
  \/ \E u \in ExtUids : ExtAddUid(u)
  \/ \E u \in Uids \cup ExtUids : ExtDelUid(u)

Next == BootStep \/ HotStep \/ CleanStep \/ Command \/ Environment

Spec == Init /\ [][Next]_vars

(* The process runs on, prepare-reboot is repeated until it is done, and a
   marker a killed process left is cleared in the end. *)
FairSpec ==
  /\ Spec
  /\ WF_vars(BootStep \/ HotStep \/ CleanStep)
  /\ WF_vars(CleanStart)
  /\ SF_vars(GuardClear)

-----------------------------------------------------------------------------
(* Properties *)

AnyUids == Uids \cup ExtUids
LiveRules == [Keys -> OurVals \cup ExtVals \cup {None}]

(* Every variable has the shape the code gives it (Ledger in ledger.rs, the
   locals of the running operation). *)
TypeOK ==
  /\ ledger \in Ledgers
  /\ runActive \in RunStates
  /\ guard \in {"absent", "own", "foreign"}
  /\ krules \in LiveRules
  /\ kuids \in SUBSET AnyUids
  /\ kmounts \in SUBSET Mounts /\ kksu \in SUBSET Mounts
  /\ pc \in Pcs /\ job \in Jobs
  /\ mine \in SUBSET Keys /\ mineUids \in SUBSET Uids
  /\ faults \in 0..MaxFaults

Settled == ledger.phase \in {"clean", "ready", "syncing", "cleaning"}

(* No rule of Hybrid Mount's is live that the ledger on disk does not name with
   its payload: owned once the phase is settled, owned or intended while it is
   not (hot reconcile, boot stage_plan/finish, cleanup).  The exception is a
   NoMount boot that rejected its batch and then failed: finish forgets the
   plan, and only a full reboot leaves that phase. *)
RulesRecorded ==
  \A k \in mine :
    /\ ledger.current
    /\ \/ krules[k] = ledger.rules[k]
       \/ ~Settled /\ krules[k] = ledger.pending[k]
       \/ ledger.phase = "error" /\ Provider = "nomount"

(* Every UID whose isolation Hybrid Mount added, and that is still live, is in
   the ledger, so that prepare-reboot can release it (hm). *)
UidsRecorded ==
  Provider = "hm" => mineUids \subseteq ledger.uids /\ mineUids \subseteq kuids

(* Outside an unfinished boot, the ledger names every live mount and try-umount
   registration the pipeline made (boot::finish, release_mount_resources). *)
MountsRecorded ==
  ledger.phase # "applying" =>
    kmounts \subseteq ledger.mounts /\ kksu \subseteq ledger.ksu

(* A clean ledger, the only one boot::start accepts, means that nothing of
   Hybrid Mount's is live: no rule, mount or registration, and no UID on hm. *)
CleanMeansReleased ==
  ledger.phase = "clean" =>
    /\ mine = {} /\ kmounts = {} /\ kksu = {}
    /\ Provider = "hm" => mineUids = {}

(* While a hot operation has published a rule the ledger does not own yet, every
   UID it was to isolate is isolated (transaction.rs: "Isolation must be confirmed
   before publishing global file rules"). *)
IsolatedBeforePublished ==
  pc \in HotPcs /\ (\E k \in mine : krules[k] # ledger.rules[k]) =>
    job.intro \subseteq kuids

(* Between operations, the run state of a ready ledger advertises exactly the
   rules the ledger owns (finish, refresh_snapshots). *)
SnapshotMatchesLedger ==
  pc = "idle" /\ ledger.current /\ ledger.phase = "ready" =>
    runActive = Dom(ledger.rules)

(* Own steps of the operation that holds the lock. *)
OwnStep == pc # "idle" /\ pc' # pc /\ ledger'.current

(* Becoming ready commits what is live: every owned rule with its payload, every
   owned UID, and no intent is left over (finish, hot apply, recovered rollback). *)
ReadyIsExact ==
  [][ ledger.phase # "ready" /\ ledger'.phase = "ready" =>
        /\ \A k \in Dom(ledger'.rules) : krules'[k] = ledger'.rules[k]
        /\ mine' \subseteq Dom(ledger'.rules)
        /\ ledger'.uids \subseteq kuids'
        /\ ledger'.mounts = kmounts' /\ ledger'.ksu = kksu'
        /\ ledger'.pending = NoRules ]_vars

(* An operation takes an isolation away only when every rule of Hybrid Mount's
   still live is an owned one that was there before it: a rule that may be left
   over from a failed hot load keeps its isolation. *)
IsolationOutlivesRules ==
  [][ OwnStep /\ ~(kuids \subseteq kuids') =>
        \A k \in mine : krules[k] = ledger.rules[k] ]_vars

(* A rule another tool wrote is neither replaced nor removed by a hot operation
   or a cleanup, nor by a NoMount boot. *)
ForeignRulesUntouched ==
  [][ OwnStep /\ (pc \in BootPcs => Provider = "nomount") =>
        \A k \in Keys \ mine : krules[k] # None => krules'[k] = krules[k] ]_vars

(* An isolation another tool added is not taken away. *)
ForeignUidsUntouched ==
  [][ OwnStep => kuids \ mineUids \subseteq kuids' ]_vars

(* A cleanup that failed or was killed, or a hot operation whose snapshot failed,
   can be brought to a clean ledger without a reboot. *)
CleanupResumable ==
  ledger.phase = "cleaning" \/ (ledger.phase = "syncing" /\ pc = "idle")
    ~> ledger.phase = "clean"

-----------------------------------------------------------------------------
(* What the documentation says and the code does not do *)

(* docs/RUNTIME.md:19: prepare-reboot releases "owned VFS rules, isolation UIDs and
   real mounts".  A NoMount boot that degraded after it added UIDs forgets them. *)
CleanReleasesUids ==
  ledger.phase = "clean" => mineUids = {}
=============================================================================
