-------------------------- MODULE MountTransaction --------------------------
(***************************************************************************)
(* The cleanup journal of sys/transaction.rs, run by the boot pipeline: each *)
(* mount phase makes an effect and registers the action that undoes it, and *)
(* the journal is committed, rolled back, or dropped by a panic.  Actions   *)
(* run newest first, every one that is due is tried, and a failure is only  *)
(* collected.  The journal is kept newest first.                           *)
(***************************************************************************)
EXTENDS Naturals, Sequences

CONSTANTS
  Overlays,   \* overlay mount targets of the plan
  Binds,      \* magic mount targets of the plan
  Layers,     \* intermediate overlay staging mounts that may be needed
  MaxFaults   \* bound on failing calls in a behaviour

Targets == Overlays \cup Binds

(* The runtime temporary directory, the overlay storage, the magic staging,
   the VFS batch and the try-umount list. *)
Named == {"temp", "storage", "magic", "vfs", "ksu"}
Resources == Named \cup Targets \cup Layers

ASSUME TransactionAssumption ==
  /\ MaxFaults \in Nat
  /\ Named \cap (Targets \cup Layers) = {}
  /\ Overlays \cap Binds = {} /\ Targets \cap Layers = {}

VARIABLES
  conf,       \* [retain, storage, magic]: disable_umount, and what the plan needs
  pc,
  journal,    \* registered actions, newest first
  deferred,   \* actions a commit has set aside
  live,       \* effects that are in place
  emptied,    \* effects still in place whose content a recursive removal deleted
  known,      \* MountedTargets.paths
  failed,     \* actions that returned an error
  status,     \* rollback_status in run/state.json
  registered, \* observation: every action that was ever registered
  faults      \* observation: failing calls left

vars == <<conf, pc, journal, deferred, live, emptied, known, failed, status,
          registered, faults>>

Confs == [retain : BOOLEAN, storage : BOOLEAN, magic : BOOLEAN]
Mounting == {"temp", "storage", "staging", "overlay", "bind", "vfs", "ksu", "record"}
Pcs == Mounting \cup {"commit", "undo", "rollback", "drop", "committed", "aborted", "dropped"}

(* Everything that is mounted or made below the runtime temporary directory. *)
Beneath == {"storage", "magic"} \cup Layers

Retained == conf.retain /\ conf.storage

(* Mutant: the directory is not kept when the storage inside it is. *)
KindWithoutRetention(r) ==
  CASE r \in Targets \cup {"vfs", "ksu"} -> "RollbackOnly"
    [] r = "storage" -> "Retainable"
    [] OTHER -> "Cleanup"

(* ActionKind, as the pipeline registers each resource. *)
Kind(r) ==
  CASE r \in Targets \cup {"vfs", "ksu"} -> "RollbackOnly"
    [] r = "storage" -> "Retainable"
    [] r = "temp" /\ Retained -> "Retainable"
    [] OTHER -> "Cleanup"

Range(s) == {s[i] : i \in DOMAIN s}

Init ==
  /\ conf \in Confs
  /\ pc = "temp"
  /\ journal = <<"ksu">> /\ registered = {"ksu"}
  /\ deferred = <<>>
  /\ live = {} /\ emptied = {} /\ known = {} /\ failed = {}
  /\ status = "none"
  /\ faults = MaxFaults

Faults(n) == faults >= n /\ faults' = faults - n

-----------------------------------------------------------------------------
(* The mount phases *)

(* Mutant: the journal is run in the order of registration. *)
RegisterLast(r) == journal' = Append(journal, r) /\ registered' = registered \cup {r}

Register(r) == journal' = <<r>> \o journal /\ registered' = registered \cup {r}

Goto(l) == pc' = l

(* A phase makes r and registers its cleanup. *)
Make(r, next) ==
  /\ live' = live \cup {r}
  /\ Register(r)
  /\ Goto(next)
  /\ UNCHANGED <<conf, deferred, emptied, failed, status>>

(* A phase returns an error and registers nothing; what it made is gone, unless
   its own undo failed too. *)
Abandon(left) ==
  /\ live' = live \cup left
  /\ Goto("rollback")
  /\ UNCHANGED <<conf, journal, registered, deferred, emptied, known, failed, status>>

Skip(next) == Goto(next) /\ UNCHANGED <<conf, journal, deferred, live, emptied, known, failed,
                                        status, registered, faults>>

NeedsTemp == conf.storage \/ conf.magic

CreateTemp ==
  /\ pc = "temp"
  /\ \/ ~NeedsTemp /\ Skip("storage")
     \/ NeedsTemp /\ Make("temp", "storage") /\ UNCHANGED <<known, faults>>
     \/ NeedsTemp /\ Faults(1) /\ Abandon({})

(* storage::setup, then the state save and the copy into the storage.  A tmpfs
   without overlay attributes is detached before the ext4 fallback; if that
   fails, setup returns with the tmpfs mounted. *)
SetupStorage ==
  /\ pc = "storage"
  /\ \/ ~conf.storage /\ Skip("staging")
     \/ conf.storage /\ Make("storage", "staging") /\ UNCHANGED <<known, faults>>
     \/ conf.storage /\ Faults(1) /\ Make("storage", "rollback") /\ UNCHANGED known
     \/ conf.storage /\ Faults(1) /\ (Abandon({}) \/ Abandon({"storage"}))

(* MagicStagingGuard::mount.  When the staging cannot be made private it is
   detached; the result of that is ignored. *)
MountStaging ==
  /\ pc = "staging"
  /\ \/ ~conf.magic /\ Skip("overlay")
     \/ conf.magic /\ Make("magic", "overlay") /\ UNCHANGED <<known, faults>>
     \/ conf.magic /\ Faults(1) /\ Abandon({})
     \/ conf.magic /\ Faults(2) /\ Abandon({"magic"})

(* Mutant: a staging mount is reported like a target. *)
LayerAsTarget(l) ==
  /\ pc = "overlay" /\ conf.storage
  /\ l \notin registered
  /\ Make(l, "overlay")
  /\ known' = known \cup {l}
  /\ UNCHANGED faults

(* MountEffect::Staging and MountEffect::Target. *)
MountLayer(l) ==
  /\ pc = "overlay" /\ conf.storage
  /\ l \notin registered
  /\ Make(l, "overlay")
  /\ UNCHANGED <<known, faults>>

MountOverlay(t) ==
  /\ pc = "overlay" /\ conf.storage
  /\ t \notin registered
  /\ Make(t, "overlay")
  /\ known' = known \cup {t}
  /\ UNCHANGED faults

MountBind(t) ==
  /\ pc = "bind" /\ conf.magic
  /\ t \notin registered
  /\ Make(t, "bind")
  /\ known' = known \cup {t}
  /\ UNCHANGED faults

MountNext ==
  \/ pc = "overlay" /\ Skip("bind")
  \/ pc = "bind" /\ Skip("vfs")

MountFail ==
  /\ \/ pc = "overlay" /\ conf.storage
     \/ pc = "bind" /\ conf.magic
  /\ Faults(1)
  /\ Abandon({})

(* A bound file that cannot be made read-only is unbound again
   (rollback_magic_mount); if that fails as well it is reported in the error,
   and registered nowhere. *)
BindFail(t) ==
  /\ pc = "bind" /\ conf.magic
  /\ t \notin registered
  /\ Faults(2)
  /\ Abandon({t})

(* The batch is registered before it is applied.  A batch that was refused or
   could be taken back lets the boot go on when VFS is not strict. *)
ApplyVfs ==
  /\ pc = "vfs"
  /\ \/ Skip("ksu")
     \/ Make("vfs", "ksu") /\ UNCHANGED <<known, faults>>
     \/ Faults(1) /\ Make("vfs", "rollback") /\ UNCHANGED known
     \/ /\ Faults(1)
        /\ Register("vfs")
        /\ pc' \in {"ksu", "rollback"}
        /\ UNCHANGED <<conf, deferred, live, emptied, known, failed, status>>

(* ksu::commit_unmount_list; its rollback was registered before everything. *)
CommitKsu ==
  /\ pc = "ksu"
  /\ \/ Skip("record")
     \/ /\ live' = live \cup {"ksu"}
        /\ Goto("record")
        /\ UNCHANGED <<conf, journal, registered, deferred, emptied, known, failed, status, faults>>
     \/ Faults(1) /\ (Abandon({}) \/ Abandon({"ksu"}))

(* mountinfo is read, scan.ret and the run state are saved ("pending_commit"). *)
Record ==
  /\ pc = "record"
  /\ \/ status' = "pending" /\ Goto("commit") /\ UNCHANGED faults
     \/ status' \in {status, "pending"} /\ Goto("rollback") /\ Faults(1)
  /\ UNCHANGED <<conf, journal, deferred, live, emptied, known, failed, registered>>

(* A panic unwinds through the pipeline and drops the transaction. *)
Panic ==
  /\ pc \in Mounting
  /\ Faults(1)
  /\ Goto("drop")
  /\ UNCHANGED <<conf, journal, deferred, live, emptied, known, failed, status, registered>>

-----------------------------------------------------------------------------
(* Running the journal *)

(* The action of r succeeds.  The directory can only go when nothing is mounted
   below it. *)
Succeeds(r) ==
  /\ r = "temp" => live \cap Beneath = {}
  /\ live' = live \ {r} /\ emptied' = emptied \ {r}
  /\ UNCHANGED <<failed, faults>>

(* It fails before or after the effect is gone (a mountinfo lookup, the unmount,
   the loop device, removing the directory). *)
Fails(r) ==
  /\ Faults(1)
  /\ failed' = failed \cup {r}
  /\ \/ UNCHANGED <<live, emptied>>
     \/ /\ r = "temp" => live \cap Beneath = {}
        /\ live' = live \ {r} /\ emptied' = emptied \ {r}

(* remove_dir_all of the temporary directory enters what is still mounted below
   it and fails at the mount point. *)
EntersMounts(r) ==
  /\ r = "temp" /\ live \cap Beneath # {}
  /\ failed' = failed \cup {r}
  /\ emptied' = emptied \cup (live \cap Beneath)
  /\ UNCHANGED <<live, faults>>

(* MagicStagingGuard: the failed action drops the guard, whose drop takes a
   second failed lookup for "not mounted" and removes the tree. *)
DropEmpties(r) ==
  /\ r = "magic" /\ r \in live
  /\ Faults(2)
  /\ failed' = failed \cup {r}
  /\ emptied' = emptied \cup {r}
  /\ UNCHANGED live

RunAction(r) == Succeeds(r) \/ Fails(r) \/ EntersMounts(r) \/ DropEmpties(r)

(* Mutant: a commit sets only the retained resources aside. *)
DueRetainedOnly(r) == Kind(r) # "Retainable" \/ ~conf.retain

(* What a commit runs at once. *)
Due(r) == Kind(r) = "Cleanup" \/ (Kind(r) = "Retainable" /\ ~conf.retain)

CommitStep ==
  /\ pc = "commit" /\ journal # <<>>
  /\ journal' = Tail(journal)
  /\ \/ /\ ~Due(Head(journal))
        /\ deferred' = Append(deferred, Head(journal))
        /\ UNCHANGED <<live, emptied, failed, faults>>
     \/ /\ Due(Head(journal))
        /\ RunAction(Head(journal))
        /\ UNCHANGED deferred
  /\ UNCHANGED <<conf, pc, known, status, registered>>

(* Nothing failed: what was set aside is forgotten, and "committed" recorded; a
   save that fails here is only logged. *)
CommitDone ==
  /\ pc = "commit" /\ journal = <<>> /\ failed = {}
  /\ deferred' = <<>>
  /\ \/ status' = "committed" /\ UNCHANGED faults
     \/ status' \in {status, "committed"} /\ Faults(1)
  /\ Goto("committed")
  /\ UNCHANGED <<conf, journal, live, emptied, known, failed, registered>>

CommitFailed ==
  /\ pc = "commit" /\ journal = <<>> /\ failed # {}
  /\ Goto("undo")
  /\ UNCHANGED <<conf, journal, deferred, live, emptied, known, failed, status, registered, faults>>

(* Every deferred action, newest first as well. *)
UndoStep ==
  /\ pc = "undo" /\ deferred # <<>>
  /\ RunAction(Head(deferred))
  /\ deferred' = Tail(deferred)
  /\ UNCHANGED <<conf, pc, journal, known, status, registered>>

(* Mutant: a rollback stops at the first action that fails. *)
RollbackStopsEarly ==
  /\ pc \in {"rollback", "drop"} /\ journal # <<>>
  /\ RunAction(Head(journal))
  /\ journal' = IF failed' = {} THEN Tail(journal) ELSE <<>>
  /\ UNCHANGED <<conf, pc, deferred, known, status, registered>>

(* run_all *)
RollbackStep ==
  /\ pc \in {"rollback", "drop"} /\ journal # <<>>
  /\ RunAction(Head(journal))
  /\ journal' = Tail(journal)
  /\ UNCHANGED <<conf, pc, deferred, known, status, registered>>

(* What mountinfo still shows of the targets that were registered. *)
Leftover == known \cap live

(* Mutant: the verdict of the rollback does not look at the report. *)
VerdictOfMounts == IF Leftover = {} THEN "clean" ELSE "incomplete"

(* A rollback that reports no failure and leaves no difference is clean. *)
Verdict == IF failed = {} /\ Leftover = {} THEN "clean" ELSE "incomplete"

(* record_mount_failure; mountinfo may be unreadable, and the save may fail. *)
Verify ==
  /\ \/ pc = "rollback" /\ journal = <<>>
     \/ pc = "undo" /\ deferred = <<>>
  /\ LET verdict == IF pc = "rollback" THEN Verdict ELSE "incomplete" IN
     \/ status' = verdict /\ UNCHANGED faults
     \/ status' \in {status, verdict, "unverified"} /\ Faults(1)
  /\ Goto("aborted")
  /\ UNCHANGED <<conf, journal, deferred, live, emptied, known, failed, registered>>

(* A dropped transaction only logs. *)
Dropped ==
  /\ pc = "drop" /\ journal = <<>>
  /\ Goto("dropped")
  /\ UNCHANGED <<conf, journal, deferred, live, emptied, known, failed, status, registered, faults>>

Mount ==
  \/ CreateTemp \/ SetupStorage \/ MountStaging
  \/ \E l \in Layers : MountLayer(l)
  \/ \E t \in Overlays : MountOverlay(t)
  \/ \E t \in Binds : MountBind(t) \/ BindFail(t)
  \/ MountNext \/ MountFail
  \/ ApplyVfs \/ CommitKsu \/ Record \/ Panic

Finish ==
  \/ CommitStep \/ CommitDone \/ CommitFailed \/ UndoStep
  \/ RollbackStep \/ Verify \/ Dropped

Next == Mount \/ Finish

Spec == Init /\ [][Next]_vars

-----------------------------------------------------------------------------
(* Properties *)

Statuses == {"none", "pending", "committed", "clean", "incomplete", "unverified"}

(* Every variable has the shape the code gives it. *)
TypeOK ==
  /\ conf \in Confs /\ pc \in Pcs
  /\ journal \in Seq(Resources) /\ deferred \in Seq(Resources)
  /\ live \subseteq Resources /\ emptied \subseteq Resources
  /\ known \subseteq Targets /\ failed \subseteq Resources
  /\ registered \subseteq Resources
  /\ status \in Statuses
  /\ faults \in 0..MaxFaults

Failing == pc \in {"aborted", "dropped"}

(* Whichever way a pipeline fails (a phase, a save, a cleanup action of the commit,
   a panic), an effect whose cleanup was registered is gone, unless that very
   cleanup reported an error (commit, rollback, Drop). *)
AbortReleasesAll == Failing => live \cap registered \subseteq failed

(* A committed boot has every mount, rule and registration it made, with the
   layers below them intact; of its own temporary mounts exactly those are left
   that disable_umount retains. *)
CommitKeepsMounts ==
  pc = "committed" =>
    /\ registered \cap Targets \subseteq live
    /\ emptied = {}
    /\ live \cap ({"temp"} \cup Beneath) =
         IF Retained THEN {"temp", "storage"} ELSE {}

(* "clean" is only recorded when nothing that was registered is still there
   (rollback_mount_pipeline). *)
CleanIsReleased == status = "clean" => live \cap registered = {}

(* The content of something still mounted is deleted only when its own cleanup had
   failed before: the order of registration takes every mount off before the
   directory around it (run_all, commit, RuntimeTempDir). *)
EmptiedAfterFailure == emptied \cap registered \subseteq failed

Storages == live \cap {"temp", "storage", "magic"}

(* A rollback takes the storage, the staging and their directory away only after
   each target that was mounted from them has been taken off, or refused to. *)
TargetsBeforeStorage ==
  [][ Storages # Storages' /\ pc \in {"rollback", "drop"} =>
        live \cap registered \cap Targets \subseteq failed ]_vars
=============================================================================
