# A TLA+ model of Hybrid Mount

Hybrid Mount is a boot-time meta-module for KernelSU and APatch. It merges installed modules into
the system partitions with three mechanisms: OverlayFS mounts, Magic (bind) mounts, and rules of a
kernel VFS provider that injects paths without a mount. This directory holds TLA+ modules translated
from its source (`src/`), the TLC runs that check them on small instances, and TLAPS proofs about
them for every instance.

## Inventory

| Part | State it keeps | Operations | Interacts with |
| --- | --- | --- | --- |
| Runtime ledger (`runtime/ledger.rs`) | `run/runtime.json`: phase, owned and intended rules, UIDs, mounts, registrations, boot id | load, save, `require_clean`, `require_ready`, release | every operation below, under the lock file |
| Boot session (`runtime/boot.rs`) | the locals of one boot | start, stage_plan, finish, cleanup (prepare-reboot) | ledger, provider, mounts, KernelSU |
| Boot pipeline (`pipeline.rs`) | `run/state.json`, `scan.ret`, the mount transaction | overlay, magic, VFS, try-umount, commit, rollback | all of them |
| Mount transaction (`sys/transaction.rs`) | list of cleanup actions of three kinds | register, commit(retain), rollback, drop | boot pipeline |
| Hot operations (`runtime/hot.rs`, `runtime/transaction.rs`) | the module's old and new rules, introduced UIDs | load, unload, reload | ledger, provider, crash marker |
| Rule reconcile (`runtime/rules.rs`) | one snapshot of the provider's table | preflight, reconcile, rollback | provider |
| VFS backend (`vfs/exec.rs`, `vfs/backend.rs`) | planned batch | apply, read back, remove, UIDs | provider |
| Provider (`module/vfs/src/hybridmount.c`) | rule table with derived parents, UID list | ADD, DEL, ADD_UID, DEL_UID, GET_LIST, GET_UIDS | any writer with access |
| Crash markers (`vfs/boot_guard.rs`) | two marker files | arm, drop, inspect, retire, clear | boot, hot operations, cleanup, module loading |
| Owned mounts (`runtime/mounts.rs`) | identities (id, device, type, source) of mounts and of the baseline | capture, validate, cleanup | kernel mount table |
| Try-umount registrations (`utils/ksu_umount.rs`) | queued and installed targets | queue, commit, withdraw, rollback, release | KernelSU |
| Atomic writes (`sys/fs.rs`) | the file, temporary files beside it | create, write, sync, rename, sync directory, clean up old temporaries | ledger, run state, config |
| Configuration (`config.rs`) | `config.toml`, two module blacklists | strict and tolerant load, merge of a patch, reset | boot, hot operations, WebUI, the user's editor |
| Partitions (`partitions.rs`) | none (a layout of the mount namespace) | capture, discover, map a module path to its target | planner, hot operations |
| Scanner (`scanner.rs`) | none | module directories to entries | planner, hot operations, `modules` query |
| Planner (`plan/mod.rs`, `mount_tree.rs`) | none (computes a plan) | rules, sources, overlay layers, checks of the whole tree | boot, hot operations |
| Overlay (`overlayfs/`, `storage/`), Magic (`magic_mount/`) | the mounts, staging storage | stage, collapse, mount, restore child mounts; walk, bind, rebuild | boot, mount transaction |
| Run state (`state.rs`, `runtime/policy.rs`) | `run/state.json`, `scan.ret`, rows of modules in the ledger | report of a boot, refresh after a hot operation, `modules` query | boot, hot operations, WebUI |
| Module loading (`vfs/lkm.rs`, `sys/lkm*.rs`, `sys/nuke.rs`, `sys/process.rs`, `vfs/guard.rs`) | module-load marker, the object in the kernel, a running loader program | look for a provider, search, verify, adapt, insert by programs with a deadline, retire | markers, boot, NoMount |
| `vfs` command line (`vfs/cli.rs`, `vfs/control.rs`) | none | edits the provider without the lock | provider |
| WebUI, scripts, diagnostics | views and glue | | |

What is hard here: a process may be killed, or the kernel restarted, between any two of a long list
of effects; nearly every effect can fail, its undo can fail, and a failed save may still have
replaced the file (`sys/fs.rs` renames before it syncs the directory); other tools write the
provider's tables without the lock; a crash marker refuses work until a person clears it; three
backends that know little of each other act on one file tree, over partitions that may be real,
merged, aliased or unreadable. What makes the parts correct is ownership (what Hybrid Mount has put
into the kernel is named on disk before it can be lost, what others put there is left alone, and a
phase that is called clean or ready is really so) and agreement: what programs see after a boot is
what the modules gave and the configuration allowed, and the list of modules says the same.
`PROJECT.json` lists each hazard at its line with the properties aimed at it.

## Modules

### RuntimeLedger

The core: boot, hot load/unload/reload and prepare-reboot over one ledger. `OperationLock` lets one
of them run at a time, so the running one is a single process: `pc` is its next step and `job` its
locals.

| Model | Code |
| --- | --- |
| `ledger` | `Ledger` on disk; `current` says its boot id is this boot's |
| `runActive` | `vfs_active_mounts` of `run/state.json` |
| `guard` | the VFS crash marker: absent, of this build, of another build |
| `krules`, `kuids`, `kmounts`, `kksu` | the provider's rules and UIDs, the mounts and try-umount registrations of the pipeline |
| `mine`, `mineUids` | observation only: what Hybrid Mount itself wrote |
| `faults` | observation only: how many failures and kills are left |
| `BootStart` | `boot::start` |
| `BootPlan`, `BootPlanFail` | config to `stage_plan` and the first `state.save` of `run_mount_pipeline_impl` |
| `BootMount`, `BootMountFail` | overlay and magic phases |
| `BootVfs...` | `apply_vfs_phase` with `apply_rules_with_policy_diagnosed` |
| `BootKsu`, `BootSave`, `BootCommit`, `BootRollback` | try-umount commit, snapshots, transaction commit, rollback and `record_mount_failure` |
| `BootFinish` | `boot::finish` |
| `HotStart` ... `HotReady` | `hot::apply` and `transaction::reconcile`; `HotRecover` is the error path of the latter |
| `Clean...` | `boot::cleanup` and `cleanup_owned` |
| `Crash`, `Reboot` | the process is killed, the kernel restarts |
| `GuardClear`, `GuardUpgrade`, `Ext...` | the user, an upgrade, other writers |

A rule table is a function from keys (path and uid) to payloads (real path and flags). A reconcile
of `rules.rs` is one step with every outcome it may leave. Every save can fail before or after it
replaced the file (`SaveFails`).

Left out on purpose: other writers act between operations only, never inside one (the race that
`docs/RUNTIME.md` names); they do not re-isolate a UID the ledger names; refusals that change
nothing (an id mismatch in `mounts::validate`, an unknown module) are stuttering; nobody else
unmounts an owned target; a marker whose unlink fails is not modelled.

### MountTransaction

The cleanup journal of `sys/transaction.rs`, filled by the mount phases of `pipeline.rs` and run
when the boot commits, fails, or panics.

| Model | Code |
| --- | --- |
| `journal` | `MountTransaction.actions`, kept newest first (the order the code runs them in) |
| `deferred` | the actions a commit has set aside |
| `live`, `emptied` | effects in place; effects in place whose content a recursive removal deleted |
| `known` | `MountedTargets.paths` |
| `failed`, `status` | `RollbackReport.failures`, `rollback_status` of `run/state.json` |
| `registered`, `faults` | observation only |
| `CreateTemp`, `SetupStorage`, `MountStaging` | `RuntimeTempDir`, storage setup, `MagicStagingGuard` |
| `MountLayer`, `MountOverlay`, `MountBind` | one `MountEffect::Staging` or `::Target` each |
| `MountFail`, `BindFail` | an executor error; one whose own undo failed too |
| `ApplyVfs`, `CommitKsu`, `Record` | the VFS phase, try-umount commit, mountinfo, `scan.ret` and state saves |
| `CommitStep`, `CommitDone`, `CommitFailed`, `UndoStep` | `commit(retain)` and its error path |
| `RollbackStep`, `Dropped`, `Verify` | `rollback`, `Drop`, `record_mount_failure` |

A fault is spent for each failing call, so a path that needs two failures (the staging cannot be
made private *and* cannot be detached) costs two. RuntimeLedger takes a mount phase as one step; the
bind whose own undo failed, which nothing registered, exists only here.

### RuleTable

The rule table of the hm provider, as `hybridmount.c` keeps it under its write semaphore: one action
per call. Paths are those below the nearest native directory, where every directory is a rule of the
table.

| Model | Code |
| --- | --- |
| `rules` | the rules in the radix tree and their `next_uid` chains, by path and UID: payload, or derived |
| `up` | `parent_dir` of a rule, named by the rule that owns the directory node; a native directory; `Orphan` when that node was retired and no lookup reaches it |
| `ahead` | the order of `hybridmount_rules_list`, as the set of rules listed before |
| `Add` | `__hybridmount_add_rule` with `hybridmount_generate_virtual_topology`: `Missing` directories are generated, `Link` is what each new rule hangs from, `Heir` what the children of a replaced rule hang from |
| `AddLoses` | the error paths of the same function after it detached the rule it replaces |
| `Del` | `__hybridmount_del_rule`: `Preserve` when something hangs below, else detach and prune: `Pruned` is every directory with `HM_FLAG_VIRTUAL_DIR` that is left empty, derived ones and explicit opaque ones (`Opaque`) alike |
| `Clear` | `CLEAR_RULES` |
| `Visible(u)` | what `hybridmount_child_for_uid` lets a caller meet on its way down |

`DelKeepsOthers` says what a delete may do to other explicit rules: nothing, but for the opaque
directories it empties (`Emptied`), which is a finding below. Readers that hold a retired rule under
RCU, inodes and file operations are left out. So is what the code does with a pointer to a retired
node: rules below a directory that was dropped are `Orphan`s here, which nothing reaches and whose
delete prunes nothing, while in the code their `parent_dir` still names the node that `hm_free_rule`
has put.

### RuleTransaction

`rules.rs` reconciling one module's rules against RuleTable, which it extends, while the `vfs`
command line edits the same table without the lock. RuntimeLedger takes a reconcile as one step with
the outcomes exact, restored, or anything; here each record of each batch and each page of each
listing is a step.

| Model | Code |
| --- | --- |
| `before`, `after` | the arguments of `reconcile`, always of UID 0 as the planner makes them |
| `pc`, `todo` | the call or listing that is under way, and the rest of the batch it sends |
| `page` | the page of a batch that is processed: none or between two records, under the lock of a `DEL_RULE`, or with a record that failed |
| `cursor`, `seen` | `paginate`: the next index, the records read so far |
| `foreign`, `attempted` | the locals `foreign` and `put_attempted` |
| `start`, `quiet`, `ext`, `faults` | observation only: the state at the start, whether others wrote since, budgets |
| `BootPut`, `Begin` | the rules of the plan in place are put by the boot; reconcile is called |
| `Check`, `CheckFails` | `validate_snapshot`, `ordered` |
| `Delete`, `PutBegin`, `Put`, `PutEnd`, `Verify` | the closure `apply` |
| `Survey`, `Undo`, `Resurvey`, `Restore`, `Confirm` | `rollback` |
| `Record`, `FailsAt` | one record of a page: when it fails, those left in its page are processed all the same, the call answers with the error (`hm_process_payload`), and later pages are not sent (`apply_rules`, `remove_rules`) |
| `PutFails`, `DeleteFails`, `...Fails` | a record or call that fails without effect, half way, or after its effect |
| `Locked`, `Command` | `rule add`, `rule del`, `rule clear` of `vfs/control.rs`, at any time but while a page of deletes holds the lock; records of `ADD_RULE` take it one by one |

Where a batch is cut into pages is left to choice, since the code cuts it by bytes: after a failure
any part of the rest may still be processed. As long as nothing fails a cut makes no difference to a
batch of adds, and to one of deletes only by what comes between two pages. `Fault` counts calls, not
records: what fails later in a failing page costs nothing more.

### RuleExchange

What `reconcile` promises its callers, and RuleTransaction implements (`ReconcileIsExchange` is
`Contract!Spec`): from beginning to end it takes rules of two plans away or writes them, any number
at a time, and says what became of them.

| Model | Code |
| --- | --- |
| `table`, `entry` | the rules that were written, now and when `reconcile` was called; derived parents, which the provider adds and drops by itself, are not among them |
| `old`, `new` | `before` and `after`, as rules of UID 0 |
| `state` | not called, running, or what it returned: ok, refused by the first check, failed and rolled back clean or incomplete |
| `alone` | nobody else has written since; from then on nothing is promised |
| `Begin`, `Exchange`, `Finish` | the call, the effect of one record of a batch, the return |
| `Others` | the boot before the call, the command line during it |

### PartitionLayout, ModuleScan, MountPlan, MountView

The computations of a boot as operators, each a translation of one stage.

| Module | Model | Code |
| --- | --- | --- |
| PartitionLayout | `CaptureSnapshot`, `DiscoverLayout` | `capture_layout_snapshot`, the discovery of a layout from it |
| | `ChooseRoot`, `SameView`, `Identity` | which of `/vendor` and `/system/vendor` is the partition, and whether two names show one filesystem with the same mounts below |
| | `LogicalPartition`, `MapTarget`, `ProtectedTargets` | where a module path is mounted, and what may not be covered |
| ModuleScan | `ListModules`, `Entries` | the scan with markers, `.replace`, `.remove`, whiteouts and links |
| MountPlan | `ModuleRules`, `ResolveMode` | rules of `config.rs`: longest key wins, VFS without a provider is ignore |
| | `Decisions`, `SourceFor`, `StructuralSources` | what a module inserts into the shared tree, and who wins at a node |
| | `OverlayOf` (`WholeOverlay`, `PartialOverlay`) | layers and single files of one module |
| | `Consistent` | the checks of the whole tree, in which a conflict refuses the plan |
| MountView | `Layer`, `Collapsed`, `Overlay`, `Overlaid` | staged layers, their merge when they are too many, the mount and the child mounts it restores |
| | `Place`, `DirectTargets`, `ShallowEntries` | overlays at their target, and overlays at the nearest directory above a target that is missing |
| | `Rebuilt`, `MagicView`, `MagicFails` | the recursive walk: bound, built anew in a tmpfs with a mirror of what was there, or refused |
| | `VfsRules`, `Attachable`, `RuledView` | `vfs/rule.rs`, and what the provider makes of the rules |

A path is a sequence of components, so that the code's prefix tests are sequence prefixes. A module
path starts with the partition's name as in the module; a target is where that is mounted. Content
is abstracted to its identity: the module and the path of it that is seen, 0 for the device's own.

Two details are left out. A symbolic link to a directory is no directory in the model, while
`exists`, `read_dir` and `metadata` follow it (`magic_mount/exec.rs:274`, `:366`,
`pipeline.rs:1301`, `:1326`); no instance has one where it would matter. Names are abstract, so
that a name `map_target` rejects (`partitions.rs:99-109`), which fails the whole plan, does not occur.

### BootView

One boot from what is on disk to what programs see. The input (a device, module directories, a
configuration, whether the provider loads) is chosen in `Init`; `LayoutOf` and `PlanOf` are the
stages above applied to it.

| Model | Code |
| --- | --- |
| `view` | what a program finds at each path |
| `direct`, `shallow`, `mounted` | overlays still to be mounted, and mount points there are |
| `made` | what `on_effect` and the statistics of the executors report |
| `base`, `rules` | the view without rules, the rules in the provider |
| `MakePlan` | plan construction and the validation of every overlay's place |
| `MountDirect`, `MountShallow`, `MountMagic` | the two passes over the overlays, and the Magic phase |
| `RulesTaken`, `ProviderLeftOut`, `Fail` | `apply_vfs_phase`: applied, degraded, or failed under `vfs_strict` |

A failure takes everything back in one step; MountTransaction has how. The provider may fail for a
reason of its own in any boot that uses it.

### HotView

What follows a boot until the next one: the report, hot load, unload and reload, and the `modules`
query, while the user edits module directories and the configuration.

| Model | Code |
| --- | --- |
| `now` | directories and configuration as they are now; `moved`, a partition that another program remounted |
| `ledger` | modules not left to the provider, mounts of the boot, rows of modules, generation |
| `Commit` | the report of the boot: `AppModules`, `MountedModuleIds` of `state.rs` |
| `PlanHotModule`, `LayoutUnchanged`, `ConfiguredPlanOk` | `runtime/policy.rs`, and the plan of the whole configuration |
| `Preflight`, `Reconcile` | the refusal of overlapping foreign rules in `rules.rs`, the result of a reconcile |
| `Refreshed` | the refresh of the rows in `hot.rs` |
| `Load`, `Reload`, `Unload` | `runtime/hot.rs` |
| `Query` | the `modules` command: rows of the ledger merged with what is installed |

Abstractions: an operation that is refused or rolled back is no step (RuntimeLedger and
RuleTransaction have those); a remounted partition is one without a layout; the boot's own mounts do
not count as a change; a link in a module leads to something that is not a directory; derived
directories that an unload leaves behind are not shown (RuleTable has them); the view names the
source that was installed, not content that was edited later.

### LoadGuard

The marker around the insertion of a kernel module, for the VFS module (`module = "vfs"`) and for
the one that hides the ext4 staging from sysfs (`"nuke"`), with the programs that insert it and the
other provider that must not be there.

| Model | Code |
| --- | --- |
| `file`, `disks` | the marker as the system sees it; every state of it that a kernel crash may leave |
| `child` | the object that a running loader program (a way of `INSMOD_CANDIDATES`) is about to insert |
| `nomount` | NoMount as the kernel has it; `"late"`: it came after the loader last looked |
| `LkmCandidates`, `BundledCandidates` | the search order of `lkm_target.rs`, of what is packaged |
| `NomountAbsent`, `ProviderAbsent`, `NeedsLoad` | `vfs/guard.rs` and the probes before a load: no provider answers and none is in the way |
| `Refuse`, `Retire`, `BeginLoad`, `BeginNuke` | the look at the marker before loading |
| `Create`, `Arm`, `ArmFails` | `arm_at`: created, written, synced; a failure of each |
| `Spawn`, `StartDrain`, `WaitChild`, `CollectDrain` | `run_command` of `sys/process.rs` under `load_with_candidates` of `sys/lkm.rs`: start, reader threads, poll to the deadline or kill and wait, collect the output, ask whether the module answers |
| `Exhausted`, `Release` | no way was accepted and the clean-up; the drop of the marker, and the next candidate |
| `Insert`, `ChildExits`, `Nomount` | outside: the program inserts its object, ends; NoMount is loaded or taken out |
| `Crash`, `Kill`, `Clear`, `Install`, `Report` | kernel and process deaths, the user, an upgrade |
| `crashed`, `slack` | observation only: the interrupted attempt; whether a marker may be there without one |

An identity is a size and a modification time, so two objects may share one, and one that cannot be
read is `Unread`, as is an executable. How an ELF image is adapted is one of the ways to insert.
Abstractions: a program inserts by itself and not through a process of its own; when Hybrid Mount is
killed, the program it ran ends (with its object inserted or not) before anything else is tried; a
NoMount that shows neither in the module tables nor by its key type counts as absent, a probe that
fails as present.

### OwnedMounts

`runtime/mounts.rs` against a kernel mount table that other tools change at any step.

| Model | Code |
| --- | --- |
| `live` | the mount table: id, target, kind (device, type, source); `time` orders it |
| `base`, `owned` | the baseline of the boot; `OwnedMount` records with the baseline ids at their target |
| `Start`, `Mount`, `Capture` | `capture_snapshot` before and after the boot's mounts |
| `Validate` | `validate` before anything is released |
| `List`, `Check`, `Detach`, `ReadBack`, `Done`, `Fail` | `cleanup`: one mountinfo read, one look at what is visible, one lazy unmount, one read-back |
| `ExtMount`, `ExtUnmount`, `Reboot` | other tools, which do not know of the lock; ids that are free are used again |
| `raced` | observation only: a change between the look and the unmount |

### AtomicStore and ConfigStore

AtomicStore is the promise of `atomic_write`: a list of whole contents of which a power loss may
take back the newest, never one that was acknowledged. ConfigStore is `config.rs` over every step of
`atomic_write`, by processes without a lock, and implements it (`SavesAreAtomic` is
`AtomicFile!Spec` with `Visible` for the abstract list).

| Model | Code |
| --- | --- |
| `versions`, `durable`, `acked` | entries the file had; how far a power loss can go back; the newest save reported done |
| `temps`, `aged` | temporary files by pid and sequence number; those older than 24 hours |
| `lists` | states of the bundled and the persistent blacklist |
| `proc` | the locals of the process under each pid |
| `Begin`, `ReadMain`, `StatMissing`, `ReadBundled`, `ReadPersistent`, `Leave` | `load_for_boot`, `load_or_default`, `load_or_missing_tolerant`, blacklists |
| `Loaded`, `ApplyPatch`, `CheckTarget` | `save_config_payload`, `apply_patch`, the refusal of links in `save` |
| `Create` ... `SyncDirectory`, `Discard` | `atomic_write_with_sequence` |
| `CleanTemps` | `cleanup_stale_atomic_temp_files` |
| `Kill`, `Age`, `Edit`, `EditLists`, `PowerLoss` | the surroundings; an edit by another program is whole and durable in its order |

### The proof modules

RuntimeLedgerProofs, MountTransactionProofs, RuleTableProofs, RuleTransactionProofs,
LoadGuardProofs, OwnedMountsProofs, ConfigStoreProofs and BootViewProofs hold theorems, below. Each
MC module gives its component the constants of the instance below and nothing else.

## Runs

| Run | Instance | Shows |
| --- | --- | --- |
| `RuntimeLedgerHm` | hm provider, 2 keys in 2 modules, 2 payloads and 1 foreign one, UIDs u1, u2, 1 mount, 2 faults | type, ownership, isolation, snapshot invariants and the action properties |
| `RuntimeLedgerLive` | NoMount channel, strict VFS, no other writers, 2 faults, fair | an interrupted cleanup can be completed |
| `RuntimeLedgerUidLeak` | NoMount, 1 fault | finding: a degraded boot forgets its UIDs |
| `MountTransaction` | 2 overlay targets, 1 bind, 1 layer, 3 faults | every way out of the pipeline releases what it should and keeps what it should |
| `RuleTable` | a path, one below it, one below that; a global and a UID scope; real and opaque directories, files | links, list, and what a delete or a replacement may not hide, after any sequence of calls |
| `RuleTransaction` | a directory, real or opaque, with two paths in it, listed in pages of 2, 2 commands of others, 2 faults | Ok is exact, clean is as before, one failure is repaired, foreign records are kept; reconcile implements RuleExchange |
| `RuleTransactionReachable` | the same instance | finding: a clean rollback leaves rules nobody can reach |
| `BootView` | 2 modules of 16 trees, and of 8 odd ones, 12 configurations, 5 devices; 1 change and 2 hot operations after the boot | what is seen is what the modules gave, nothing leaks, nothing stock is lost, hot operations leave others alone, the list of modules is true |
| `BootViewReplace` | the same instance | finding: the `.replace` of a later module is dropped by the VFS backend |
| `LoadGuard` | 5 packages over 4 objects that share and lack identities | an interrupted insertion is not repeated, loading is refused only for a reason, and an object goes in only while its own marker is on disk |
| `OwnedMounts` | a partition, a directory, a file; 4 mounts of 2 kinds, 4 ids used again | cleanup keeps the baseline and the mounts of others its listing showed |
| `ConfigStore` | 2 processes, 2 calls, 1 edit, 1 power loss, 2 temporary names | a load or a merge comes from one state of the files; the file implements AtomicStore |

**Bounds.** Two keys in two modules are the least with which an operation on one module can disturb
the other; two payloads distinguish a replaced rule from the one it replaced, and one foreign
payload a rule of another writer. Two faults are the least that reach a failing undo of a failing
step, and a crash during the recovery from a failed save; the transaction has three, so that a phase
can fail together with its own undo and one action of the journal besides. One layer, two overlays
and a bind give each kind of journal entry, and one whose order relative to the others matters.
`MaxFaults` bounds only the number of failures; with no failures left every behaviour still
continues. Three nested paths give a rule with a directory above and one below, each of which can be
generated, explicit, or of the other UID; `MaxRules` (4 of 6 keys) leaves room for a whole chain and
a rule of the other UID beside it. An opaque directory among them is what a delete may prune with
derived ones. In RuleTransaction a plan has a directory, real or opaque, and a path in it, and one
plan both paths in it; otherwise the second path belongs to other tools, so that owned and foreign
rules share a directory; a page of 2 makes each listing longer than a page, with 2 commands others
can change the table before the first listing and again between two pages, and 2 faults make the
rollback fail as well. The order in which a batch takes paths of one depth (by name in the code) is
left to choice.

In BootView every ordered pair of trees meets under every configuration on a device with a vendor
partition: a file, a link, a whiteout and a directory at one place, the same below, `.replace` and
`.remove` at several depths, a directory the device lacks, both names of a partition. Two of the
configurations leave a directory of a module out and take a file below it (`Holed`). The other four
devices (vendor merged into system, vendor bind-mounted under both names, a mount below
`/system/etc`, a vendor that cannot be probed) meet the trees that touch what they differ in, under
the three plain backends. Eight trees that the planner does not put where their names say
(`OddTrees`: a link, file or whiteout for `system/vendor`, a `system` with a malformed `.remove`,
two paths for one target) meet each other on every device under every configuration. Two more
configurations bring about what the report does not look for (`TwoWays`, and a file for
`system/vendor`). `MaxLayers` is 3 where the code has 64: a directory with a layer of each module
and the device's own is at the limit, and one that single files are put into above their missing
targets, each in a layer of its own, is past it. Hot operations are looked at after the boots of
`HotInputs`: each of five trees with each, all VFS, or Magic with one VFS module; a module's tree
then becomes one of `LaterTrees`, the configuration one of `LaterConfigs`, or vendor is remounted.
One change and two operations (`MaxChanges`, `MaxOperations`) reach a load, reload or unload on
stale directories followed by one more. `LoadGuard` needs no bound: crashes, kills, upgrades and
retries are unlimited. In OwnedMounts four mounts (`MaxTime`, counted from the last reboot) with
four ids are enough for a baseline, an owned mount, a stranger on top or below, and an id that is
used again. In ConfigStore two calls (`MaxOps`) are the least in which one process saves while
another loads or saves, and two names (`MaxAttempts`, 32 in the code) the least in which a leftover
is passed over and the names run out; edits and power losses are one each (`MaxEdits`, `MaxLosses`),
kills are unlimited.

**Fairness.** `RuntimeLedgerLive` assumes weak fairness of the steps of a running operation (a
process that is not killed runs on), weak fairness of starting a cleanup (prepare-reboot is invoked
again; it is the command the manager runs before each reboot), and strong fairness of `GuardClear`
(a user who finds a marker in the way clears it, though an interrupted run may arm it again).
Failures are finite by `MaxFaults`. Without the last the system really may stop: a crash marker
refuses every mutation. The other runs check safety and need none.

**Deadlock** is checked for RuntimeLedger, LoadGuard and OwnedMounts, where some operation can
always start. It is off for MountTransaction and RuleTransaction, where a transaction that has come
to its end is over, for BootView, which ends after its hot operations, and for RuleTable and
ConfigStore, where `MaxRules` and `MaxOps` may leave nothing to do.

## Findings

Shown by a run:

- `CleanReleasesUids`: a NoMount boot that degrades after isolating UIDs clears them from the
  ledger; prepare-reboot then has nothing to release and the isolation stays.
- `CleanIsReachable`: `rules.rs` says recovery is reported according to actual state. A failing ADD
  of an installed directory rule retires its node and with it the way to every rule below. The
  records of the same page that follow are still processed, and an ADD of a rule below generates the
  directory anew, which the rollback then takes over; but when the rules below are on a later page,
  which `apply_rules` does not send (`vfs/backend.rs`, 142), the rollback restores the directory
  alone, since the others are still listed, and reports itself clean while they cannot be reached.
- `DelKeepsOthers` and its exception `Emptied`: `docs/VFS_CLI.md` (26) says `rule del` deletes by
  exact path and UID, and (43) that empty directories without opaque semantics are pruned. The
  pruning looks at `HM_FLAG_VIRTUAL_DIR` alone (`hybridmount.c`, 1984), which explicit opaque rules
  carry as well (2019): deleting the last rule below an opaque directory deletes that rule too, and
  the stock content it hid shows again. `RuleTable` checks that this is the only exception; without
  it the property is violated by three calls (add the opaque directory, add a rule below, delete
  that).
- `VfsReplaceIsWhole`: `plan/mod.rs` says a VFS `.replace` replaces its whole subtree; `vfs/rule.rs`
  looks only at the first source of the directory, so a `.replace` of a later module is dropped when
  an earlier one has the directory without it.

Met while modelling, without a run of their own:

- Ledger: a comment in `runtime/boot.rs` (268) says nothing later claims an untracked rule; an hm
  boot whose plan contains the key of a foreign rule replaces it (`pipeline.rs`, 1888), and `finish`
  records it (`boot.rs`, 97).
- Markers: `boot_guard.rs` (238) says any handled return clears an armed marker; when writing or
  syncing the new rule marker fails (256), arming returns an error and leaves the file with no crash
  behind it. An executable that cannot be read while arming makes the marker look like that of
  another build later.
- Module loading: `load_with_candidates` (`sys/lkm.rs`, 150) asks whether the module answers only
  when `run_command` returned in order. After a deadline or an unfinished read of the output of a
  program that did insert, the next way is run first; if none is left, the module is unloaded.
- Transaction: the pre-execution snapshot is compared for registered targets only (`pipeline.rs`,
  523), so a bind whose own undo failed (`magic_mount/exec.rs`, 732) is recorded as rolled back
  cleanly.
- Rule table: `vfs/protocol.rs` (46) says a derived directory is retained solely to connect
  surviving child rules. An ADD detaches what it replaces without pruning (`hybridmount.c`, 2131),
  so one that fails, or hangs the rule from a nearer directory of its UID, leaves an empty one
  behind.
- Planner: a module that has both `system/vendor/etc` and `vendor/etc` gets one overlay layer for
  the two, and loses what is only in the other, whiteouts as well (`NothingLost` and `RemovedIsGone`
  ask for one path per target). A link, file or whiteout `system/<partition>` in an overlay module
  does not get to the partition: the module as a whole leaves it out (`plan/mod.rs`, 493), a partial
  one puts it at `/system/<partition>` (440); the tree has it at the partition, as the test at 1750
  says. A `system` directory with a malformed `.remove` is an entry of its own (`scanner.rs`, 205),
  so that the whole of it, `system/vendor` included, is one layer at `/system`, against the comment
  at `plan/mod.rs` (487) (`Stray` names both). A single file that needs a place above is accepted
  next to a VFS file there. Nested plain directories below a Magic `.replace` still show stock
  content, and overlayfs does not honour `.replace` on the root of a layer. Where modules put a file
  in one place, overlays and Magic mounts show the first of them and the VFS backend the last. A
  directory that a rule leaves out is made in the layer all the same when something below it is not
  (`stage_overlay_node` creates the parents, `sys/fs.rs`, 274), and hides a file of the device or of
  another module at its place; `StockKept` and `NothingLost` name it (`Leads`).
- Report: `vfs/exec.rs` (67) reports every selected module as mounted, also one whose files another
  module's win over. The report looks for a module by the targets of its sources, but an overlay
  whose target the device has not is mounted at the directory above, which no source names; and a
  single file is looked for below the target it is filed under, where a file in the place of a
  partition (`system/vendor`) has none. A module of which nothing else was mounted by overlays is
  then listed as not mounted although its file is seen (`state.rs`, 516, against its comment at
  506). `ListIsTrue` leaves out exactly these overlays with `NotLookedFor`, and the run has a module
  of each kind. A corrupt `run/state.json` is replaced by defaults that are marked as loaded
  (`state.rs`, 901; `hot.rs`, 247).
- Hot operations: `hot.rs` (71) says existing pure-VFS ownership can always be unloaded; a module
  with rules below another module's `.replace` rule cannot, since the preflight refuses the foreign
  ancestor, while status calls it eligible.
- Mounts: ids are used again by the kernel and the root of a mount is not compared, so a stranger of
  the same device, type and source can pass for an owned mount; the window between the look and the
  unmount is documented; an owned mount beneath another owned one, or a baseline mount below one,
  blocks cleanup until the reboot.
- Configuration: `save-config` takes no lock, so of two savers one may lose its update (each is
  still merged into a state the file had); a link put in place of the file between the check and the
  rename is replaced.

## Proofs

**RuntimeLedger**, from `ConstantsAssumption` alone. `TypeCorrect` is an ordinary type invariant.
`RulesAlwaysRecorded`, `MountsAlwaysRecorded` and `UidsAlwaysRecorded` say that what Hybrid Mount
has put into the kernel and not taken back is named by the ledger on disk in every state, crashes
included (UIDs: on hm only, the finding above is the exception); `CleanAlwaysReleased` is the same
for a ledger that says clean. None is inductive: what a step may leave behind depends on what was
saved before it. `Inv` adds `PhaseInv`, which ties `pc` to the phase on disk and to what each
operation has emptied or not filled yet, and one part per resource (`RulesInv`, `MountsInv`,
`UidsInv`, `IsolationInv`), which says for each `pc` which field of the ledger or of `job` bounds
what is live.

Its second part adds what the operations establish before they commit (`ExactInv`: the recorded
rules and UIDs were read back and nobody else writes while the lock is held, so they still are as
read), which gives `ReadyAlwaysExact`, and where the isolated UIDs that a ledger records come from
(`UidsOurs`), which gives `ForeignUidsAlwaysUntouched`. `ForeignRulesAlwaysUntouched` and
`SnapshotAlwaysMatches` need one assumption more, stated in the theorems: `PayloadsDiffer`, no other
tool writes a record that Hybrid Mount could have planned. The code compares payloads, so it takes
such a record for its own: a hot reload would replace it, and `finish` would record it as owned
(hazard at boot.rs:97). Under the assumption a live payload of Hybrid Mount's is Hybrid Mount's
(`OursInv`), and a boot that ends ready shows all it owns (`FinishedIsShown`).

**MountTransaction**, from `TransactionAssumption`. `Journaled` (each registered effect that is live
is in the journal, deferred, or failed) gives `AbortAlwaysReleases`. `Order` (what lies beneath the
temporary directory was registered after it, so it is nearer to the head of the journal) gives
`EmptiedOnlyAfterFailure`: when the directory is removed, everything beneath is gone or has failed.
`Whole` (before a failure nothing is emptied, and each registered entry not yet due is live) gives
`CommitAlwaysKeepsMounts`. `CleanFinal` (a clean status is only ever written in a final state, with
no failure reported) gives `CleanAlwaysReleased`. `TargetOrder` (what targets are mounted from was
registered before the first of them) gives `TargetsAlwaysBeforeStorage`: when the storage's turn
comes no target has an action left, so one still in place has failed.

**RuleTable**, from `PathAssumption` (the paths are a tree) and `PayloadAssumption` (the markers
differ). Every step adds a rule, drops a set of rules, or preserves a directory (`StepShapes`), so
each invariant is proved for three shapes. `ListAlwaysExact` and `LinksAlwaysLive` are inductive
together with `TypeCorrect` (which is proved and no run repeats); the second rests on `NoGap`: the
walk up stops at the nearest rule and leaves no directory out, so what a new rule hangs from is
generated with it or is already there and is not the rule it replaces. `DelAlwaysKeepsOthers` and
`RefreshAlwaysKeeps` need no invariant: whatever is installed, the rules a caller could walk are a
set closed under `up`, and a delete, or a replacement in place, leaves the part of the set that
matters closed (`PrunedClosed`: what hangs from a pruned directory is pruned or is the deleted
rule). The only explicit rules among the pruned are those the statement excepts (`PrunedEmptied`).

**RuleTransaction**, from RuleTable's two assumptions, `PlanAssumption` (a plan puts nothing below
its own files, as the planner's checks ensure) and `FiniteAssumption`. The invariants of RuleTable
hold here too, since every call is one of its actions (`TableStep`). From them the listing is
without gaps: the rank of a rule is the number of rules ahead of it, so a listing that nobody wrote
into has seen every rule below its cursor (`SeenInv`, `ListedAll`) and its snapshot is the table.
`ForeignInv` then keeps the foreign records out of everything a batch touches, and the explicit ones
out of what a delete may prune, above a path of the plans (`CallKeeps`), which gives
`ForeignAlwaysKept`, also with the command line active. While nobody else writes (`QuietInv`), calls
change the rules of the plans and derived directories only (`Frame`), foreign explicit rules are
neither at, above nor below a path of the plans (`Apart`), and what callers could reach of others
they still reach. What a read-back cannot show is reachability: `WaysInv` says, for each path of the
new plan and all above it, that what has no way up was cut off before, or lies below something that
was and has not been put again, as long as no record has failed (`Unfailed`). `OkAlwaysExact` and
`CleanAlwaysBefore` are `FinalInv` of these. `OkIsExact` has one exception, which the proof needs
and TLC confirms: a derived directory that an earlier failure cut off stays cut off (the finding
`CleanIsReachable` is how it comes about). `RepairInv` gives `SingleFailureAlwaysRepaired`: before
the first failure all that was sent is done (`Sent`), so the first failure cannot be one of
topology; from then on, through whatever the rest of the failing page does, each rule of the plans
is still one of the four things it may be (`Values`), and with one failure spent the rollback
succeeds in all it sends (`Restored`). `ReconcileImplements` is a refinement: RuleTransaction
implements RuleExchange, with written rules for its table. While nobody else writes a record changes
rules of the plans alone, the one it is for and opaque directories a delete prunes, which `Apart`
shows to be of the plan in place (`CallExchanges`); afterwards it is a step of anybody (`Others`). A
page or a read-back is a stutter (`ReadStutters`), and a return maps to `Finish`. That a clean
rollback restored the whole table, and not only the rules it read back, needs one more invariant,
`FoundInv`: the check let the call pass because the plan in place was there.

**LoadGuard**, from `PackagesAssumption`. `NeverRepeated` needs two facts besides types: `Armed`
(while an object may be in the middle of its insertion its marker is on disk and nothing else is)
and `Remembered` (an interrupted attempt that nobody withdrew still has its marker, and no attempt
is under way beside it). A search that would repeat it is then always refused, since a build that
matches blames the object (`RepeatIsBlamed`). `RefusalAlwaysFounded` is the other direction: as long
as no write or removal of a marker failed (`slack`), what is on disk is what is seen (`Certain`) and
a marker outside an attempt is the one of the attempt that was interrupted (`Founded`).
`InsertionAlwaysCovered` is the action property that holds of the world outside: whatever program
puts an object into the kernel does so while the marker of that very object is durable, and beside
no NoMount the loader could have seen. Its invariant is `AtWork`: a program is at work only in the
attempt on the candidate whose marker is armed, because every way out of `run_command` (no reader
thread, a deadline) kills the program and waits for it.

**OwnedMounts**, from `PathsAssumption`. `BaselineIsKept` and `StrangersAreKept` are action
properties; their invariant `IInv` says that the baseline is what is left of before the boot
(`BaseIsOld`), that no owned id is a baseline id (`OwnedIsNew`), and that between an undisturbed
look and the unmount the visible mount is an owned one (`Looked`). What is taken off then lies on an
owned mount (`TakenOffIsOnOwned`), and a preflight that passed leaves nothing else there that the
listing showed.

**ConfigStore**, from its assumptions on patches, lists and entries. `FileIsAtomic` is a refinement:
ConfigStore implements AtomicStore with the mapping `Visible`. `Start` maps the initial states;
`EveryStep` maps each step to `Install` (a rename or an edit), `Acknowledge` (a directory sync),
`PowerLoss`, or a stutter. Its invariant keeps `acked <= durable <= Len(versions)`, every version
flushed before it was renamed into place, and the state of each process: a process that renamed its
file knows which version that was. `LoadsAlwaysFounded` adds `Founded` per process: versions are
only added while it runs, so what it read stays among those since its call began, and merging a
patch changes what the patch names alone (`MergeLeavesAlone`).

**BootView and HotView**, from the assumptions on names (their order is total), on `MaxLayers`,
`ManagedAssumption` (`system` is not in the list of managed partitions, `defs.rs`, 52) and
`InputsAssumption`: trees are finite and have the directories of their files, a device and a module
name paths, no two directories have one name; `LaterTreesAssumption` says the same of trees that
come later. `ViewNothingLeaks` says of every such device, set of modules and configuration, and at
the true limit of layers, that what is seen of a module after a boot is what it offered, where it
put it. A view is `Fitting(at, G)` if each node of it is allowed by `G` where it comes to lie when
the view is put at `at`, and `Honest` is the `G` that allows directories, the device's own, and
sources of the plan where the planner lets them land (`LandsAt`). The lemmas then say that each
stage keeps this: the discovered layout, the scan, the decisions of a module and its overlay split
(`BuildPlanType`: every layer and single file is `Placed`, each source below it lands where it may,
the longest argument being `MapExtend`: what is below a path of a module is below its target, but
for a `system` that holds another partition's paths), the staged layers (`LayerFits`), their merge
(`OverlayOnceFits`, `CollapsedFits`), the mount with what is kept further down (`OverlaidFits`), the
Magic walk (`MagicFits`) and the rules (`RuledFits`). `ViewInv` adds to that which plan and which
entries are still to be mounted, and holds of every step (`ViewIsHonest`). The orders of layers and
sources, which the model takes by `CHOOSE` and by rank, exist because a finite set has a least
element in a strict total order (`First`, `OrderedSeq`, by well-foundedness of the naturals), and
the recursion that collapses layers has a solution by the same argument (`CollapsedDef`).

`HotNeverHurtsOthers` rests on the other half, who owns what is seen (`OwnersInv`, with `InputsInv`
and `MadeInv`): a node of a module that no rule shows is at or below a mount the boot made
(`Covered`), a table has one rule for a path and every rule is of the module that planned it
(`VfsRuleSet`, `VfsOwnerType`), and the device is still the one of the boot. A hot load is refused
when a rule of its plan lies at, above or below a foreign rule or a mount of the boot (`HotRules`),
so the new rules change what is seen only where the module's own old rules, or stock files, were; an
unload takes off the rules of its module and so shows again what is below them (`ExchangeKeeps`).

`ViewStockKept` and `ViewNothingLost` are the converse: that something is still seen after every
later stage. The invariant is `StandsInv`, which says stage by stage what stands by then. It needs
two ideas. A node is `Solid` if it is no directory and no whiteout; layers that are all in
`Fitting(at, Only(p, n))` have nothing but `n` at `p` and nothing but plain directories above, so
merging, collapsing and mounting them keeps `n` at `p` if any of them, or what they cover, has it
(`OnceKeeps`, `CollapsedKeeps`, `OverlayKeeps`, `OverlaidKeeps`). `Yields` says of a plan that all
its overlay sources are like that at a path, which `LayerYields` turns into the first for every
layer it builds. Second, a source is in the end part of a mount: `PlanComplete` says that each
overlay file of a module with one path per target is below a layer of the plan or a single file of
it (the argument about the topmost `.replace` of a partition, and about the names that are left out,
is in `WholeReaches` and `PartialReaches`), `WaitsFor` that the mount which has it is still to come,
and `MountStands` that it has the source once nothing waits. Then `MagicKeeps` and `RulesKeep` say
what a Magic walk and a table of rules leave where they are, `MagicShows` and `RulesShow` that they
show their own sources. `Unaliased` and `Leads` in the properties are what these arguments need and
where the code loses a file without them (Findings).

`ViewRemovedIsGone` has an invariant of its own, `GoneInv`: only a consistent plan is carried out,
and what the stages up to now remove is not seen, or no longer in the base that rules are laid over.
For an overlay it is `StandsInv` with whiteouts: layers in `Fitting(at, Bare(p))` put nothing but a
whiteout at `p`, so once one has it no merge, collapse or mount shows anything there (`OnceRemoves`,
`CollapsedRemoves`, `OverlayRemoves`, `OverlaidRemoves`), and `PlanWaits` and the mounts say as
before that each removal is part of a mount to come. `MagicRemoves` needs the directory of a removed
path to be built anew if the path is there, or the walk to turn back above it (`WalkTurns`), where
nothing is mirrored; `RulesRemove` that the one rule of the path is a whiteout. `MagicAdds` and
`RulesAdd` say that later stages bring nothing to a path they have no source for, and
`RemovalCleared` that this is so: the checks of the whole tree (`WhiteoutExclusive`, `Clash`) leave
a removal alone with others of its backend. They compare targets, so a source that an overlay puts
elsewhere than at its target (`Astray`) could still be in the way, and the property says so.

`HotListIsTrue` relates what a boot recorded to every later operation and every later edit of
directories, configuration and mounts. Its invariant, `ListInv`, again says stage by stage what is
known. While overlays are mounted, each target that the device has is mounted or still waits
(`Aims`), and what is seen is of the plan's overlays (`FromOverlays`); after Magic mounts it is of
those or of a module counted as a success (`FromMounts`, `MagicFrom`). `PlanFound` says of a plan
that each layer's own target is named by a source of its module, and each single file lies below the
target it is filed under unless it is astray, so a module of which an overlay shows a file is
counted from the mounted targets or is one that `NotLookedFor` names (`OverlayCounted`,
`CommitList`). After the boot (`ReadyList`) the table has one row for a module, whatever is in the
base is of a module that is owned and listed, every rule is of a module that is listed, and after an
operation only owners are: `RefreshedRows` says what a refresh leaves of each row and
`ReconcileList` that an operation may start from any rows that keep the others'. `ListMeans` then
takes the query apart: a row of the ledger that is mounted is in the answer whether the module is
still installed or not (`MergedShown`), and nothing is answered as mounted that the ledger does not
have so (`ShownMerged`).

**Model-checked only**: TLAPS as installed proves no liveness under fairness and no ENABLED, so
`CleanupResumable` stays with TLC. Every other property of a passing run is stated by a theorem.

## Plan

Done: RuntimeLedger, MountTransaction, RuleTable and RuleTransaction; OwnedMounts; the planning
chain up to BootView and HotView; LoadGuard; ConfigStore and RuleTransaction with their refinements;
theorems about all of them. Left:

1. The lists of `utils/ksu_umount.rs` (queued, installed, withdrawn) beside the outcome that
   RuntimeLedger has.

## Not modelled

The WebUI, scripts, and diagnostics hold no state of their own. Parsing of files and of command
lines, wire encoding, ELF adaptation and the sizing of the ext4 image are left out: they compute
values that the models take as inputs. The kernel's own hook code (path resolution, `readdir`
injection, RCU draining) needs a model of the kernel's VFS; `RuledView` states what it shows. The
mounts a hot operation meets are those of the boot, since it makes none itself. `PROJECT.json` gives
the reason for each part.
