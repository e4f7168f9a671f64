-------------------------------- MODULE HotView --------------------------------
(* A boot and what follows until the next one: the report of what was mounted     *)
(* (src/src/state.rs, scan.ret and the runtime ledger), hot load, unload and      *)
(* reload of modules that only use rules of the provider (runtime/hot.rs,         *)
(* policy.rs, rules.rs), and the `modules` query, while the user changes module   *)
(* directories and the configuration.  An operation that is refused or rolled     *)
(* back changes nothing and is no step; RuntimeLedger has the crashes within one. *)
EXTENDS BootView

CONSTANTS HotInputs,      \* bound: boots after which operations are looked at
          LaterTrees,     \* what the user turns a module's tree into
          LaterConfigs,   \* and the rules and the blacklist
          MaxChanges, MaxOperations   \* bounds of the checked runs

ASSUME HotBoundsAssumption == {MaxChanges, MaxOperations} \subseteq Nat
ASSUME LaterTreesAssumption == \A t \in LaterTrees : IsTree(t)

VARIABLES
  now,       \* directories, configuration, and partitions that were remounted
  ledger     \* the committed part of the runtime ledger; its rules are `rules`

hotVars == <<vars, now, ledger>>

------------------------------------------------------------------------------
(* The report of a boot.                                                          *)

(* A row of scan.ret.                                                             *)
ModeOf(p, cfg, id) ==
  CASE id \in cfg.blacklist -> "ignore"
    [] id \in ModulesOf(p, "overlay") \ cfg.blacklist -> "overlay"
    [] id \in ModulesOf(p, "magic") \ (ModulesOf(p, "overlay") \cup cfg.blacklist) -> "magic"
    [] id \in ModulesOf(p, "vfs") \ (ModulesOf(p, "overlay") \cup ModulesOf(p, "magic")
                                      \cup cfg.blacklist) -> "vfs"
    [] OTHER -> "ignore"

AppModules(modules, cfg, p, mountedIds) ==
  {[id |-> m.id, mode |-> ModeOf(p, cfg, m.id),
    mounted |-> m.id \in mountedIds \ cfg.blacklist,
    enabled |-> ~m.disabled /\ m.id \notin cfg.blacklist] : m \in modules}

ModuleIdsForTarget(tree, mode, target)  == {s.mod : s \in Of(At(tree, target), mode)}
ModuleIdsForSubtree(tree, mode, target) ==
  ModuleIdsForTarget(tree, mode, target) \cup {s.mod : s \in Of(Below(tree, target), mode)}

(* An overlay target that files were planned for answers for all below it, any    *)
(* other target only for the sources that name it.                                *)
MountedModuleIds(p, overlay, magic) ==
  LET filed == overlay \cap {f.target : f \in p.files}
  IN  (UNION {ModuleIdsForSubtree(p.tree, "overlay", t) : t \in filed}) \cup
      (UNION {ModuleIdsForTarget(p.tree, "overlay", t) : t \in overlay \ filed}) \cup
      (UNION {ModuleIdsForTarget(p.tree, "magic", t) : t \in magic})

InstalledIn(dirs, layout) == ListModules(dirs, ScanNames(layout))

(* Modules that a hot operation may not touch.                                    *)
NonVfsModules(p) == ModulesOf(p, "overlay") \cup ModulesOf(p, "magic")

(* The boot is committed: what it owns, and which modules it mounted.             *)
Commit ==
  /\ pc = "done" /\ pc' = "ready"
  /\ ledger' = [non_vfs    |-> NonVfsModules(plan),
                mounts     |-> made.mounts,
                modules    |-> AppModules(InstalledIn(input.dirs, LayoutOf(input)), input.cfg, plan,
                                  made.ids \cup MountedModuleIds(plan, made.overlay, made.magic)),
                generation |-> 0]
  /\ UNCHANGED <<input, plan, view, mounted, overlays, made, provider, now>>

------------------------------------------------------------------------------
(* Hot operations.                                                                *)

(* The layout as it is detected now: a partition that was remounted has none.     *)
LayoutNow ==
  LET l == LayoutOf([input EXCEPT !.cfg = now.cfg])
      kept(f) == [n \in DOMAIN f \ now.moved |-> f[n]]
  IN  [l EXCEPT !.roots = kept(@), !.identities = kept(@),
                !.errors = [n \in now.moved |-> "layout_unavailable"] @@ @]

RulesOf(id) == {r \in rules : r.mod = id}
Overlap(p, q) == IsPrefix(p, q) \/ IsPrefix(q, p)

(* The partitions an operation depends on: of what the module offers, and of the  *)
(* rules it has.                                                                  *)
RelevantPartitions(layout, m) ==
  LET moderules == ModuleRules(now.cfg, TRUE, m.id)
      roots     == LayoutOf(input).roots
      above(r)  == {n \in DOMAIN roots : IsPrefix(roots[n], r.at)}
  IN  {LogicalPartition(layout, e.rel) :
         e \in {f \in m.entries : ResolveMode(moderules, f.rel) # "ignore"}} \cup
      UNION {{n \in above(r) : \A k \in above(r) : Len(roots[k]) <= Len(roots[n])} :
               r \in RulesOf(m.id)}

(* None of them has another root, identity or error than at boot, but for the     *)
(* mounts that the boot itself made.                                              *)
LayoutUnchanged(layout, relevant) ==
  LET boot == LayoutOf(input)
      same(f, g, n) == {f[k] : k \in {n} \cap DOMAIN f} = {g[k] : k \in {n} \cap DOMAIN g}
  IN  \A n \in relevant :
        /\ same(boot.roots, layout.roots, n)
        /\ same(boot.errors, layout.errors, n)
        /\ same(boot.identities, layout.identities, n)

Requested(m) == [m EXCEPT !.disabled = FALSE]
HotPlan(layout, m) == BuildPlan(now.cfg, TRUE, layout, {Requested(m)})

(* The module may be loaded: it is not marked against it, all it offers is for    *)
(* the provider, and no rule of it meets a mount of this boot.                    *)
PlanHotModule(layout, m) ==
  LET p == HotPlan(layout, m)
  IN  /\ m.id \notin ledger.non_vfs \cup now.cfg.blacklist
      /\ ~m.skip /\ ~\E d \in now.dirs : d.id = m.id /\ d.remove
      /\ \A e \in m.entries :
           ResolveMode(ModuleRules(now.cfg, TRUE, m.id), e.rel) \in {"vfs", "ignore"}
      /\ LayoutUnchanged(layout, RelevantPartitions(layout, m))
      /\ p.ok /\ ModulesOf(p, "vfs") # {}
      /\ \A r \in VfsRules(p.tree), t \in ledger.mounts : ~Overlap(r.at, t)

(* The plan of the whole configuration with this module in it is sound.           *)
ConfiguredPlanOk(layout, m) ==
  BuildPlan(now.cfg, TRUE, layout,
            (InstalledIn(now.dirs, layout) \ {m}) \cup {Requested(m)}).ok

(* Mutant: rules of other modules are not looked at.                              *)
NoPreflight(before, after) == before \subseteq rules

(* No explicit rule of anyone else is at, above or below what goes or comes.      *)
Preflight(before, after) ==
  \A o \in rules \ before, r \in before \cup after : ~Overlap(o.at, r.at)

(* Mutant: the rows keep what they said before the operation.                     *)
RefreshedNever(modules, table) == modules

(* A module without overlays and Magic mounts is mounted if it has rules.         *)
Refreshed(modules, table) ==
  {IF r.id \in ledger.non_vfs THEN r
   ELSE [r EXCEPT !.mounted = \E o \in table : o.mod = r.id] : r \in modules}

Reconcile(before, after, rows) ==
  LET table == (rules \ before) \cup after
  IN  /\ Preflight(before, after)
      /\ Attachable(after, rules \ before, base)
      /\ rules' = table
      /\ view' = RuledView(table, base)
      /\ ledger' = [ledger EXCEPT !.generation = @ + 1,
                                  !.modules = Refreshed(rows, table)]
      /\ UNCHANGED <<input, pc, plan, mounted, overlays, made, base, now>>

(* The boot was committed and the provider is there.                              *)
LookedAt == [device |-> input.device, dirs |-> input.dirs, cfg |-> input.cfg] \in HotInputs
HotReady ==
  /\ pc = "ready" /\ input.vfs /\ LookedAt
  /\ ledger.generation < MaxOperations

Install(m, layout) ==
  LET p   == HotPlan(layout, m)
      own == {r \in ledger.modules : r.id = m.id}
  IN  /\ PlanHotModule(layout, m)
      /\ ConfiguredPlanOk(layout, m)
      /\ Reconcile(RulesOf(m.id), VfsRules(p.tree),
                   (ledger.modules \ own) \cup AppModules({m}, now.cfg, p, {m.id}))

Load ==
  /\ HotReady
  /\ \E m \in InstalledIn(now.dirs, LayoutNow) :
       RulesOf(m.id) = {} /\ Install(m, LayoutNow)

Reload ==
  /\ HotReady
  /\ \E m \in InstalledIn(now.dirs, LayoutNow) :
       RulesOf(m.id) # {} /\ Install(m, LayoutNow)

(* The module need not be installed any more.                                     *)
Unload ==
  /\ HotReady
  /\ \E id \in {r.mod : r \in rules} \ ledger.non_vfs :
       Reconcile(RulesOf(id), {}, ledger.modules)

------------------------------------------------------------------------------
(* The user changes a module's tree or markers, removes it, or changes the        *)
(* configuration; another program remounts a partition.                           *)
Altered(d) ==
  {[d EXCEPT !.tree = t] : t \in LaterTrees} \cup
  {[d EXCEPT !.disable = TRUE], [d EXCEPT !.remove = TRUE], [d EXCEPT !.skip = TRUE]}

Change ==
  /\ pc = "ready" /\ input.vfs /\ LookedAt
  /\ now.changes < MaxChanges
  /\ \/ \E d \in now.dirs : \E to \in {{}} \cup {{e} : e \in Altered(d)} :
          now' = [now EXCEPT !.dirs = (@ \ {d}) \cup to, !.changes = @ + 1]
     \/ \E c \in LaterConfigs : now' = [now EXCEPT !.cfg = c, !.changes = @ + 1]
     \/ \E n \in Managed : now' = [now EXCEPT !.moved = {n}, !.changes = @ + 1]
  /\ UNCHANGED <<vars, ledger>>

HotInit ==
  /\ Init
  /\ now = [dirs |-> input.dirs, cfg |-> input.cfg, moved |-> {}, changes |-> 0]
  /\ ledger = [non_vfs |-> {}, mounts |-> {}, modules |-> {}, generation |-> 0]

HotNext ==
  \/ Next /\ UNCHANGED <<now, ledger>>
  \/ Commit \/ Load \/ Reload \/ Unload \/ Change

HotSpec == HotInit /\ [][HotNext]_hotVars

------------------------------------------------------------------------------
(* What the `modules` command answers: installed modules with what the ledger     *)
(* says of them, and removed ones that still own something.                       *)
BootOwned == ledger.non_vfs \cup {r.mod : r \in rules}

(* A committed boot answers from the layout it recorded.                          *)
QueryLayout == LayoutOf(input)

(* Without what the boot recorded: the plan as it would be now, nothing mounted.  *)
FallbackPlan(installed) == BuildPlan(now.cfg, input.vfs, QueryLayout, installed)
FallbackAppModules(installed) ==
  AppModules(installed, now.cfg, FallbackPlan(installed), {})

(* A row says what the blacklist is now, not what it was at boot.                 *)
SyncAppModuleRules(rows) ==
  {[r EXCEPT !.enabled = @ /\ r.id \notin now.cfg.blacklist] : r \in rows}

MergeModuleSnapshot(cached, installed) ==
  LET of(id)    == {c \in cached : c.id = id}
      merged(r) == IF of(r.id) = {} THEN r
                   ELSE LET c == CHOOSE c \in of(r.id) : TRUE
                        IN  [r EXCEPT !.mode = c.mode, !.mounted = c.mounted]
      removed   == {r \in cached : /\ r.id \notin {m.id : m \in installed}
                                   /\ r.mounted /\ r.id \in BootOwned}
  IN  SyncAppModuleRules({merged(r) : r \in FallbackAppModules(installed)} \cup
                         {[r EXCEPT !.enabled = FALSE] : r \in removed})

Query ==
  LET installed == InstalledIn(now.dirs, QueryLayout)
  IN  [ok   |-> FallbackPlan(installed).ok,
       rows |-> MergeModuleSnapshot(ledger.modules, installed)]

------------------------------------------------------------------------------
(* A hot operation on one module leaves every file that another module shows      *)
(* where it is, whatever backend put it there.                                    *)
HotKeepsOthers ==
  [][pc = "ready" =>
       \E id \in {0} \cup {d.id : d \in input.dirs} :
         /\ \A r \in (rules \ rules') \cup (rules' \ rules) : r.mod = id
         /\ \A p \in DOMAIN view :
              view[p].from.mod \notin {0, id} => p \in DOMAIN view' /\ view'[p] = view[p]]_hotVars

(* A file that an overlay shows of a module which the report does not find: its   *)
(* overlays were mounted above their targets, but state.rs answers for a target   *)
(* by the sources that name it, or a single file of it is by its own name where   *)
(* it is not by its target.                                                       *)
NotLookedFor(from) ==
  LET above(l) == PlaceOf(Stock(input.device), l.target).rest # << >>
  IN  /\ \E s \in Of(plan.tree, "overlay") : from = [mod |-> s.mod, rel |-> s.rel]
      /\ \A l \in plan.layers : l.mod = from.mod => above(l)
      /\ \A f \in plan.files : f.mod = from.mod =>
           above(f) \/ \E s \in plan.tree : s.mod = f.mod /\ s.rel = f.rel /\ Astray(s)

(* The list of modules is true as long as the boot lasts: a module of which a     *)
(* file is seen is listed as mounted, also when it was disabled, changed or       *)
(* removed meanwhile, and a module that has only ever used rules is listed as     *)
(* mounted after a hot operation only if it still has some.                       *)
ListIsTrue ==
  pc = "ready" /\ Query.ok =>
    LET listed == {r.id : r \in {q \in Query.rows : q.mounted}}
    IN  /\ \A p \in DOMAIN view :
             view[p].from.mod # 0 /\ view[p].kind # "dir" =>
               view[p].from.mod \in listed \/ NotLookedFor(view[p].from)
        /\ ledger.generation > 0 => listed \subseteq BootOwned
================================================================================
