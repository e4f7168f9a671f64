------------------------------- MODULE BootView --------------------------------
(* One boot from what is on disk to what programs see: the modules are scanned,   *)
(* the partitions are probed, the plan is built (src/src/pipeline.rs, plan/mod.rs),*)
(* and the backends act on it in their order: the overlays at their targets, the  *)
(* ones that needed a place, Magic mounts, rules of the provider.  A failure      *)
(* takes everything back (MountTransaction says how), here in one step.           *)
(*                                                                                *)
(* A device is a record [stock, alias, mounts, failing]: the kind of each of its  *)
(* paths, where its directory aliases lead, its mount table with the root's mount *)
(* first, and the paths that cannot be probed.                                    *)
EXTENDS MountView

CONSTANTS Inputs,         \* what a boot may find: [device, dirs, cfg], the directories of
                          \* modules and the configuration with its extra_partitions
          Managed         \* MANAGED_PARTITIONS

(* A device and module directories as they can be: no two have one name, and 0 is *)
(* no module.                                                                     *)
IsDevice(d) ==
  /\ DOMAIN d.stock \subseteq Paths \ {<< >>}
  /\ \A p \in DOMAIN d.stock : d.stock[p] \in NodeKinds
  /\ \A p \in DOMAIN d.alias : d.alias[p] \in Paths
  /\ \A m \in d.mounts : m.point \in Paths
IsTree(t) ==
  /\ IsFiniteSet(DOMAIN t) /\ DOMAIN t \subseteq Paths \ {<< >>}
  /\ \A p \in DOMAIN t : \A n \in 1..Len(p) : SubSeq(p, 1, n) \in DOMAIN t
  /\ \A p \in DOMAIN t : t[p].kind \in NodeKinds /\ t[p].replace \in BOOLEAN
IsDirectory(d) ==
  /\ DOMAIN d = {"name", "id", "prop", "disable", "remove", "skip", "tree"}
  /\ d.id \in Nat \ {0} /\ IsTree(d.tree)
AreDirectories(dirs) ==
  /\ IsFiniteSet(dirs)
  /\ \A d \in dirs : IsDirectory(d)
  /\ \A d, e \in dirs : d.name = e.name => d = e

ASSUME ManagedAssumption == System \notin Managed
ASSUME InputsAssumption ==
  \A in \in Inputs : IsDevice(in.device) /\ AreDirectories(in.dirs)

VARIABLES input,          \* the device, directories and configuration of this boot
          pc, plan, view,
          mounted,        \* what is a mount point besides the root
          direct, shallow,\* overlays that remain to be mounted
          made,           \* targets mounted so far, and modules that took effect
          base, rules     \* the view without rules, and the rules in the kernel

overlays == <<direct, shallow>>
provider == <<base, rules>>
vars == <<input, pc, plan, view, mounted, overlays, made, provider>>

(* What a probe of the device finds at each of its paths.                         *)
Canonical(device, path) == IF path \in DOMAIN device.alias THEN device.alias[path] ELSE path
Probe(device, path) ==
  LET at == Canonical(device, path)
      on == CHOOSE m \in device.mounts :
              /\ IsPrefix(m.point, at)
              /\ \A c \in device.mounts : IsPrefix(c.point, at) => Len(c.point) <= Len(m.point)
  IN  [canonical |-> at, dev |-> on.dev, ino |-> on.fsroot \o Tail0(at, on.point),
       visible |-> on.id, isDir |-> at = << >> \/ device.stock[at] = "dir"]
There(device) ==
  [p \in (DOMAIN device.stock \cup {<< >>}) \ device.failing |-> Probe(device, p)]

Stock(device) ==
  [p \in DOMAIN device.stock |->
     [kind |-> device.stock[p], opaque |-> FALSE, from |-> [mod |-> 0, rel |-> p]]]

LayoutOf(in) ==
  LET there  == There(in.device)
      extras == ExtraPartitions(there, in.device.failing, in.cfg.extra)
  IN  DiscoverLayout(CaptureSnapshot(in.device.mounts, there, in.device.failing,
                                     Managed \cup extras),
                     Managed, extras)

PlanOf(in) ==
  LET layout == LayoutOf(in)
  IN  BuildPlan(in.cfg, in.vfs, layout, ListModules(in.dirs, ScanNames(layout)))

NoPlan == [ok |-> FALSE, tree |-> {}, layers |-> {}, files |-> {},
           partition_errors |-> {}, operation_errors |-> {}]

(* What on_effect and the statistics of the backends hand to the report.          *)
NothingMade == [overlay |-> {}, magic |-> {}, mounts |-> {}, ids |-> {}]

Init ==
  /\ \E in \in Inputs, loads \in BOOLEAN :
       input = [device |-> in.device, dirs |-> in.dirs, cfg |-> in.cfg,
                vfs |-> loads /\ WantsVfs(in.cfg)]
  /\ pc = "plan" /\ plan = NoPlan /\ view = Stock(input.device)
  /\ mounted = {m.point : m \in input.device.mounts} \ {<< >>}
  /\ direct = {} /\ shallow = {} /\ made = NothingMade
  /\ base = view /\ rules = {}

(* The plan is built and every overlay is given its place before any is mounted.  *)
MakePlan ==
  LET p  == PlanOf(input)
      ok == p.ok /\ Placeable(p, view)
  IN  /\ pc = "plan" /\ plan' = p
      /\ pc' = IF ok THEN "mount" ELSE "failed"
      /\ direct'  = IF ok THEN DirectTargets(p, view) ELSE {}
      /\ shallow' = IF ok THEN ShallowEntries(p, view) ELSE {}
      /\ UNCHANGED <<input, view, mounted, made, provider>>

Fail == /\ pc' = "failed" /\ view' = Stock(input.device)
        /\ mounted' = {m.point : m \in input.device.mounts} \ {<< >>}
        /\ made' = NothingMade
        /\ UNCHANGED <<input, plan, overlays, provider>>

MountOverlay(at, layers) ==
  /\ view' = Overlaid(layers, at, mounted, view)
  /\ mounted' = mounted \cup {at}
  /\ made' = [made EXCEPT !.overlay = @ \cup {at},
                          !.mounts = @ \cup {at} \cup Within(at, mounted)]
  /\ UNCHANGED <<input, pc, plan, provider>>

(* Overlays with a target of their own, in the order of their targets.            *)
MountDirect ==
  /\ pc = "mount" /\ direct # {}
  /\ LET at == CHOOSE t \in direct : \A u \in direct \ {t} : RelBefore(t, u)
         layers == DirectLayers(plan, at)
     IN  IF ChildrenSurvive(layers, at, mounted, view)
         THEN MountOverlay(at, layers) /\ direct' = direct \ {at} /\ UNCHANGED shallow
         ELSE Fail

(* Then the others, over what is there by now.                                    *)
MountShallow ==
  /\ pc = "mount" /\ direct = {} /\ shallow # {}
  /\ LET ats == {e.at : e \in shallow}
         at == CHOOSE t \in ats : \A u \in ats \ {t} : RelBefore(t, u)
         own == {e \in shallow : e.at = at}
         layers == ShallowLayers(plan, own)
     IN  IF ChildrenSurvive(layers, at, mounted, view)
         THEN MountOverlay(at, layers) /\ shallow' = shallow \ own /\ UNCHANGED direct
         ELSE Fail

MountMagic ==
  /\ pc = "mount" /\ direct = {} /\ shallow = {}
  /\ IF MagicFails(plan.tree, view) THEN Fail
     ELSE /\ view' = MagicView(plan.tree, view) /\ base' = view' /\ pc' = "inject"
          /\ made' = [made EXCEPT
                !.magic  = MagicTargets(plan.tree, view),
                !.mounts = @ \cup MagicTargets(plan.tree, view),
                !.ids    = MagicSuccesses(plan.tree, view)]
          /\ UNCHANGED <<input, plan, mounted, overlays, rules>>

(* The provider takes the batch, every rule of it is in the listing, and every    *)
(* rule has a directory to hang on.                                               *)
RulesTaken ==
  LET batch == VfsRules(plan.tree)
  IN  /\ Attachable(batch, {}, base)
      /\ pc' = "done" /\ rules' = batch /\ view' = RuledView(batch, base)
      /\ made' = [made EXCEPT !.ids = @ \cup ModulesOf(plan, "vfs")]
      /\ UNCHANGED <<input, plan, mounted, overlays, base>>

(* It does not, or for a reason of its own: what it took is removed, and the boot *)
(* goes on without it.                                                            *)
ProviderLeftOut ==
  /\ ModulesOf(plan, "vfs") # {} /\ pc' = "done"
  /\ UNCHANGED <<input, plan, view, mounted, overlays, made, provider>>

(* With vfs_strict, or if the removal fails too, the boot fails instead.          *)
ApplyRules ==
  /\ pc = "inject"
  /\ RulesTaken \/ ProviderLeftOut \/ (ModulesOf(plan, "vfs") # {} /\ Fail)

Next == MakePlan \/ MountDirect \/ MountShallow \/ MountMagic \/ ApplyRules

Spec == Init /\ [][Next]_vars

------------------------------------------------------------------------------
(* What a module gives, of the modules that take part, straight from its tree and *)
(* the configuration.                                                             *)
Offered(in) ==
  LET layout == LayoutOf(in)
      part   == Planned(in.cfg, ListModules(in.dirs, ScanNames(layout)))
      ruled(m) == ModuleRules(in.cfg, in.vfs, m.id)
  IN  UNION {{[mod |-> m.id, rel |-> e.rel, target |-> MapTarget(layout, e.rel),
               type |-> e.type, replace |-> e.replace, mode |-> ResolveMode(ruled(m), e.rel)] :
                e \in {f \in m.entries : Mapped(layout, f.rel)}} : m \in part}

(* Where a path of a module is by its own name below system, and the sources that *)
(* an overlay puts there instead of at their target: something other than a       *)
(* directory in the place of a partition, as system/vendor, and all of a module   *)
(* whose own `system` is an overlay source, which it is by a malformed .remove.   *)
Named(layout, s) == layout.roots[System] \o Tail(s.rel)
Stray(layout, sources, s) ==
  /\ s.rel[1] = System /\ LogicalPartition(layout, s.rel) # System
  /\ \/ Len(s.rel) = 2 /\ s.type # "dir"
     \/ \E t \in sources : t.mod = s.mod /\ t.rel = <<System>> /\ {s.mode, t.mode} = {"overlay"}

(* What a backend was given; without the provider what was given to it has none.  *)
Accepted(p) ==
  {s \in p.tree : s.mode \in {"overlay", "magic"} \/ (s.mode = "vfs" /\ rules # {})}
Astray(s) == Stray(LayoutOf(input), plan.tree, s)

(* A source covers what is at its place and, unless it is a directory to be       *)
(* merged, all below.  It brings the directories above it along, also those of    *)
(* the module that the configuration leaves out.                                  *)
Places(s) == {s.target} \cup {n \in {Named(LayoutOf(input), s)} : Astray(s)}
Covers(s, path) ==
  \E at \in Places(s) : IsPrefix(at, path) /\ (s.type # "dir" \/ s.replace \/ at = path)
Leads(s, path) == \E at \in Places(s) : IsStrictPrefix(path, at)

(* Whatever of a module is seen is seen where the module put it, and no rule of   *)
(* the configuration says to leave it out (plan/mod.rs and the staging of         *)
(* sys/fs.rs: "magic and ignore subtrees cannot leak into a lowerdir").           *)
NothingLeaks ==
  pc = "done" =>
    \A p \in DOMAIN view :
      view[p].from.mod # 0 /\ view[p].kind # "dir" =>
        \E o \in Offered(input) :
          /\ o.mod = view[p].from.mod /\ o.rel = view[p].from.rel /\ o.mode # "ignore"
          /\ \/ p = o.target
             \/ p = Named(LayoutOf(input), o) /\ Stray(LayoutOf(input), Offered(input), o)

(* A module that does not name one target by two paths, as system/vendor/x and    *)
(* vendor/x.                                                                      *)
Unaliased(p, mod) ==
  \A s, t \in p.tree : s.mod = mod /\ t.mod = mod /\ s.target = t.target => s = t

(* Every file that was accepted is seen when the boot has ended, or something     *)
(* another source put there or above covers it, or the same backend made it a     *)
(* directory for what is below: no backend undoes another.                        *)
NothingLost ==
  pc = "done" =>
    \A s \in Accepted(plan) :
      s.type \in {"file", "symlink"} /\ Unaliased(plan, s.mod) /\ ~Astray(s) =>
        \/ s.target \in DOMAIN view
             /\ view[s.target].from = [mod |-> s.mod, rel |-> s.rel]
        \/ \E t \in Accepted(plan) \ {s} :
             Covers(t, s.target) \/ (t.mode = s.mode /\ s.mode # "magic" /\ Leads(t, s.target))

(* What a module removes is not seen, whatever backend removes it: the planner    *)
(* refuses a plan in which another source has its target there, and only one that *)
(* is put elsewhere than at its target may still be in the way.                   *)
RemovedIsGone ==
  pc = "done" =>
    \A s \in Accepted(plan) :
      s.type = "whiteout" /\ Unaliased(plan, s.mod) /\ ~Astray(s) =>
        \/ s.target \notin DOMAIN view
        \/ \E t \in Accepted(plan) :
             Astray(t) /\ (Covers(t, s.target) \/ Leads(t, s.target))

(* What the device had and nobody covered is still there, unless an overlay had   *)
(* to make a directory of it, and a failed boot leaves all of it.                 *)
StockKept ==
  pc \in {"done", "failed"} =>
    \A p \in DOMAIN Stock(input.device) :
      \/ Stock(input.device)[p].kind = "dir"
      \/ p \in DOMAIN view /\ view[p] = Stock(input.device)[p]
      \/ pc = "done" /\ \E s \in Accepted(plan) :
                          Covers(s, p) \/ (s.mode = "overlay" /\ Leads(s, p))
------------------------------------------------------------------------------
(* What the documentation says and the code does not do.                          *)

(* "A VFS `.replace` directory replaces its whole subtree as Magisk does: the     *)
(* directory stays visible, real entries are hidden and only injected children    *)
(* show" (plan/mod.rs).                                                           *)
VfsReplaceIsWhole ==
  pc = "done" =>
    \A s \in Accepted(plan) : s.mode = "vfs" /\ s.replace =>
      \A p \in DOMAIN view :
        IsStrictPrefix(s.target, p) /\ view[p].kind # "dir" => view[p].from.mod # 0
================================================================================
