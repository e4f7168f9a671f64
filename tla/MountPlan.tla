------------------------------- MODULE MountPlan -------------------------------
(* The planner of src/src/plan/mod.rs with the shared tree of mount_tree.rs and   *)
(* the rules of config.rs: which module contributes what to which target, and     *)
(* through which backend.                                                         *)
(*                                                                                *)
(* The tree is the set of its sources, records [mod, rel, target, type, replace,  *)
(* mode]; a node is any prefix of a target.  Modules are numbered in the order of *)
(* their ids.  A configuration has default_mode, blacklist, and rules by module,  *)
(* each [default, paths] with default "unset" when the rule has none and paths a  *)
(* set of [lead, key, mode], lead telling a key written with a leading slash.     *)
EXTENDS PartitionLayout, ModuleScan, FiniteSetsExt

CONSTANT NameRank         \* the order of component names

Names == DOMAIN NameRank
Paths == Seq(Names)

ASSUME NameRankAssumption ==
  /\ System \in Names
  /\ \A m, n \in Names : NameRank[m] \in Nat /\ (NameRank[m] = NameRank[n] => m = n)

RelBefore(a, b) ==
  \/ IsStrictPrefix(a, b)
  \/ \E n \in 1..Len(a) :
       /\ n <= Len(b) /\ SubSeq(a, 1, n - 1) = SubSeq(b, 1, n - 1)
       /\ NameRank[a[n]] < NameRank[b[n]]

(* The order of sources in a node: by module, then by path in the module.         *)
Above(s, t) == s.mod < t.mod \/ (s.mod = t.mod /\ RelBefore(s.rel, t.rel))
Topmost(sources) == CHOOSE s \in sources : \A t \in sources \ {s} : Above(s, t)
Lowest(sources) == CHOOSE s \in sources : \A t \in sources \ {s} : Above(t, s)

------------------------------------------------------------------------------
(* Rules of a module.  Without a provider a vfs mode is as good as ignore.        *)
ModuleRules(cfg, vfsAvailable, id) ==
  LET rule    == IF id \in DOMAIN cfg.rules THEN cfg.rules[id]
                 ELSE [default |-> "unset", paths |-> {}]
      degrade(mode) == IF mode = "vfs" /\ ~vfsAvailable THEN "ignore" ELSE mode
  IN  [default |-> degrade(IF rule.default = "unset" THEN cfg.default_mode
                           ELSE rule.default),
       paths   |-> {[r EXCEPT !.mode = degrade(r.mode)] : r \in rule.paths}]

(* The longest key that is the path or above it decides; of two spellings of one  *)
(* key, the one with the slash.                                                   *)
ResolveMode(rules, rel) ==
  LET hits == {r \in rules.paths : IsPrefix(r.key, rel)}
      beats(r, s) == Len(r.key) > Len(s.key) \/ (Len(r.key) = Len(s.key) /\ r.lead)
  IN  IF hits = {} THEN rules.default
      ELSE (CHOOSE r \in hits : \A s \in hits \ {r} : beats(r, s)).mode

(* Whether any rule names the backend: what boot loads the kernel module for.     *)
WantsVfs(cfg) ==
  \/ cfg.default_mode = "vfs"
  \/ \E id \in DOMAIN cfg.rules :
       \/ cfg.rules[id].default = "vfs"
       \/ \E r \in cfg.rules[id].paths : r.mode = "vfs"

------------------------------------------------------------------------------
(* The shared tree.                                                               *)
At(tree, node) == {s \in tree : s.target = node}
Below(tree, node) == {s \in tree : IsStrictPrefix(node, s.target)}
Of(sources, mode) == {s \in sources : s.mode = mode}

HasBackend(tree, mode, node) == \E s \in Of(tree, mode) : IsPrefix(node, s.target)

(* The source that wins at a node for a backend, as a set of at most one.         *)
SourceFor(tree, mode, node) ==
  LET own == Of(At(tree, node), mode)
  IN  IF own = {} THEN {} ELSE {Topmost(own)}

(* What a backend sees at a node: its own source, or a directory that only leads  *)
(* to sources below.                                                              *)
FileTypeFor(tree, mode, node) ==
  IF SourceFor(tree, mode, node) # {}
  THEN (CHOOSE s \in SourceFor(tree, mode, node) : TRUE).type
  ELSE IF HasBackend(tree, mode, node) THEN "dir" ELSE "none"

ReplaceFor(tree, mode, node) == \E s \in SourceFor(tree, mode, node) : s.replace

(* The directories of modules whose metadata a node may borrow: the walk of       *)
(* insert pairs the components of the target with those of the module's path,     *)
(* skipping what the path has more at its head.                                   *)
Kept(s, node) == Max({0, Len(s.rel) - Len(s.target)}) + Len(node)
StructuralSources(tree, node) ==
  {[mod |-> s.mod, rel |-> SubSeq(s.rel, 1, Min({Kept(s, node), Len(s.rel)}))] :
     s \in {t \in tree : /\ IsPrefix(node, t.target) /\ node # << >>
                         /\ (Kept(t, node) < Len(t.rel) \/ t.type = "dir")}}

HasModulePath(tree, mode, node) ==
  \/ SourceFor(tree, mode, node) # {}
  \/ \E s \in At(tree, node) : s.type = "dir"
  \/ StructuralSources(tree, node) # {}

(* At one target two backends meet only in plain directories.                     *)
Clash(s, t) ==
  /\ s.target = t.target /\ s.mode # t.mode
  /\ "ignore" \notin {s.mode, t.mode}
  /\ ~(s.type = "dir" /\ t.type = "dir" /\ ~s.replace /\ ~t.replace)

------------------------------------------------------------------------------
(* Contributions that may not be planned: a removed partition root, and what      *)
(* would cover a mount or a partition that is not understood.  Everything below   *)
(* them is left out as well.                                                      *)
RootRemoval(layout, e) == e.removed /\ Len(e.rel) = RootLen(layout, e.rel)

CoversProtected(layout, e) ==
  /\ (e.replace \/ e.type \in {"symlink", "whiteout"})
  /\ \E p \in ProtectedTargets(layout) :
       /\ IsPrefix(MapTarget(layout, e.rel), p)
       /\ (p # MapTarget(layout, e.rel) \/ e.type = "whiteout")

Blocked(layout, rules, entries) ==
  {e.rel : e \in {f \in entries :
     /\ ResolveMode(rules, f.rel) # "ignore" /\ Mapped(layout, f.rel)
     /\ (RootRemoval(layout, f) \/ CoversProtected(layout, f))}}

(* system/vendor -> ../vendor and vendor/vendor -> ./system/vendor describe the   *)
(* module's layout and contribute nothing.                                        *)
IsPromotedPartitionAlias(layout, e) ==
  /\ e.type = "symlink" /\ e.link = "up" /\ Len(e.rel) = 2
  /\ e.rel[1] = System /\ e.rel[2] \in DOMAIN layout.roots

IsRedundantPartitionSelfAlias(layout, e) ==
  /\ e.type = "symlink" /\ e.link = "self" /\ Len(e.rel) = 2
  /\ e.rel[1] \in DOMAIN layout.roots /\ e.rel[2] = e.rel[1]

(* The sources of one module.                                                     *)
Decisions(layout, rules, m) ==
  LET blocked == Blocked(layout, rules, m.entries)
  IN  {[mod |-> m.id, rel |-> e.rel, target |-> MapTarget(layout, e.rel),
        type |-> e.type, replace |-> e.replace, mode |-> ResolveMode(rules, e.rel)] :
         e \in {f \in m.entries :
                  /\ \A p \in blocked : ~IsPrefix(p, f.rel)
                  /\ Mapped(layout, f.rel)
                  /\ ~IsPromotedPartitionAlias(layout, f)
                  /\ ~IsRedundantPartitionSelfAlias(layout, f)}}

(* What the reader is told about contributions that were skipped.                 *)
PartitionErrors(layout, rules, m) ==
  {<<LogicalPartition(layout, e.rel), m.id>> :
     e \in {f \in m.entries : ~Mapped(layout, f.rel) /\ ResolveMode(rules, f.rel) # "ignore"}}
OperationErrors(layout, rules, m) ==
  {<<m.id, e.rel>> : e \in {f \in m.entries :
     /\ ResolveMode(rules, f.rel) # "ignore"
     /\ (f.bad \/ f.rel \in Blocked(layout, rules, m.entries))}}

------------------------------------------------------------------------------
(* Overlay layers of one module, records [target, mod, rel]; at most one by       *)
(* target, the last one in the order of the module's paths.                       *)
HasAncestorIn(rel, rels) == \E r \in rels : IsStrictPrefix(r, rel)

OneByTarget(layers) ==
  {l \in layers : \A k \in layers \ {l} : k.target = l.target => RelBefore(k.rel, l.rel)}

(* The whole module is overlay: one layer for each directory below a partition    *)
(* root, for a replaced root the root itself, and files directly below a root.    *)
WholeOverlay(layout, ds) ==
  LET rootLen(d) == RootLen(layout, d.rel)
      replaced   == {d.rel : d \in {c \in ds : c.replace /\ Len(c.rel) = rootLen(c)}}
      open       == {d \in ds : ~HasAncestorIn(d.rel, replaced)}
      layer(d, n) == LET rel == SubSeq(d.rel, 1, n)
                     IN  [target |-> MapTarget(layout, rel), mod |-> d.mod, rel |-> rel]
  IN  [layers |-> {layer(d, rootLen(d)) : d \in {c \in open : c.rel \in replaced}} \cup
                  {layer(d, rootLen(d) + 1) :
                     d \in {c \in open : \/ Len(c.rel) > rootLen(c) + 1
                                        \/ (c.type = "dir" /\ Len(c.rel) = rootLen(c) + 1)}},
       files  |-> {[target |-> MapTarget(layout, Front(d.rel)), mod |-> d.mod, rel |-> d.rel] :
                     d \in {c \in open : c.type # "dir" /\ Len(c.rel) = rootLen(c) + 1}}]

(* Part of the module is overlay: its topmost overlay directories are layers, and *)
(* the files with no overlay directory above them.                                *)
PartialOverlay(layout, ds) ==
  LET overlay == {d.rel : d \in Of(ds, "overlay")}
      tops    == {d \in Of(ds, "overlay") : ~HasAncestorIn(d.rel, overlay)}
  IN  [layers |-> {[target |-> d.target, mod |-> d.mod, rel |-> d.rel] :
                     d \in {c \in tops : c.type = "dir"}},
       files  |-> {[target |-> MapTarget(layout, Front(d.rel)), mod |-> d.mod, rel |-> d.rel] :
                     d \in {c \in tops : c.type # "dir" /\ Len(c.rel) > 1}}]

OverlayOf(layout, rules, ds) ==
  IF /\ ds # {} /\ ds = Of(ds, "overlay")
     /\ \/ rules.default = "overlay"
        \/ \E r \in rules.paths : r.key = <<System>> /\ r.mode = "overlay"
  THEN WholeOverlay(layout, ds)
  ELSE PartialOverlay(layout, ds)

------------------------------------------------------------------------------
(* The whole tree is checked once every module is in it.                          *)

(* A Magic replacement is mounted after the overlays and would cover them.        *)
ReplaceConsistent(tree) ==
  ~\E s \in Of(tree, "magic") : s.replace /\ Of(Below(tree, s.target), "overlay") # {}

(* Rules of the provider act on real directories: none below a mounted one.       *)
VfsNotShadowed(tree) ==
  ~\E s \in tree : /\ s.mode \in {"overlay", "magic"}
                   /\ (s.type = "dir" \/ s.replace)
                   /\ Of(Below(tree, s.target), "vfs") # {}

(* An opaque directory of the provider shares its subtree with nobody.            *)
VfsOpaqueExclusive(tree) ==
  ~\E s \in Of(tree, "vfs") :
     /\ s.replace
     /\ \E t \in tree : IsPrefix(s.target, t.target) /\ t.mode # "vfs"

(* Nothing is contributed to, or below, what another module removes.              *)
WhiteoutExclusive(tree) ==
  ~\E s \in tree :
     /\ s.type = "whiteout" /\ s.mode # "ignore"
     /\ \/ \E t \in At(tree, s.target) : t.type # "whiteout" /\ t.mode # "ignore"
        \/ \E t \in Below(tree, s.target) : t.mode # "ignore"

Consistent(tree) ==
  /\ \A s, t \in tree : ~Clash(s, t)
  /\ ReplaceConsistent(tree)
  /\ VfsNotShadowed(tree)
  /\ VfsOpaqueExclusive(tree)
  /\ WhiteoutExclusive(tree)

(* The modules that are planned, and the plan.  Conflicts make the plan an error  *)
(* wherever they are found first, so they are taken together.                     *)
Planned(cfg, modules) == {m \in modules : Mountable(m) /\ m.id \notin cfg.blacklist}

BuildPlan(cfg, vfsAvailable, layout, modules) ==
  LET planned == Planned(cfg, modules)
      rules   == [m \in planned |-> ModuleRules(cfg, vfsAvailable, m.id)]
      ds      == [m \in planned |-> Decisions(layout, rules[m], m)]
      overlay == [m \in planned |-> OverlayOf(layout, rules[m], ds[m])]
      tree    == UNION {ds[m] : m \in planned}
      files   == UNION {overlay[m].files : m \in planned}
  IN  [ok     |-> Consistent(tree) /\ \A f \in files : Mapped(layout, Front(f.rel)),
       tree   |-> tree,
       layers |-> UNION {OneByTarget(overlay[m].layers) : m \in planned},
       files  |-> files,
       partition_errors |-> UNION {PartitionErrors(layout, rules[m], m) : m \in planned},
       operation_errors |-> UNION {OperationErrors(layout, rules[m], m) : m \in planned}]

(* The modules that a backend was given something of.                             *)
ModulesOf(p, mode) ==
  IF mode = "overlay" THEN {l.mod : l \in p.layers \cup p.files}
  ELSE {s.mod : s \in Of(p.tree, mode)}
================================================================================
