------------------------------- MODULE MountView -------------------------------
(* What the three backends make of a plan: the tree that programs see once        *)
(* OverlayFS layers, Magic mounts and rules of the provider are in place.         *)
(*                                                                                *)
(* A view gives each visible path a node [kind, opaque, from], from being the     *)
(* module and the path of it that is shown, module 0 for the device's own.  Only  *)
(* a directory of an overlay layer is opaque.                                     *)
EXTENDS MountPlan

CONSTANT MaxLayers        \* lowerdirs that one overlay mount may have

ASSUME MaxLayersAssumption == MaxLayers \in Nat /\ MaxLayers > 2

Dir == [kind |-> "dir", opaque |-> FALSE, from |-> [mod |-> 0, rel |-> << >>]]

SourceNode(s) == [kind |-> s.type, opaque |-> s.replace /\ s.type = "dir",
                  from |-> [mod |-> s.mod, rel |-> s.rel]]

Tail0(path, head) == SubSeq(path, Len(head) + 1, Len(path))
Steps(path) == {SubSeq(path, 1, n) : n \in 1..Len(path)}
IsDir(view, path) == path = << >> \/ (path \in DOMAIN view /\ view[path].kind = "dir")

(* A set in an order, a set of pairs: the n-th has n - 1 others before it.        *)
Ordered(S, order) ==
  [n \in 1..Cardinality(S) |->
     CHOOSE s \in S : Cardinality({t \in S : <<t, s>> \in order}) = n - 1]

(* What is strictly below a directory, by the path from there.                    *)
Part(view, at) ==
  [p \in {Tail0(q, at) : q \in {r \in DOMAIN view : IsStrictPrefix(at, r)}} |-> view[at \o p]]

------------------------------------------------------------------------------
(* Overlay layers.                                                                *)

(* Mutant: the staging copies the module as it is.                                *)
LayerWithAll(tree, mod, rel, dest) ==
  LET own == {s \in tree : s.mod = mod /\ IsPrefix(rel, s.rel)}
      put(s) == dest \o Tail0(s.rel, rel)
      paths == (UNION {Steps(put(s)) : s \in own}) \cup Steps(dest)
  IN  [p \in paths |-> IF \E s \in own : put(s) = p
                       THEN SourceNode(CHOOSE s \in own : put(s) = p) ELSE Dir]

(* The staged copy of a module holds its overlay sources alone, with the          *)
(* directories that lead to them; `dest` is where in a layer it is put.           *)
Layer(tree, mod, rel, dest) ==
  LET own == {s \in Of(tree, "overlay") : s.mod = mod /\ IsPrefix(rel, s.rel)}
      put(s) == dest \o Tail0(s.rel, rel)
      paths == (UNION {Steps(put(s)) : s \in own}) \cup Steps(dest)
  IN  [p \in paths |-> IF \E s \in own : put(s) = p
                       THEN SourceNode(CHOOSE s \in own : put(s) = p) ELSE Dir]

(* One overlay mount: the topmost layer that has a path shows it, unless a layer  *)
(* above puts something other than a directory, or an opaque one, on the way.     *)
(* The roots of the layers are always merged.                                     *)
Hides(layer, path) ==
  \E q \in Steps(path) : q \in DOMAIN layer /\ (layer[q].kind # "dir" \/ layer[q].opaque)
Shown(stack, path) ==
  {n \in DOMAIN stack : path \in DOMAIN stack[n]
                        /\ \A above \in 1..(n - 1) : ~Hides(stack[above], path)}
OverlayOnce(stack) ==
  LET top(p) == stack[Min(Shown(stack, p))][p]
      paths  == {p \in UNION {DOMAIN stack[n] : n \in DOMAIN stack} :
                   Shown(stack, p) # {} /\ top(p).kind # "whiteout"}
  IN  [p \in paths |-> [top(p) EXCEPT !.opaque = FALSE]]

(* Mutant: the highest of the layers that are stacked first is left out.          *)
CollapseStepOneShort(stack) ==
  IF Len(stack) <= MaxLayers THEN stack
  ELSE LET split == Len(stack) - (MaxLayers - 1)
       IN  Append(SubSeq(stack, 1, split), OverlayOnce(SubSeq(stack, split + 2, Len(stack))))

(* More layers than one mount takes: the lowest ones are stacked first, and their *)
(* merge is a layer of its own, until the rest fits.                              *)
CollapseStep(stack) ==
  IF Len(stack) <= MaxLayers THEN stack
  ELSE LET split == Len(stack) - (MaxLayers - 1)
       IN  Append(SubSeq(stack, 1, split), OverlayOnce(SubSeq(stack, split + 1, Len(stack))))
Collapsed(stack) ==
  LET f[n \in 0..Len(stack)] == IF n = 0 THEN stack ELSE CollapseStep(f[n - 1])
  IN  f[Len(stack)]

Overlay(layers, lowest) == OverlayOnce(Collapsed(Append(layers, lowest)))

(* The view below a mounted directory.  What is mounted further down is kept: it  *)
(* is a directory of its own to be merged with what the layers have there, and    *)
(* with nothing else.                                                             *)
Within(at, mounted) == {c \in mounted : IsStrictPrefix(at, c)}
Deepest(paths) == CHOOSE p \in paths : \A q \in paths : Len(q) <= Len(p)
Holder(at, mounted, path) ==
  Deepest({c \in {at} \cup Within(at, mounted) : IsStrictPrefix(c, path)})
Reaching(layers, step) ==
  LET some == {n \in DOMAIN layers : DOMAIN Part(layers[n], step) # {}}
      of   == Ordered(some, {p \in some \X some : p[1] < p[2]})
  IN  [k \in DOMAIN of |-> Part(layers[of[k]], step)]

(* A mount further down must be there, and still be a directory for everyone.     *)
ChildrenSurvive(layers, at, mounted, view) ==
  \A c \in Within(at, mounted) :
    LET held   == Holder(at, mounted, c)
        step   == Tail0(held, at)
        merged == Overlay(Reaching(layers, step), Part(view, held))
    IN  /\ c \in DOMAIN view
        /\ \A q \in Steps(Tail0(c, held)) : q \in DOMAIN merged /\ merged[q].kind = "dir"
        /\ \A n \in DOMAIN layers :
             Tail0(c, at) \in DOMAIN layers[n] => layers[n][Tail0(c, at)].kind = "dir"

(* Mutant: an overlay covers what is mounted further down.                        *)
OverlaidOverChildren(layers, at, mounted, view) ==
  LET lowest == [p \in {q \in DOMAIN view : ~\E c \in Within(at, mounted) : IsStrictPrefix(c, q)}
                   |-> view[p]]
      merged == Overlay(layers, Part(lowest, at))
      kept   == {p \in DOMAIN view : ~IsStrictPrefix(at, p)}
  IN  [p \in kept \cup {at \o q : q \in DOMAIN merged} |->
         IF p \in kept THEN view[p] ELSE merged[Tail0(p, at)]]

Overlaid(layers, at, mounted, view) ==
  LET merged == [c \in {at} \cup Within(at, mounted) |->
                   Overlay(Reaching(layers, Tail0(c, at)), Part(view, c))]
      below(c) == {c \o p : p \in DOMAIN merged[c]}
      shown  == UNION {{p \in below(c) : Holder(at, mounted, p) = c} : c \in DOMAIN merged}
      kept   == {p \in DOMAIN view : ~IsStrictPrefix(at, p)}
  IN  [p \in kept \cup shown |->
         IF p \in kept \/ p \in mounted THEN view[p]
         ELSE merged[Holder(at, mounted, p)][Tail0(p, Holder(at, mounted, p))]]

------------------------------------------------------------------------------
(* Where an overlay is mounted: at its target, or, when the device does not have  *)
(* that directory, at the nearest one above that it has, short of the root.       *)
(* Empty: it cannot be mounted.                                                   *)
Place(view, target) ==
  LET dirs == {p \in Steps(target) : IsDir(view, p)}
  IN  IF dirs = {} \/ \E p \in Steps(target) : p \in DOMAIN view /\ ~IsDir(view, p) THEN {}
      ELSE {[at |-> Deepest(dirs), rest |-> Tail0(target, Deepest(dirs))]}

PlaceOf(view, target) == CHOOSE p \in Place(view, target) : TRUE

Placeable(plan, view) ==
  \A l \in plan.layers \cup plan.files : Place(view, l.target) # {}

(* Targets that get their layers directly; every layer without a target, and      *)
(* every single file, is copied into a layer of its own.                          *)
DirectTargets(plan, view) ==
  {l.target : l \in {k \in plan.layers : PlaceOf(view, k.target).rest = << >>}}
ShallowEntries(plan, view) ==
  {[at |-> PlaceOf(view, l.target).at, mod |-> l.mod, rel |-> l.rel,
    dest |-> PlaceOf(view, l.target).rest] :
     l \in {k \in plan.layers : PlaceOf(view, k.target).rest # << >>}} \cup
  {[at |-> PlaceOf(view, f.target).at, mod |-> f.mod, rel |-> f.rel,
    dest |-> Append(PlaceOf(view, f.target).rest, Last(f.rel))] : f \in plan.files}

DirectLayers(plan, target) ==
  LET own == {l \in plan.layers : l.target = target}
      ordered == Ordered(own, {p \in own \X own : p[1].mod < p[2].mod})
  IN  [n \in DOMAIN ordered |-> Layer(plan.tree, ordered[n].mod, ordered[n].rel, << >>)]

Copied(a, b) ==
  Above(a, b) \/ (a.mod = b.mod /\ a.rel = b.rel /\ RelBefore(a.dest, b.dest))
ShallowLayers(plan, entries) ==
  LET ordered == Ordered(entries, {p \in entries \X entries : Copied(p[1], p[2])})
  IN  [n \in DOMAIN ordered |-> Layer(plan.tree, ordered[n].mod, ordered[n].rel, ordered[n].dest)]

------------------------------------------------------------------------------
(* Magic mounts.                                                                  *)

(* A directory the walk reaches: a node of the backend that is a directory, under *)
(* ones that are.                                                                 *)
MagicDir(tree, node) ==
  \A n \in 0..Len(node) : FileTypeFor(tree, "magic", SubSeq(node, 1, n)) = "dir"
MagicNodes(tree) ==
  {n \in UNION {Steps(s.target) : s \in Of(tree, "magic")} : MagicDir(tree, Front(n))}
MagicDirs(tree) == {n \in MagicNodes(tree) : MagicDir(tree, n)} \cup {<< >>}
MagicChildren(tree, node) == {n \in MagicNodes(tree) : Front(n) = node}

(* Mutant: a whiteout is taken for something that needs no mount.                 *)
NeedsTmpfsNotForWhiteout(tree, view, child) ==
  LET type == FileTypeFor(tree, "magic", child)
  IN  CASE type = "symlink"  -> TRUE
        [] type = "whiteout" -> FALSE
        [] OTHER -> child \notin DOMAIN view \/ view[child].kind # type

(* A child that cannot be bound over what is there.                               *)
NeedsTmpfs(tree, view, child) ==
  LET type == FileTypeFor(tree, "magic", child)
  IN  CASE type = "symlink"  -> TRUE
        [] type = "whiteout" -> child \in DOMAIN view
        [] OTHER -> child \notin DOMAIN view \/ view[child].kind # type

(* A directory that is built anew and moved over the real one.                    *)
Rebuilt(tree, view, node) ==
  \/ ReplaceFor(tree, "magic", node)
  \/ \E c \in MagicChildren(tree, node) : NeedsTmpfs(tree, view, c)

InTmpfs(tree, view, node) ==
  \E d \in MagicDirs(tree) : IsPrefix(d, node) /\ Rebuilt(tree, view, d)

(* Where the mirror of the device's own content comes from.                       *)
MagicParent(tree, path) ==
  Deepest({d \in MagicDirs(tree) : IsStrictPrefix(d, path)})

(* What ends up as a mount point of a module, and the modules whose source took   *)
(* effect: a symlink or a whiteout leaves no mount point.                         *)
MagicMoved(tree, view) ==
  {d \in MagicDirs(tree) :
     /\ Rebuilt(tree, view, d)
     /\ ~\E e \in MagicDirs(tree) : IsStrictPrefix(e, d) /\ Rebuilt(tree, view, e)}
MagicTargets(tree, view) ==
  MagicMoved(tree, view) \cup {n \in MagicNodes(tree) : FileTypeFor(tree, "magic", n) = "file"}
MagicSuccesses(tree, view) ==
  {s.mod : s \in UNION {SourceFor(tree, "magic", n) :
                          n \in MagicMoved(tree, view) \cup (MagicNodes(tree) \ MagicDirs(tree))}}

(* Not possible: the device has no such directory and no module does, or it has   *)
(* something else there that is not replaced.                                     *)
MagicFails(tree, view) ==
  \E d \in MagicDirs(tree) :
    \/ /\ InTmpfs(tree, view, d) /\ d \notin DOMAIN view \cup {<< >>}
       /\ ~HasModulePath(tree, "magic", d)
    \/ d \in DOMAIN view /\ ~IsDir(view, d) /\ ~ReplaceFor(tree, "magic", d)

(* What a rebuilt directory mirrors of what was there.                            *)
Mirrored(tree, p) ==
  /\ \A q \in Steps(p) : q \in MagicNodes(tree) => MagicDir(tree, q)
  /\ ~ReplaceFor(tree, "magic", MagicParent(tree, p))

(* A symlink is made and a file bound; a directory is what it leads to.           *)
MagicNode(tree, p) ==
  IF FileTypeFor(tree, "magic", p) = "dir" THEN Dir
  ELSE SourceNode(Topmost(Of(At(tree, p), "magic")))

MagicView(tree, view) ==
  LET nodes    == MagicNodes(tree)
      type(p)  == FileTypeFor(tree, "magic", p)
      built(p) == InTmpfs(tree, view, Front(p))
      paths    == {p \in nodes : IF built(p) THEN type(p) # "whiteout" ELSE p \in DOMAIN view} \cup
                  {p \in DOMAIN view \ nodes : Mirrored(tree, p)}
  IN  [p \in paths |->
         IF p \notin nodes \/ (~built(p) /\ type(p) # "file") THEN view[p]
         ELSE MagicNode(tree, p)]

------------------------------------------------------------------------------
(* Rules of the provider.                                                         *)
VfsDir(tree, node) ==
  \/ \E s \in SourceFor(tree, "vfs", node) : s.type = "dir"
  \/ Of(Below(tree, node), "vfs") # {}
VfsOwned(tree, node) ==
  \E q \in Steps(node) : ReplaceFor(tree, "vfs", q)

(* Its rules carry the module of the deepest replaced directory above.            *)
VfsOwner(tree, node) ==
  Topmost(Of(At(tree, Deepest({q \in Steps(node) : ReplaceFor(tree, "vfs", q)})), "vfs")).mod

VfsRules(tree) ==
  LET nodes == UNION {Steps(s.target) : s \in Of(tree, "vfs")}
      plain(n) == {s \in Of(At(tree, n), "vfs") : s.type # "dir"}
  IN  {[action |-> "opaque", at |-> n, mod |-> VfsOwner(tree, n), node |-> Dir] :
         n \in {d \in nodes : VfsDir(tree, d) /\ VfsOwned(tree, d)}} \cup
      {[action |-> IF Lowest(plain(n)).type = "whiteout" THEN "whiteout" ELSE "inject",
        at |-> n, mod |-> Lowest(plain(n)).mod, node |-> SourceNode(Lowest(plain(n)))] :
         n \in {f \in nodes : ~VfsDir(tree, f) /\ plain(f) # {}}}

(* A rule hangs on the nearest thing above it that is there, a rule of the table  *)
(* or of the batch or a node of the view, which has to be a directory.            *)
Attachable(batch, table, view) ==
  \A r \in batch :
    LET ruled == {o.at : o \in batch \cup table}
        above == {p \in Steps(Front(r.at)) : p \in DOMAIN view \cup ruled}
    IN  above # {} =>
          LET p == Deepest(above)
          IN  IF p \in ruled
              THEN \E o \in batch \cup table : o.at = p /\ o.action = "opaque"
              ELSE IsDir(view, p)

(* An injected path has its parents even where the device has none.               *)
RuledView(rules, view) ==
  LET put    == {r \in rules : r.action # "whiteout"}
      gone(p) == \E r \in rules : \/ IsStrictPrefix(r.at, p)
                                  \/ (r.at = p /\ r.action = "whiteout")
      led    == (UNION {Steps(Front(r.at)) : r \in put}) \ {r.at : r \in put}
      kept   == {p \in DOMAIN view : ~gone(p)}
  IN  [p \in kept \cup led \cup {r.at : r \in put} |->
         IF \E r \in put : r.at = p THEN (CHOOSE r \in put : r.at = p).node
         ELSE IF p \in kept THEN view[p] ELSE Dir]
================================================================================
