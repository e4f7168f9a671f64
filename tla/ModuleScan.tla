------------------------------ MODULE ModuleScan ------------------------------
(* The read-only scan of src/src/scanner.rs: from the module directories on      *)
(* disk to the records the planner takes.                                        *)
(*                                                                               *)
(* A directory of the module root is a record [name, id, prop, disable, remove,  *)
(* skip, tree]: its name, the id its module.prop declares, whether that file is  *)
(* regular, readable and complete with a valid id, its three markers, and its    *)
(* tree.  A tree gives each path below the directory (a sequence that starts     *)
(* with a partition's name) a record [kind, replace, remove, link]:              *)
(*   kind     "dir", "file", "symlink", "nulldev" (a 0:0 character device) or    *)
(*            "other" (no type that can be mounted)                              *)
(*   replace  the directory holds .replace or carries the opaque attribute       *)
(*   remove   its .remove marker: "none", "file" (regular), or "bad"             *)
(*   link     for a symlink, where it leads: "up" (../name), "self"              *)
(*            ([./]system/name), or "away"                                       *)
EXTENDS Naturals, Sequences, FiniteSets, SequencesExt

(* What the scan can meet at a path; a 0:0 device asks for a whiteout.           *)
NodeKinds == {"dir", "file", "symlink", "nulldev", "other"}

(* The type of a node, with a .remove directory normalised to a whiteout.        *)
NodeType(node) ==
  IF node.kind = "dir" THEN IF node.remove = "file" THEN "whiteout" ELSE "dir"
  ELSE IF node.kind = "nulldev" THEN "whiteout" ELSE node.kind

Removes(node) == node.kind = "dir" /\ node.remove = "file"
Replaces(node) == node.kind = "dir" /\ node.remove # "file" /\ node.replace

Entry(tree, p) ==
  [rel     |-> p,
   type    |-> NodeType(tree[p]),
   replace |-> Replaces(tree[p]),
   link    |-> tree[p].link,
   removed |-> Removes(tree[p]),
   bad     |-> tree[p].kind = "dir" /\ tree[p].remove = "bad"]

(* The partition directories that are scanned: real ones only, since following   *)
(* an alias such as product -> ./system/product would record a file twice.       *)
ScanRoots(tree, partitions) ==
  {p \in {<<n>> : n \in partitions} : p \in DOMAIN tree /\ tree[p].kind = "dir"}

(* A partition directory is itself an entry only for what its markers say.       *)
RootEntries(tree, partitions) ==
  {p \in ScanRoots(tree, partitions) :
     tree[p].remove # "none" \/ (p # <<"system">> /\ tree[p].replace)}

(* The walk below a partition: it enters real directories that are not removed.  *)
Walked(tree, partitions) ==
  {p \in DOMAIN tree :
     /\ Len(p) > 1 /\ tree[p].kind # "other"
     /\ <<p[1]>> \in ScanRoots(tree, partitions)
     /\ \A n \in 1..(Len(p) - 1) :
          LET q == SubSeq(p, 1, n) IN tree[q].kind = "dir" /\ ~Removes(tree[q])}

Entries(tree, partitions) ==
  {Entry(tree, p) : p \in RootEntries(tree, partitions) \cup Walked(tree, partitions)}

(* The directories that are modules, with what each contributes.  A directory    *)
(* whose name is not the id it declares is no module, so no two modules share    *)
(* an id.                                                                        *)
ListModules(dirs, extra) ==
  {[id        |-> d.id,
    disabled  |-> d.disable \/ d.remove,
    skip      |-> d.skip,
    has_files |-> ScanRoots(d.tree, {"system"} \cup extra) # {},
    entries   |-> Entries(d.tree, {"system"} \cup extra)] :
     d \in {e \in dirs : e.prop /\ e.name = e.id}}

(* A module that takes part in mounting.                                         *)
Mountable(m) == m.has_files /\ ~m.disabled /\ ~m.skip
===============================================================================
