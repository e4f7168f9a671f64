------------------------------ MODULE RuleTable ------------------------------
(***************************************************************************)
(* The rule table of the hm kernel provider (module/vfs/src/hybridmount.c). *)
(* A rule is installed at a path for a UID and hangs from the rule of the   *)
(* directory around it, or from a native directory.  Directories that only  *)
(* connect rules are derived: an ADD makes the ones it misses.  A DEL prunes *)
(* the directories without a source that it leaves empty, derived or opaque. *)
(* Paths are those below the nearest native directory, so that nothing       *)
(* between two of them exists natively.                                      *)
(***************************************************************************)
EXTENDS FiniteSets, Naturals

CONSTANTS
  Paths,    \* virtual paths
  Parent,   \* the directory around each path, Root above the topmost
  Anc,      \* all directories above each path
  Uids,     \* UIDs a rule can be scoped to
  Global,   \* UID 0: a rule for every caller
  Dirs,     \* payloads that are directories (a real directory, an opaque one)
  Opaque,   \* those of them that are opaque: HM_FLAG_VIRTUAL_DIR, as on derived ones
  Leaves,   \* payloads that are not (a file, a whiteout)
  MaxRules, \* bound on installed rules, derived ones included
  Root, Derived, None, Native, Orphan

Keys == Paths \X Uids
Payloads == Dirs \cup Leaves
Marks == {Native, Orphan, None}

ASSUME PathAssumption ==
  /\ Parent \in [Paths -> Paths \cup {Root}] /\ Root \notin Paths
  /\ Anc \in [Paths -> SUBSET Paths]
  /\ \A p \in Paths :
       /\ p \notin Anc[p]
       /\ Parent[p] = Root => Anc[p] = {}
       /\ Parent[p] # Root => Anc[p] = {Parent[p]} \cup Anc[Parent[p]]
       /\ \A a \in Anc[p] : Anc[a] \subseteq Anc[p]
       /\ \A a, b \in Anc[p] : a = b \/ a \in Anc[b] \/ b \in Anc[a]

ASSUME PayloadAssumption ==
  /\ Global \in Uids
  /\ Dirs \cap Leaves = {} /\ Opaque \subseteq Dirs
  /\ {Derived, None} \cap Payloads = {} /\ Derived # None
  /\ Marks \cap Keys = {}
  /\ Native # Orphan /\ Native # None /\ Orphan # None

VARIABLES
  rules,  \* the payload installed at each key
  up,     \* parent_dir: the rule whose directory holds this one
  ahead   \* hybridmount_rules_list: the keys listed before this one

table == <<rules, up, ahead>>

Installed == {k \in Keys : rules[k] # None}

(* HM_FLAG_IS_DIR *)
IsDir(k) == rules[k] \in Dirs \cup {Derived}

Children(k) == {c \in Keys : up[c] = k}

(* The rule that an ADD for a UID finds at a path: its own, else the global one. *)
Entry(p, u) == IF rules[<<p, u>>] # None THEN <<p, u>> ELSE <<p, Global>>

Covered(p, u) == rules[Entry(p, u)] # None

(* The directories above k that have no rule, up to the nearest that has one. *)
Missing(k) == {m \in Anc[k[1]] : \A b \in Anc[k[1]] :
                 b = m \/ m \in Anc[b] => ~Covered(b, k[2])}

Generated(k) == {<<m, k[2]>> : m \in Missing(k)}

(* Where x hangs once these directories are generated. *)
Link(x, generated) ==
  IF Parent[x[1]] = Root THEN Native
  ELSE IF <<Parent[x[1]], x[2]>> \in generated THEN <<Parent[x[1]], x[2]>>
  ELSE Entry(Parent[x[1]], x[2])

(* hm_generate_virtual_topology: the nearest rule above must be a directory
   (-ENOTDIR otherwise). *)
Attachable(k) ==
  \A x \in Generated(k) \cup {k} : Link(x, Generated(k)) \in Installed => IsDir(Link(x, Generated(k)))

(* Mutant: the children stay with the retired rule. *)
HeirLost(x, k, v) == IF up[x] = k THEN Orphan ELSE up[x]

(* Where x hangs once v has replaced what is at k: a directory takes the children of a
   directory over, any other replacement cuts them off. *)
Heir(x, k, v) == IF up[x] = k /\ v \notin Dirs THEN Orphan ELSE up[x]

(* Mutant: the replaced rule stays in the list. *)
OthersTwice(k) == Installed

Others(k) == Installed \ {k}

(* ADD: the rule at the key is replaced.  Missing directories are generated for the
   rule's UID and listed top down before it, at the end. *)
Add(k, v) ==
  LET generated == Generated(k) IN
  /\ Attachable(k)
  /\ rules' = [x \in Keys |-> IF x = k THEN v
                              ELSE IF x \in generated THEN Derived ELSE rules[x]]
  /\ up' = [x \in Keys |-> IF x \in generated \cup {k} THEN Link(x, generated)
                           ELSE Heir(x, k, v)]
  /\ ahead' = [x \in Keys |-> IF x \in generated \cup {k}
                              THEN Others(k) \cup {y \in generated : y[1] \in Anc[x[1]]}
                              ELSE ahead[x] \ {k}]

(* Mutant: rules below a retired one keep pointing at it. *)
DropDangling(gone) ==
  /\ rules' = [x \in Keys |-> IF x \in gone THEN None ELSE rules[x]]
  /\ up' = [x \in Keys |-> IF x \in gone THEN None ELSE up[x]]
  /\ ahead' = [x \in Keys |-> IF x \in gone THEN {} ELSE ahead[x] \ gone]

(* hm_detach_rule_locked and hm_free_rule: what hung below has no way to it now. *)
Drop(gone) ==
  /\ rules' = [x \in Keys |-> IF x \in gone THEN None ELSE rules[x]]
  /\ up' = [x \in Keys |-> IF x \in gone THEN None ELSE IF up[x] \in gone THEN Orphan ELSE up[x]]
  /\ ahead' = [x \in Keys |-> IF x \in gone THEN {} ELSE ahead[x] \ gone]

(* An ADD that fails after it detached the rule at its key: for the topology, or for
   memory.  What it generated is taken away again, the old rule is not put back,
   and no parent is pruned. *)
AddLoses(k) == k \in Installed /\ Drop({k})

(* HM_FLAG_VIRTUAL_DIR above k. *)
VirtualAbove(k) == {d \in Keys : d[1] \in Anc[k[1]] /\ rules[d] \in Opaque \cup {Derived}}

(* Mutant: pruning does not look whether the directory is empty. *)
PrunedFull(k) ==
  UNION {S \in SUBSET VirtualAbove(k) : \A d \in S : Children(d) \cap (S \cup {k}) # {}}

(* hybridmount_prune_empty_virtual_dirs: the virtual directories that held nothing but
   the way to k, explicit opaque rules among them. *)
Pruned(k) ==
  UNION {S \in SUBSET VirtualAbove(k) :
           \A d \in S : Children(d) # {} /\ Children(d) \subseteq S \cup {k}}

(* hm_preserve_virtual_parent: a new derived rule takes the place of k and its
   children, at the end of the list. *)
Preserve(k) ==
  /\ rules' = [rules EXCEPT ![k] = Derived]
  /\ up' = up
  /\ ahead' = [x \in Keys |-> IF x = k THEN Others(k) ELSE ahead[x] \ {k}]

(* DEL finds something to do; it answers -ENOENT otherwise. *)
Removable(k) == k \in Installed /\ (Children(k) = {} \/ rules[k] # Derived)

Del(k) ==
  /\ Removable(k)
  /\ \/ Children(k) = {} /\ Drop({k} \cup Pruned(k))
     \/ Children(k) # {} /\ Preserve(k)

(* CLEAR_RULES *)
Clear == Drop(Installed)

Room(k) == Cardinality(Installed \cup Generated(k) \cup {k}) =< MaxRules

TableInit ==
  /\ rules = [k \in Keys |-> None]
  /\ up = [k \in Keys |-> None]
  /\ ahead = [k \in Keys |-> {}]

TableNext ==
  \/ \E k \in Keys : AddLoses(k) \/ Del(k) \/ (Room(k) /\ \E v \in Payloads : Add(k, v))
  \/ Clear

TableSpec == TableInit /\ [][TableNext]_table

-----------------------------------------------------------------------------
(* Properties *)

(* The three maps have the shape the code gives them. *)
TableTypeOK ==
  /\ rules \in [Keys -> Payloads \cup {Derived, None}]
  /\ up \in [Keys -> Keys \cup Marks]
  /\ ahead \in [Keys -> SUBSET Keys]

(* Every rule hangs from a live directory rule right above it that its UID can pass,
   from a native directory if and only if its path is topmost, or has been cut off
   (topology generation, this_dir transfer, preserve and prune together). *)
LinksAreLive ==
  \A k \in Keys :
    IF k \notin Installed THEN up[k] = None
    ELSE /\ up[k] # None
         /\ up[k] = Native <=> Parent[k[1]] = Root
         /\ up[k] \in Keys => /\ up[k] \in Installed /\ IsDir(up[k])
                              /\ up[k][1] = Parent[k[1]]
                              /\ up[k][2] \in {k[2], Global}

(* GET_LIST shows every installed rule once: the list is a strict total order of
   exactly the installed rules, whatever was replaced, generated, preserved or pruned. *)
ListIsExact ==
  /\ \A k \in Keys : ahead[k] \subseteq Installed \ {k}
  /\ \A k \in Keys \ Installed : ahead[k] = {}
  /\ \A j, k \in Installed : j # k => (j \in ahead[k]) # (k \in ahead[j])
  /\ \A j, k \in Installed : j \in ahead[k] => ahead[j] \subseteq ahead[k]

(* The rules a caller with this UID meets when it walks down from a native directory:
   in each directory its own rule is preferred to the global one. *)
Visible(u) ==
  UNION {S \in SUBSET {k \in Installed : k[2] \in {u, Global}} :
           \A k \in S : /\ up[k] = Native \/ up[k] \in S
                        /\ k[2] = u \/ up[<<k[1], u>>] # up[k]}

Explicit(k) == rules[k] \in Payloads

(* An explicit opaque directory above k with nothing in it but k, or virtual directories
   on the way to k: DEL of k prunes it, although it was never asked to. *)
Emptied(x, k) ==
  /\ rules[x] \in Opaque /\ x[1] \in Anc[k[1]]
  /\ Children(x) \subseteq {k} \cup VirtualAbove(k)

(* rule del "deletes by exact path and UID, without the rules below" (VFS_CLI.md:26,
   43-45): no other explicit rule is changed, nor hidden from a caller that saw it.  The
   code keeps this but for opaque directories that the DEL empties. *)
DelKeepsOthers ==
  [][\A k \in Installed : Del(k) =>
       \A u \in Uids : \A x \in Visible(u) \ {k} :
         Explicit(x) /\ ~Emptied(x, k) => rules'[x] = rules[x] /\ x \in Visible(u)']_table

(* Replacing a directory by a directory where it hangs hides nothing from anybody, which
   is what lets reconcile put every rule again (hm_add_rule, rules.rs reconcile). *)
RefreshKeepsSubtree ==
  [][\A k \in Installed : IsDir(k) /\ up'[k] = up[k] /\ rules'[k] \in Dirs /\ Add(k, rules'[k]) =>
       \A u \in Uids : Visible(u) \subseteq Visible(u)']_table
=============================================================================
