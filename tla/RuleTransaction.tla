--------------------------- MODULE RuleTransaction ---------------------------
(***************************************************************************)
(* runtime/rules.rs reconcile, call by call, against the provider's table:    *)
(* one module's rules are exchanged for others while the vfs command line,   *)
(* which takes no lock, edits the same table.  Owned rules are global; a      *)
(* listing is read page by page, and a batch is sent so.                    *)
(***************************************************************************)
EXTENDS RuleTable

CONSTANTS
  Plans,        \* what a module may ask for: a payload or None for each path
  ExtPayloads,  \* payloads the command line uses
  PageLen,      \* records in one page of GET_LIST
  MaxExt,       \* bound on commands of the command line
  MaxFaults     \* bound on failing calls

ASSUME PlanAssumption ==
  /\ Plans \subseteq [Paths -> Payloads \cup {None}]
  /\ \A plan \in Plans : \A p \in Paths : plan[p] # None => \A a \in Anc[p] : plan[a] \notin Leaves
  /\ ExtPayloads \subseteq Payloads
  /\ PageLen \in Nat \ {0} /\ MaxExt \in Nat /\ MaxFaults \in Nat

(* Paths and UIDs have a bounded length. *)
ASSUME FiniteAssumption == IsFiniteSet(Paths) /\ IsFiniteSet(Uids)

VARIABLES
  before, after,  \* the plan in place and the plan wanted
  pc,
  todo,           \* paths of the batch that are still to be sent
  page,           \* the page of the batch that is being processed
  cursor, seen,   \* the listing that is being read: next index, records so far
  foreign,        \* records of the first listing that are not owned
  attempted,      \* put_attempted
  start,          \* observation: the table, who saw what and the failures left at Begin
  quiet,          \* observation: nobody else has written since
  ext, faults     \* observation: commands and failures left

local == <<before, after, foreign, attempted, start>>
vars == <<table, local, pc, todo, page, cursor, seen, quiet, ext, faults>>

Own(p) == <<p, Global>>
Planned(plan) == {p \in Paths : plan[p] # None}
Nothing == [p \in Paths |-> None]

Listing == {"check", "verify", "survey", "resurvey", "confirm"}
Sending == {"boot", "delete", "put", "undo", "restore"}
Over == {"refused", "ok", "clean", "incomplete"}

(* ordered: by depth, and by path, which is left to choice. *)
Depth(p) == Cardinality(Anc[p])
Shallowest(S) == {p \in S : \A q \in S : Depth(p) =< Depth(q)}
Deepest(S) == {p \in S : \A q \in S : Depth(q) =< Depth(p)}

Observed == [rules |-> rules, visible |-> [u \in Uids |-> Visible(u)], faults |-> faults]

Init ==
  /\ TableInit
  /\ before \in Plans /\ after \in Plans
  /\ pc = "boot" /\ todo = Planned(before) /\ page = "between"
  /\ cursor = 0 /\ seen = {} /\ foreign = {} /\ attempted = FALSE
  /\ ext = MaxExt /\ faults = MaxFaults
  /\ start = Observed /\ quiet = TRUE

-----------------------------------------------------------------------------
(* Calls *)

(* A new listing or a new batch begins. *)
Send(l, batch) == pc' = l /\ todo' = batch /\ page' = "between" /\ cursor' = 0 /\ seen' = {}
Read(l) == Send(l, {})
End(l) == Send(l, {})

(* A call fails, for one of its records or more. *)
Fault ==
  IF page = "failing" THEN UNCHANGED faults ELSE faults > 0 /\ faults' = faults - 1

(* DEL_RULE of p; -ENOENT is accepted. *)
Deleted(p) == Del(Own(p)) \/ (~Removable(Own(p)) /\ UNCHANGED table)

(* ADD_RULE of p, answered with an error: nothing happened, the old rule was lost, or
   the rule is there and the answer was not. *)
PutFails(p, v) ==
  \/ /\ ~Attachable(Own(p)) /\ UNCHANGED faults
     /\ AddLoses(Own(p)) \/ (Own(p) \notin Installed /\ UNCHANGED table)
  \/ Fault /\ (UNCHANGED table \/ AddLoses(Own(p)) \/ Add(Own(p), v))

DeleteFails(p) == Fault /\ (UNCHANGED table \/ Deleted(p))

(* The record of p failed.  The records that are left in its page are processed all the
   same; then the call answers with the error, and no later page is sent. *)
FailsAt(p, l) ==
  \/ todo # {p} /\ page' = "failing" /\ todo' = todo \ {p} /\ UNCHANGED <<pc, cursor, seen>>
  \/ Read(l)

(* One page of GET_LIST: the records from the cursor on, by index. *)
Page == {k \in Installed : Cardinality(ahead[k]) \in cursor .. cursor + PageLen - 1}

(* paginate: the next page is asked for until one is empty. *)
ReadPage ==
  /\ pc \in Listing /\ Page # {}
  /\ seen' = seen \cup {<<k, rules[k]>> : k \in Page}
  /\ cursor' = cursor + Cardinality(Page)
  /\ UNCHANGED <<table, local, pc, todo, page, quiet, ext, faults>>

Listed(l) == pc = l /\ Page = {}

-----------------------------------------------------------------------------
(* The rules of the plan in place are put by the boot, then reconcile begins. *)

(* The next record of a batch of ADDs.  Each takes the lock for itself; where a page ends
   makes a difference only when one of its records has failed. *)
Record(p, v, l) ==
  \/ /\ page = "between" /\ Add(Own(p), v)
     /\ todo' = todo \ {p}
     /\ UNCHANGED <<pc, page, cursor, seen, faults>>
  \/ PutFails(p, v) /\ FailsAt(p, l)

BootPut ==
  /\ pc = "boot"
  /\ \E p \in Shallowest(todo) : Record(p, before[p], "boot")
  /\ UNCHANGED <<local, quiet, ext>>

Begin ==
  /\ pc = "boot" /\ todo = {}
  /\ start' = Observed /\ quiet' = TRUE
  /\ Read("check")
  /\ UNCHANGED <<table, before, after, foreign, attempted, ext, faults>>

-----------------------------------------------------------------------------
(* validate_snapshot *)

(* Mutant: only the key is compared. *)
PresentByKey(plan) == \A p \in Planned(plan) : \E r \in seen : r[1] = Own(p)

(* verify_present: every rule of a plan is listed as it was put. *)
Present(plan) == \A p \in Planned(plan) : <<Own(p), plan[p]>> \in seen

NotOwned == {r \in seen : r[1] \notin {Own(p) : p \in Planned(before)}}

(* Mutant: a rule above or below an owned path is no conflict. *)
ConflictsAtPath(r, p) == r[1][1] = p

(* Mutant: a rule at an owned path is no conflict. *)
ConflictsAround(r, p) ==
  /\ r[1][1] \in Anc[p] \/ p \in Anc[r[1][1]]
  /\ ~(r[2] = Derived /\ r[1][2] = Global /\ r[1][1] \in Anc[p])

(* A foreign rule at, above or below an owned path, for whichever UID; a derived
   global directory above is shared. *)
Conflicts(r, p) ==
  /\ r[1][1] = p \/ r[1][1] \in Anc[p] \/ p \in Anc[r[1][1]]
  /\ ~(r[2] = Derived /\ r[1][2] = Global /\ r[1][1] \in Anc[p])

Acceptable ==
  /\ Present(before)
  /\ ~\E r \in NotOwned, p \in Planned(before) \cup Planned(after) : Conflicts(r, p)

Obsolete == Planned(before) \ Planned(after)

Check ==
  /\ Listed("check")
  /\ \/ /\ Acceptable
        /\ foreign' = NotOwned
        /\ Send("delete", Obsolete)
     \/ ~Acceptable /\ End("refused") /\ UNCHANGED foreign
  /\ UNCHANGED <<table, before, after, attempted, start, quiet, ext, faults>>

CheckFails ==
  /\ pc = "check" /\ Fault
  /\ End("refused")
  /\ UNCHANGED <<table, local, quiet, ext>>

-----------------------------------------------------------------------------
(* reconcile *)

(* The lock is held from the first record of a page to its last. *)
Delete ==
  /\ pc = "delete"
  /\ \E p \in Deepest(todo) :
       \/ /\ page # "failing" /\ Deleted(p)
          /\ todo' = todo \ {p}
          /\ page' = "between" \/ (page' = "locked" /\ todo # {p})
          /\ UNCHANGED <<pc, cursor, seen, faults>>
       \/ DeleteFails(p) /\ FailsAt(p, "survey")
  /\ UNCHANGED <<local, quiet, ext>>

PutBegin ==
  /\ pc = "delete" /\ todo = {}
  /\ attempted' = (Planned(after) # {})
  /\ Send("put", Planned(after))
  /\ UNCHANGED <<table, before, after, foreign, start, quiet, ext, faults>>

Put ==
  /\ pc = "put"
  /\ \E p \in Shallowest(todo) : Record(p, after[p], "survey")
  /\ UNCHANGED <<local, quiet, ext>>

PutEnd ==
  /\ pc = "put" /\ todo = {}
  /\ Read("verify")
  /\ UNCHANGED <<table, local, quiet, ext, faults>>

(* Explicit records that are not owned are still what they were. *)
Preserved == \A r \in foreign : r[2] # Derived => r \in seen

(* Mutant: only what should be there is looked for. *)
GoneNotLooked(old, plan) == TRUE

(* verify_result: nothing that should have gone is there, but as a derived parent. *)
Gone(old, plan) ==
  \A p \in Planned(old) \ Planned(plan) : \A r \in seen : r[1] = Own(p) => r[2] = Derived

Verify ==
  /\ Listed("verify")
  /\ IF Present(after) /\ Gone(before, after) /\ Preserved THEN End("ok") ELSE Read("survey")
  /\ UNCHANGED <<table, local, quiet, ext, faults>>

VerifyFails ==
  /\ pc = "verify" /\ Fault
  /\ Read("survey")
  /\ UNCHANGED <<table, local, quiet, ext>>

-----------------------------------------------------------------------------
(* rollback *)

Tried == IF attempted THEN after ELSE Nothing

Introduced == {p \in Planned(Tried) \ Planned(before) : <<Own(p), Tried[p]>> \in seen}

Survey ==
  /\ Listed("survey")
  /\ Send("undo", Introduced)
  /\ UNCHANGED <<table, local, quiet, ext, faults>>

(* Here each record is a call of its own, and its error is ignored. *)
Undo ==
  /\ pc = "undo"
  /\ \E p \in Deepest(todo) :
       /\ \/ Deleted(p) /\ UNCHANGED faults
          \/ DeleteFails(p)
       /\ todo' = todo \ {p}
  /\ UNCHANGED <<local, pc, page, cursor, seen, quiet, ext>>

UndoEnd ==
  /\ pc = "undo" /\ todo = {}
  /\ Read("resurvey")
  /\ UNCHANGED <<table, local, quiet, ext, faults>>

(* Mutant: a replaced rule is not restored. *)
LostGone == {p \in Planned(before) : \A r \in seen : r[1] = Own(p) => r[2] = Derived}

(* Old rules that are gone or replaced by this transaction, and by nobody else. *)
Lost == {p \in Planned(before) :
           /\ <<Own(p), before[p]>> \notin seen
           /\ \A r \in seen : r[1] = Own(p) =>
                r[2] = Derived \/ (p \in Planned(Tried) /\ r[2] = Tried[p])}

Resurvey ==
  /\ Listed("resurvey")
  /\ Send("restore", Lost)
  /\ UNCHANGED <<table, local, quiet, ext, faults>>

Restore ==
  /\ pc = "restore"
  /\ \E p \in Shallowest(todo) :
       /\ \/ Add(Own(p), before[p]) /\ UNCHANGED faults
          \/ PutFails(p, before[p])
       /\ todo' = todo \ {p}
  /\ UNCHANGED <<local, pc, page, cursor, seen, quiet, ext>>

RestoreEnd ==
  /\ pc = "restore" /\ todo = {}
  /\ Read("confirm")
  /\ UNCHANGED <<table, local, quiet, ext, faults>>

Confirm ==
  /\ Listed("confirm")
  /\ End(IF Present(before) /\ Gone(Tried, before) /\ Preserved THEN "clean" ELSE "incomplete")
  /\ UNCHANGED <<table, local, quiet, ext, faults>>

RollbackFails ==
  /\ pc \in {"survey", "resurvey", "confirm"} /\ Fault
  /\ End("incomplete")
  /\ UNCHANGED <<table, local, quiet, ext>>

-----------------------------------------------------------------------------
(* A page of DELs that has begun and not ended holds hybridmount_rwsem. *)
Locked == pc = "delete" /\ page # "between"

(* The command line: rule add, rule del, rule clear; an add may fail as well. *)
Command ==
  /\ pc \notin Over /\ ~Locked /\ ext > 0 /\ ext' = ext - 1
  /\ \/ \E k \in Keys : Del(k) \/ AddLoses(k) \/ \E v \in ExtPayloads : Add(k, v)
     \/ Clear
  /\ quiet' = FALSE
  /\ UNCHANGED <<local, pc, todo, page, cursor, seen, faults>>

Reconcile ==
  \/ Check \/ CheckFails \/ Delete \/ PutBegin \/ Put \/ PutEnd \/ Verify \/ VerifyFails
  \/ Survey \/ Undo \/ UndoEnd \/ Resurvey \/ Restore \/ RestoreEnd \/ Confirm \/ RollbackFails

Next == BootPut \/ Begin \/ ReadPage \/ Reconcile \/ Command

Spec == Init /\ [][Next]_vars

-----------------------------------------------------------------------------
(* Properties *)

OwnedKeys == {Own(p) : p \in Planned(before) \cup Planned(after)}

(* The explicit rules are those of a plan and, besides, what was there at the start. *)
Exactly(plan) ==
  \A k \in Keys :
    LET want == IF k \in OwnedKeys THEN plan[k[1]] ELSE start.rules[k] IN
    Explicit(k) \/ want \in Payloads => rules[k] = want

(* No rule of somebody else was hidden from a caller that saw it. *)
OthersVisible ==
  \A u \in Uids : \A k \in start.visible[u] \ OwnedKeys :
    start.rules[k] \in Payloads => k \in Visible(u)

(* A rule at p was there when reconcile began, and no caller could reach it. *)
CutOff(p) == start.rules[Own(p)] # None /\ Own(p) \notin start.visible[Global]

(* reconcile returns Ok, nobody else wrote meanwhile: the new plan is in place and can
   be reached, but where a directory above that is no part of it was cut off before; no
   other explicit rule has changed or was hidden. *)
OkIsExact ==
  pc = "ok" /\ quiet =>
    /\ Exactly(after) /\ OthersVisible
    /\ \A p \in Planned(after) :
         Own(p) \in Visible(Global) \/ \E a \in Anc[p] \ Planned(after) : CutOff(a)

(* "rollback clean": the explicit rules are those reconcile found, although calls of the
   rollback may have failed as well (rollback verifies by reading back). *)
CleanIsBefore == pc = "clean" /\ quiet => Exactly(before) /\ OthersVisible

(* A rule that another tool had there when reconcile read the table is
   neither replaced nor removed by any of its calls, also with the command line active
   ("without clearing unrelated kernel state"). *)
ForeignKept ==
  [][ext' = ext => \A r \in foreign :
        r[2] # Derived /\ rules[r[1]] = r[2] => rules'[r[1]] = r[2]]_vars

(* One failing call of reconcile is always repaired, whichever records of its page failed
   and whatever the others did: an incomplete rollback needs a second failing call or
   another writer. *)
SingleFailureRepaired ==
  pc = "incomplete" /\ quiet => faults + 2 =< start.faults

-----------------------------------------------------------------------------
(* The explicit rules of a table, and a plan as a table of its own. *)
Written(t) == [k \in Keys |-> IF t[k] \in Payloads THEN t[k] ELSE None]
Wish(plan) == [k \in Keys |-> IF k[2] = Global THEN plan[k[1]] ELSE None]

Contract == INSTANCE RuleExchange WITH
  table <- Written(rules), entry <- Written(start.rules),
  old <- Wish(before), new <- Wish(after),
  state <- IF pc = "boot" THEN "idle" ELSE IF pc \in Over THEN pc ELSE "running",
  alone <- quiet \/ pc = "boot"

(* Behind its calls and pages reconcile is, while nobody else writes, an exchange of the rules
   of two plans: each record puts or takes away rules of theirs alone, the opaque directories
   that a DEL empties among them, and what it returns is so: what the ledger's operations take
   it for (runtime/rules.rs, reconcile). *)
ReconcileIsExchange == Contract!Spec

-----------------------------------------------------------------------------
(* What the documentation says and the code does not do *)

(* runtime/rules.rs:262: "Report recovery according to actual state, even when a syscall
   returned an error after completing its mutation."  A failing ADD loses the directory rule it
   was to replace, and what was installed below hangs from the lost one.  If the ADDs of those
   rules are on a later page, they are never sent; the rollback puts the directory back, and the
   rules below are listed as before, no caller can reach them, the rollback is clean. *)
CleanIsReachable ==
  pc = "clean" /\ quiet =>
    \A p \in Planned(before) : Own(p) \in start.visible[Global] => Own(p) \in Visible(Global)
=============================================================================
