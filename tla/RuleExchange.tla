---------------------------- MODULE RuleExchange ----------------------------
(***************************************************************************)
(* What reconcile (src/src/runtime/rules.rs) promises the operations that  *)
(* exchange one plan of rules for another: it writes and removes rules of  *)
(* the two plans alone, any number at a time, and when it returns it says  *)
(* what became of them.  Others may write to the same table at any time;   *)
(* from then on nothing is promised here.                                  *)
(***************************************************************************)
CONSTANTS Keys,       \* where a rule may be
          Payloads,   \* what it may be
          None        \* no rule

VARIABLES
    table,            \* the rules that were written there
    old, new,         \* the plan in place and the plan wanted
    entry,            \* the table when reconcile began
    state,            \* whether it runs, and what it returned
    alone             \* nobody else has written since

vars == <<table, old, new, entry, state, alone>>

Tables == [Keys -> Payloads \cup {None}]

Concerned == {k \in Keys : old[k] # None \/ new[k] # None}

(* The table with the wanted plan, and nothing else changed.               *)
Exchanged == [k \in Keys |-> IF k \in Concerned THEN new[k] ELSE entry[k]]

Init ==
    /\ {table, old, new} \subseteq Tables
    /\ entry = table /\ state = "idle" /\ alone = TRUE

(* Until it begins, writing is nobody's business.                          *)
Others ==
    /\ state \in {"idle", "running"}
    /\ table' \in Tables /\ alone' = (state = "idle")
    /\ UNCHANGED <<old, new, entry, state>>

Begin ==
    /\ state = "idle" /\ state' = "running"
    /\ entry' = table /\ alone' = TRUE
    /\ UNCHANGED <<table, old, new>>

(* Deleting a rule may take directories of the plans with it.              *)
Exchange ==
    /\ state = "running"
    /\ table' \in Tables
    /\ \A k \in Keys :
         table'[k] # table[k] => k \in Concerned /\ table'[k] \in {None, old[k], new[k]}
    /\ UNCHANGED <<old, new, entry, state, alone>>

(* Ok, refused before anything was done, or failed with a rollback that    *)
(* says whether it is clean.                                               *)
Finish ==
    /\ state = "running"
    /\ \/ state' = "ok" /\ (alone => table = Exchanged)
       \/ state' \in {"refused", "clean"} /\ (alone => table = entry)
       \/ state' = "incomplete"
    /\ UNCHANGED <<table, old, new, entry, alone>>

Next == Others \/ Begin \/ Exchange \/ Finish

Spec == Init /\ [][Next]_vars
=============================================================================
