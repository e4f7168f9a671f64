-------------------------- MODULE MCRuleTransaction --------------------------
(* A directory path with two paths in it.  A plan is a tree: what has rules below it is a
   directory, real or opaque; one plan alone has all three paths. *)
EXTENDS RuleTransaction

CONSTANTS a, b, c, u1, d, o, f, x

MCParent == [p \in {a, b, c} |-> IF p = a THEN Root ELSE a]
MCAnc == [p \in {a, b, c} |-> IF p = a THEN {} ELSE {a}]
MCPlans == {plan \in [{a, b, c} -> {d, o, f, None}] :
              /\ plan[a] = f => plan[b] = None
              /\ plan[b] \in {f, None}
              /\ plan[c] # None => plan = [p \in {a, b, c} |-> IF p = a THEN o ELSE f]}
=============================================================================
