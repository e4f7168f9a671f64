----------------------------- MODULE MCRuleTable -----------------------------
(* A path, one below it and one below that, for every caller or for UID u1. *)
EXTENDS RuleTable

CONSTANTS a, b, c, u1, d, o, f

MCParent == [p \in {a, b, c} |-> IF p = a THEN Root ELSE IF p = b THEN a ELSE b]
MCAnc == [p \in {a, b, c} |-> IF p = a THEN {} ELSE IF p = b THEN {a} ELSE {a, b}]
=============================================================================
