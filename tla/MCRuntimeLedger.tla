--------------------------- MODULE MCRuntimeLedger ---------------------------
(* Small instances of RuntimeLedger: one rule key for each of two modules. *)
EXTENDS RuntimeLedger

CONSTANTS k1, k2, m1, m2

MCModuleOf == [k \in Keys |-> IF k = k1 THEN m1 ELSE m2]
==============================================================================
