---------------------------- MODULE MCOwnedMounts ----------------------------
(* A partition, a directory of it and a file in that: every stack and every     *)
(* order of covering is there.  Ids are few, so that they are used again.       *)
EXTENDS OwnedMounts, TLC

CONSTANTS i1, i2, i3, i4, k1, k2

MCPaths == {"s", "se", "seh"}
MCDepth == [p \in MCPaths |-> CASE p = "s" -> 1 [] p = "se" -> 2 [] OTHER -> 3]
MCWithin == {pq \in MCPaths \X MCPaths : MCDepth[pq[2]] <= MCDepth[pq[1]]}
Symmetric == Permutations({i1, i2, i3, i4}) \cup Permutations({k1, k2})
==============================================================================
