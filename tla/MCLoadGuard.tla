----------------------------- MODULE MCLoadGuard -----------------------------
(* The packages of a kernel whose label is that of the second target of its     *)
(* line: both targets, two builds of one version, an update without the first,  *)
(* one with a rebuilt object and one that cannot be read, and one with none.    *)
EXTENDS LoadGuard, TLC

CONSTANTS o1, o2, o3, o4

MCIdent == [o \in Objects |-> CASE o = o2 -> "i2" [] o = o4 -> Unread [] OTHER -> "i1"]

Target(n, line, label) == [name |-> n, line |-> line, label |-> label]
MCTargets == <<Target("t1", "5.10", 12), Target("t2", "5.15", 13), Target("t3", "5.15", 14)>>
Package(v, b, packaged) ==
  [version |-> v, binary |-> b, objs |-> BundledCandidates(MCTargets, packaged, "5.15", 14)]
MCPackages ==
  {Package("v1", "b1", "t2" :> o2 @@ "t3" :> o1), Package("v1", "b2", "t2" :> o2 @@ "t3" :> o1),
   Package("v1", "b1", "t1" :> o1 @@ "t2" :> o2), Package("v1", "b1", "t2" :> o4 @@ "t3" :> o3),
   Package("v2", "b3", "t1" :> o1)}
==============================================================================
