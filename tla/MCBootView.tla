----------------------------- MODULE MCBootView ------------------------------
(* Devices, module trees and configurations that meet in the ways the planner   *)
(* tells apart.                                                                 *)
EXTENDS HotView

MCNameRank ==
  [n \in {"cust", "d", "etc", "new", "system", "vendor", "x", "y"} |->
     CASE n = "cust" -> 1 [] n = "d" -> 2 [] n = "etc" -> 3 [] n = "new" -> 4
       [] n = "system" -> 5 [] n = "vendor" -> 6 [] n = "x" -> 7 [] n = "y" -> 8]

(* A tree with the directories its paths need.                                  *)
Node(kind) == [kind |-> kind, replace |-> FALSE, remove |-> "none", link |-> "away"]
Grown(leaves) ==
  [p \in UNION {Steps(q) : q \in DOMAIN leaves} |->
     IF p \in DOMAIN leaves THEN leaves[p] ELSE Node("dir")]
File == Node("file")
Replaced == [Node("dir") EXCEPT !.replace = TRUE]
Removed == [Node("dir") EXCEPT !.remove = "file"]

etcX == <<"system", "etc", "x">>
etcD == <<"system", "etc", "d">>
Trees ==
  {Grown(etcX :> File),
   Grown(Append(etcX, "y") :> File),
   Grown(etcD :> File),
   Grown(etcX :> Node("symlink")),
   Grown(etcX :> Node("nulldev")),
   Grown(Append(etcD, "x") :> File @@ Append(etcD, "y") :> File),
   Grown(etcD :> Replaced @@ Append(etcD, "y") :> File),
   Grown(etcD :> Removed),
   Grown(Front(etcX) :> Replaced @@ Append(etcD, "y") :> File),
   Grown(<<"system", "new", "x">> :> File @@ <<"system", "x">> :> File
         @@ <<"system", "y">> :> File),
   Grown(<<"system", "new", "x">> :> File),
   Grown(<<"vendor", "etc", "x">> :> File @@ <<"cust", "x">> :> File),
   Grown(<<"system", "vendor", "etc", "x">> :> File),
   Grown(<<"system", "vendor", "etc", "y">> :> File @@ <<"vendor", "etc", "x">> :> File),
   Grown(<<"vendor">> :> Replaced @@ <<"vendor", "x">> :> File
         @@ <<"system", "vendor">> :> [Node("symlink") EXCEPT !.link = "up"]),
   Grown(<<"system", "vendor">> :> Removed)}

(* Trees that the planner does not put where their names say: something other   *)
(* than a directory in the place of a partition, a `system` with a malformed    *)
(* .remove, and two paths for one target.                                       *)
sysVendor == <<"system", "vendor">>
vendorX   == <<"system", "vendor", "etc", "x">>
BadMark   == [Node("dir") EXCEPT !.remove = "bad"]
OddTrees ==
  {Grown(sysVendor :> Node("symlink") @@ etcX :> File),
   Grown(sysVendor :> Node("file")), Grown(sysVendor :> Node("nulldev")),
   Grown(<<"system">> :> BadMark @@ vendorX :> File),
   Grown(<<"system">> :> [BadMark EXCEPT !.replace = TRUE] @@ vendorX :> File
         @@ sysVendor :> Replaced),
   Grown(vendorX :> Node("nulldev") @@ <<"vendor", "etc", "y">> :> File),
   Grown(Front(vendorX) :> Removed @@ <<"vendor", "y">> :> File),
   Grown(<<"system", "cust">> :> Node("nulldev") @@ <<"system", "x">> :> File)}

(* Trees that meet the peculiarities of the other devices, and trees for which  *)
(* operations after the boot are looked at.                                     *)
OtherTrees ==
  {Grown(Append(etcD, "x") :> File @@ Append(etcD, "y") :> File),
   Grown(<<"system", "vendor", "etc", "y">> :> File @@ <<"vendor", "etc", "x">> :> File)}
HotTrees ==
  {Grown(etcX :> File), Grown(Append(etcX, "y") :> File), Grown(etcD :> Removed),
   Grown(Append(etcD, "x") :> File @@ Append(etcD, "y") :> File),
   Grown(<<"vendor", "etc", "x">> :> File @@ <<"cust", "x">> :> File)}

Directory(id, tree) ==
  [name |-> id, id |-> id, prop |-> TRUE, disable |-> FALSE, remove |-> FALSE,
   skip |-> FALSE, tree |-> tree]
Pairs(first, second) == {{Directory(1, a), Directory(2, b)} : a \in first, b \in second}
ModuleSets ==
  Pairs(Trees, Trees) \cup
  {{[Directory(1, t) EXCEPT !.disable = TRUE], [Directory(2, t) EXCEPT !.name = 3]} : t \in Trees}

Plain(mode) == [default_mode |-> mode, blacklist |-> {}, extra |-> {}, rules |-> << >>]
Rule(default, paths) == [default |-> default, paths |-> paths]
Key(key, mode) == [lead |-> FALSE, key |-> key, mode |-> mode]
Keyed ==
  [Plain("overlay") EXCEPT !.rules = 1 :> Rule("ignore", {Key(etcD, "overlay")})
                                     @@ 2 :> Rule("vfs", {})]
Holed(mode, hole, key) ==
  [Plain(mode) EXCEPT !.rules = 1 :> Rule("unset", {Key(hole, "ignore"), Key(key, mode)})]
Configs ==
  {Plain("overlay"), Plain("magic"), Plain("vfs"),
   [Plain("overlay") EXCEPT !.extra = {"cust"}, !.blacklist = {2}],
   [Plain("overlay") EXCEPT !.rules = 1 :> Rule("unset", {Key(<<"system", "etc">>, "magic")})],
   [Plain("overlay") EXCEPT !.rules = 1 :> Rule("ignore", {Key(<<"system">>, "overlay")})
                                      @@ 2 :> Rule("unset", {Key(etcX, "ignore")})],
   Keyed, Holed("overlay", etcX, Append(etcX, "y")), Holed("vfs", etcD, Append(etcD, "y")),
   [Plain("magic") EXCEPT !.rules = 2 :> Rule("vfs", {Key(etcD, "ignore")})]}

HotConfigs ==
  {Plain("vfs"), [Plain("magic") EXCEPT !.rules = 2 :> Rule("vfs", {Key(etcD, "ignore")})]}

Root == [id |-> 1, point |-> << >>, fsroot |-> << >>, dev |-> 1]
Vendor == [id |-> 2, point |-> <<"vendor">>, fsroot |-> << >>, dev |-> 2]
SystemStock ==
  <<"system">> :> "dir" @@ <<"system", "etc">> :> "dir" @@ etcX :> "file"
  @@ etcD :> "dir" @@ Append(etcD, "x") :> "file"
Split ==
  [stock |-> SystemStock @@ <<"system", "vendor">> :> "symlink" @@ <<"vendor">> :> "dir"
             @@ <<"vendor", "etc">> :> "dir" @@ <<"vendor", "etc", "x">> :> "file"
             @@ <<"cust">> :> "dir",
   alias |-> <<"system", "vendor">> :> <<"vendor">>,
   mounts |-> {Root, Vendor}, failing |-> {}]
Merged ==
  [stock |-> SystemStock @@ <<"system", "vendor">> :> "dir"
             @@ <<"system", "vendor", "etc">> :> "dir",
   alias |-> << >>, mounts |-> {Root}, failing |-> {}]
Bound ==
  [Split EXCEPT
     !.stock = [p \in DOMAIN Split.stock |-> IF p = <<"system", "vendor">> THEN "dir"
                                             ELSE Split.stock[p]]
               @@ <<"system", "vendor", "etc">> :> "dir"
               @@ <<"system", "vendor", "etc", "x">> :> "file",
     !.alias = << >>,
     !.mounts = {Root, Vendor, [Vendor EXCEPT !.id = 4, !.point = <<"system", "vendor">>]}]
Child == [Split EXCEPT
            !.mounts = {Root, Vendor, [Vendor EXCEPT !.id = 3, !.point = etcD, !.dev = 3]}]
Blind == [Split EXCEPT !.failing = {<<"vendor">>}]

(* Modules of which an overlay shows a file the report does not look for:       *)
(* one whose overlay is mounted above the directory that it adds, with sources *)
(* for the provider besides, and one with a file in the place of a partition.   *)
TwoWays == Grown(<<"system", "new", "x">> :> File @@ etcX :> File)
TwoWaysConfig ==
  [Plain("overlay") EXCEPT !.rules = 1 :> Rule("unset", {Key(<<"system", "etc">>, "vfs")})]
MisfiledConfig ==
  [Plain("overlay") EXCEPT !.rules = 1 :> Rule("ignore", {Key(sysVendor, "overlay")})]

(* The other devices differ in the partition vendor and below etc/d.            *)
InputsOf(devices, first, second, cfgs) ==
  [device : devices, dirs : Pairs(first, second), cfg : cfgs]
MCInputs ==
  [device : {Split}, dirs : ModuleSets, cfg : Configs] \cup
  InputsOf({Merged, Bound, Child, Blind}, Trees, OtherTrees,
          {Plain("overlay"), Plain("magic"), Plain("vfs")}) \cup
  InputsOf({Child}, Trees, OtherTrees, {Keyed}) \cup
  InputsOf({Split, Merged, Bound, Child, Blind}, OddTrees, OddTrees \cup OtherTrees, Configs) \cup
  InputsOf({Split}, {TwoWays}, OtherTrees, {TwoWaysConfig}) \cup
  InputsOf({Split, Merged, Bound}, {Grown(sysVendor :> File)}, OtherTrees, {MisfiledConfig})

(* Hot operations.                                                              *)
MCHotInputs == InputsOf({Split}, HotTrees, HotTrees, HotConfigs)
MCLaterTrees ==
  {Grown(Append(etcD, "y") :> File), Grown(etcD :> Replaced @@ Append(etcD, "y") :> File),
   Grown(<<"vendor", "etc", "y">> :> File)}
MCLaterConfigs == {Plain("vfs"), [Plain("vfs") EXCEPT !.blacklist = {1}], Plain("magic")}
==============================================================================
