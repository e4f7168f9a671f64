--------------------------- MODULE MCConfigStore ---------------------------
(***************************************************************************)
(* Two processes over a file that is missing, a dangling link, garbled or  *)
(* an edited configuration; patches of every kind.                         *)
(***************************************************************************)
EXTENDS ConfigStore, TLC

CONSTANTS p1, p2, m1, Overlay, Vfs, Tmpfs, Ext4, SomePath

Custom ==
    [mode |-> Overlay, settings |-> Tmpfs,
     rules |-> (m1 :> [mode |-> Vfs, paths |-> NoPaths])]

MCInitial == {Entry(Missing, FALSE), Entry(Missing, TRUE),
              Entry(Garbled, FALSE), Entry(Custom, FALSE)}

MCEdited == {Entry(Missing, TRUE), Entry(Garbled, FALSE), Entry(Custom, FALSE)}

NoRules == [m \in {} |-> NoRule]

MCPatches ==
    {[mode |-> Vfs, settings |-> Keep, replace |-> FALSE, rules |-> NoRules],
     [mode |-> Ignore, settings |-> Keep, replace |-> FALSE, rules |-> NoRules],
     [mode |-> Keep, settings |-> Ext4, replace |-> TRUE, rules |-> NoRules],
     [mode |-> Keep, settings |-> Keep, replace |-> FALSE,
      rules |-> (m1 :> [mode |-> Keep, paths |-> SomePath])]}

MCLists == {{m1}, Garbled}

PidSymmetry == Permutations(Pids)
=============================================================================
