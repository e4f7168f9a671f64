------------------------ MODULE MCMountTransaction ------------------------
(* Small instances of MountTransaction. *)
EXTENDS MountTransaction

CONSTANTS o1, o2, b1, l1
=============================================================================
