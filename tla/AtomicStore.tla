---------------------------- MODULE AtomicStore ----------------------------
(***************************************************************************)
(* What atomic_write (src/src/sys/fs.rs) promises the callers that keep a  *)
(* file with it: the file always holds one content that somebody put there *)
(* whole, a power loss takes it back to an earlier one at most, and never  *)
(* behind a save that was reported as done.                                *)
(***************************************************************************)
EXTENDS Naturals, Sequences

CONSTANT Contents     \* what can be put into the file, its absence included

VARIABLES
    versions,         \* the contents put there, oldest first; the last is read
    acked             \* the newest version whose save was reported as done

vars == <<versions, acked>>

Init ==
    /\ versions \in {<<c>> : c \in Contents}
    /\ acked = 1

Install ==
    /\ \E c \in Contents : versions' = Append(versions, c)
    /\ UNCHANGED acked

Acknowledge ==
    /\ acked' \in acked .. Len(versions)
    /\ UNCHANGED versions

PowerLoss ==
    /\ \E k \in acked .. Len(versions) : versions' = SubSeq(versions, 1, k)
    /\ UNCHANGED acked

Next == Install \/ Acknowledge \/ PowerLoss

Spec == Init /\ [][Next]_vars
=============================================================================
