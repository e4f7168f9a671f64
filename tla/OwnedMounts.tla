------------------------------ MODULE OwnedMounts ------------------------------
(* Which mounts belong to this boot, and how they are taken off again             *)
(* (src/src/runtime/mounts.rs), while other tools mount and unmount.              *)
(*                                                                                *)
(* A live mount is a record [id, target, kind, time].  kind is what mountinfo     *)
(* tells of it besides (device, type, source): mounts of one file system share    *)
(* it, and an id that is free is used again.  time only orders them: a mount      *)
(* covers its target and all below it, and those that come later are on it.       *)
EXTENDS Naturals, FiniteSets

CONSTANTS Paths, Depth,  \* mount points, and how many components each has
          Within,        \* pairs <<p, q>>: p is q or lies below it
          Ids, Kinds, None,
          MaxTime        \* how many mounts are made between two reboots

ASSUME PathsAssumption ==
  /\ \A p \in Paths : <<p, p>> \in Within
  /\ Depth \in [Paths -> Nat] /\ MaxTime \in Nat

VARIABLES
  live, clock,     \* the mounts there are; the time of the latest
  base, baseTime,  \* the mounts before the boot, and their latest time
  owned,           \* the mounts the ledger records, with the baseline at their target
  pc,
  listing,         \* what was read of mountinfo last
  target, seen,    \* the mount point to detach, and the id that was visible there
  raced            \* another tool changed the mounts since it was looked at

vars == <<live, clock, base, baseTime, owned, pc, listing, target, seen, raced>>

IdsOf(ms) == {m.id : m \in ms}
SameIdentity(o, m) == o.id = m.id /\ o.target = m.target /\ o.kind = m.kind

(* The mount that a lookup of p ends on, and what a lazy unmount of it takes off. *)
IsVisible(m, p) ==
  /\ m \in live /\ <<p, m.target>> \in Within
  /\ \A n \in live : <<p, n.target>> \in Within => n.time <= m.time
Subtree(v) == {m \in live : m = v \/ (m.time > v.time /\ <<m.target, v.target>> \in Within)}

NewMount(p, k) ==
  /\ clock < MaxTime /\ clock' = clock + 1
  /\ \E i \in Ids \ IdsOf(live) :
       live' = live \cup {[id |-> i, target |-> p, kind |-> k, time |-> clock']}

(* Mutant: the mounts that were there before are captured as well.                *)
CaptureAll(ms) ==
  {[id |-> m.id, target |-> m.target, kind |-> m.kind,
    baseline |-> IdsOf({b \in base : b.target = m.target})] : m \in ms}

(* A mount is captured when its id is not one of the baseline.                    *)
CaptureSnapshot(ms) ==
  {[id |-> m.id, target |-> m.target, kind |-> m.kind,
    baseline |-> IdsOf({b \in base : b.target = m.target})] :
     m \in {n \in ms : n.id \notin IdsOf(base)}}
IdentityChanged(ms) == \E m \in ms, b \in base : b.id = m.id /\ ~SameIdentity(b, m)

------------------------------------------------------------------------------
(* What a listing tells of the owned mounts.                                      *)
Active(ms) == {o \in owned : o.id \in IdsOf(ms)}
Changed(ms) == \E o \in owned, m \in ms : m.id = o.id /\ ~SameIdentity(o, m)
Replaced(ms) ==
  \E o \in owned, m \in ms :
    m.target = o.target /\ m.id \notin IdsOf(owned) /\ m.id \notin o.baseline

(* Mutant: a mount at the first level below is taken for one of the owned.        *)
ForeignFarBelow(ms) ==
  \E o \in Active(ms), m \in ms :
    /\ <<m.target, o.target>> \in Within /\ Depth[m.target] > Depth[o.target] + 1
    /\ m.id \notin IdsOf(owned)

ForeignBelow(ms) ==
  \E o \in Active(ms), m \in ms :
    /\ m.target # o.target /\ <<m.target, o.target>> \in Within
    /\ m.id \notin IdsOf(owned)
Preflight(ms) == ~Changed(ms) /\ ~Replaced(ms) /\ ~ForeignBelow(ms)

(* Every mount point of an owned mount that is left shows an owned mount.         *)
OwnedVisible(ms, t, v) == IsVisible(v, t) /\ \E o \in Active(ms) : o.target = t /\ o.id = v.id
VerifyVisible(ms) == \A o \in Active(ms) : \E v \in live : OwnedVisible(ms, o.target, v)

Forget == listing' = {} /\ target' = None /\ seen' = None /\ raced' = FALSE

------------------------------------------------------------------------------
Init ==
  /\ live = {} /\ clock = 0 /\ base = {} /\ baseTime = 0 /\ owned = {}
  /\ pc = "clean" /\ listing = {} /\ target = None /\ seen = None /\ raced = FALSE

(* The boot reads what is mounted before it mounts.                               *)
Start ==
  /\ pc = "clean" /\ pc' = "boot" /\ base' = live /\ baseTime' = clock
  /\ UNCHANGED <<live, clock, owned, listing, target, seen, raced>>

Mount ==
  /\ pc = "boot" /\ \E p \in Paths, k \in Kinds : NewMount(p, k)
  /\ UNCHANGED <<base, baseTime, owned, pc, listing, target, seen, raced>>

(* It records the new mounts at the mount points it committed.                    *)
Capture ==
  /\ pc = "boot"
  /\ \E targets \in SUBSET Paths :
       LET ms == {m \in live : m.target \in targets} IN
       IF IdentityChanged(ms)
       THEN pc' = "incomplete" /\ UNCHANGED owned
       ELSE pc' = "idle" /\ owned' = CaptureSnapshot(ms)
  /\ UNCHANGED <<live, clock, base, baseTime, listing, target, seen, raced>>

(* Before anything is released all of it is validated.                            *)
Validate ==
  /\ pc = "idle" /\ Preflight(live) /\ VerifyVisible(live) /\ pc' = "list"
  /\ UNCHANGED <<live, clock, base, baseTime, owned, listing, target, seen, raced>>

List ==
  /\ pc = "list" /\ pc' = "check" /\ listing' = live
  /\ UNCHANGED <<live, clock, base, baseTime, owned, target, seen, raced>>

(* The deepest mount point is next, if it still shows an owned mount.             *)
Check ==
  /\ pc = "check" /\ Preflight(listing) /\ VerifyVisible(listing)
  /\ \E o \in Active(listing) :
       /\ \A other \in Active(listing) : Depth[other.target] <= Depth[o.target]
       /\ \E v \in live : OwnedVisible(listing, o.target, v) /\ target' = o.target /\ seen' = v.id
  /\ pc' = "detach" /\ raced' = FALSE
  /\ UNCHANGED <<live, clock, base, baseTime, owned, listing>>

Detach ==
  /\ pc = "detach" /\ pc' = "readback"
  /\ \E v \in live : IsVisible(v, target) /\ v.target = target /\ live' = live \ Subtree(v)
  /\ UNCHANGED <<clock, base, baseTime, owned, listing, target, seen, raced>>

ReadBack ==
  /\ pc = "readback" /\ seen \notin IdsOf(live)
  /\ listing' = live /\ pc' = "check"
  /\ UNCHANGED <<live, clock, base, baseTime, owned, target, seen, raced>>

(* A list, a lookup, a check or an unmount fails, or the process dies: what is    *)
(* recorded is kept, and the cleanup can be tried again.                          *)
Fail ==
  /\ pc \in {"list", "check", "detach", "readback"} /\ pc' = "idle" /\ Forget
  /\ UNCHANGED <<live, clock, base, baseTime, owned>>

Done ==
  /\ pc = "check" /\ Preflight(listing) /\ Active(listing) = {}
  /\ pc' = "clean" /\ owned' = {} /\ Forget
  /\ UNCHANGED <<live, clock, base, baseTime>>

------------------------------------------------------------------------------
(* Other tools, which do not know of the lock.                                    *)
ExtMount ==
  /\ \E p \in Paths, k \in Kinds : NewMount(p, k)
  /\ raced' = (pc = "detach")
  /\ UNCHANGED <<base, baseTime, owned, pc, listing, target, seen>>

ExtUnmount ==
  /\ \E v \in live : IsVisible(v, v.target) /\ live' = live \ Subtree(v)
  /\ raced' = (pc = "detach")
  /\ UNCHANGED <<clock, base, baseTime, owned, pc, listing, target, seen>>

Reboot ==
  /\ pc # "clean" /\ pc' = "clean" /\ live' = {} /\ clock' = 0
  /\ base' = {} /\ baseTime' = 0 /\ owned' = {} /\ Forget

Next ==
  \/ Start \/ Mount \/ Capture \/ Validate \/ List \/ Check \/ Detach \/ ReadBack
  \/ Fail \/ Done \/ ExtMount \/ ExtUnmount \/ Reboot

Spec == Init /\ [][Next]_vars

------------------------------------------------------------------------------
(* A mount is in the system once, and every saved one was new to its baseline.    *)
TypeOK ==
  /\ live \subseteq [id : Ids, target : Paths, kind : Kinds, time : 1..clock]
  /\ clock \in 0..MaxTime /\ baseTime \in 0..clock
  /\ owned \subseteq [id : Ids, target : Paths, kind : Kinds, baseline : SUBSET Ids]
  /\ pc \in {"clean", "boot", "incomplete", "idle", "list", "check", "detach", "readback"}
  /\ target \in Paths \cup {None} /\ seen \in Ids \cup {None} /\ raced \in BOOLEAN
  /\ \A m, n \in live : m.id = n.id \/ m.time = n.time => m = n

TakenOff == IF pc = "detach" /\ pc' = "readback" /\ ~raced THEN live \ live' ELSE {}

(* Cleanup never takes off a mount that was there before the boot, also not one   *)
(* below or above an owned mount, as long as no tool changes the mounts between   *)
(* the last look and the unmount (runtime/mounts.rs: "Mountinfo order and numeric *)
(* IDs do not identify the top of a stack").                                      *)
BaselineKept == [][TakenOff \cap base = {}]_vars

(* What a detach takes off with its subtree is owned, unless it came after the    *)
(* last listing: no mount of another tool that the listing showed is lost         *)
(* (docs/RUNTIME.md: "foreign descendants block cleanup").                        *)
StrangersKept ==
  [][\A m \in TakenOff \cap listing : \E o \in owned : SameIdentity(o, m)]_vars
================================================================================
