-------------------------- MODULE OwnedMountsProofs --------------------------
(* Cleanup keeps the baseline and the mounts of other tools, for every tree of  *)
(* mount points, every number of mounts and every reuse of ids.                 *)
EXTENDS OwnedMounts, TLAPS

(* The baseline is what is left of before the boot.                             *)
BaseIsOld ==
  /\ \A b \in base : b.time <= baseTime
  /\ \A m \in live : m.time <= baseTime => m \in base

(* No owned mount has an id of the baseline, and only a boot makes them owned.  *)
OwnedIsNew ==
  /\ IdsOf(owned) \cap IdsOf(base) = {}
  /\ pc \in {"clean", "boot", "incomplete"} => owned = {}

(* Between the look and the unmount the mount that is visible is an owned one.  *)
Looked ==
  pc = "detach" /\ ~raced =>
    /\ Preflight(listing)
    /\ \E o \in Active(listing), v \in live :
         o.target = target /\ o.id = v.id /\ IsVisible(v, target)

Mounts == [id : Ids, target : Paths, kind : Kinds, time : Nat]
Typed ==
  /\ live \subseteq Mounts /\ base \subseteq Mounts
  /\ clock \in Nat /\ baseTime \in Nat /\ baseTime <= clock
  /\ \A m \in live : m.time <= clock
  /\ \A m, n \in live : m.time = n.time => m = n

IInv == Typed /\ BaseIsOld /\ OwnedIsNew /\ Looked

LEMMA CapturedIsNew ==
  ASSUME NEW ms PROVE IdsOf(CaptureSnapshot(ms)) \cap IdsOf(base) = {}
BY DEF CaptureSnapshot, IdsOf

(* A new mount is later than all there are, and one fewer changes nothing.      *)
LEMMA NewMountTyped ==
  ASSUME Typed, BaseIsOld, NEW p \in Paths, NEW k \in Kinds, NewMount(p, k),
         UNCHANGED <<base, baseTime>>
  PROVE  Typed' /\ BaseIsOld'
<1>1. PICK i \in Ids : live' = live \cup {[id |-> i, target |-> p, kind |-> k, time |-> clock']}
  BY DEF NewMount
<1>2. clock' = clock + 1
  BY DEF NewMount
<1> DEFINE new == [id |-> i, target |-> p, kind |-> k, time |-> clock + 1]
<1>3. new \in Mounts /\ new.time = clock + 1
  BY DEF Typed, Mounts
<1>4. live' = live \cup {new}
  BY <1>1, <1>2
<1> HIDE DEF new
<1>5. \A m \in live : m.time \in Nat /\ m.time < clock + 1
  BY DEF Typed, Mounts
<1>6. Typed'
  BY <1>2, <1>3, <1>4, <1>5 DEF Typed
<1>7. BaseIsOld'
  BY <1>3, <1>4 DEF Typed, BaseIsOld
<1> QED  BY <1>6, <1>7

LEMMA UnmountTyped ==
  ASSUME Typed, BaseIsOld, NEW v \in live, live' = live \ Subtree(v),
         UNCHANGED <<clock, base, baseTime>>
  PROVE  Typed' /\ BaseIsOld'
<1>1. live' \subseteq live
  OBVIOUS
<1> QED  BY <1>1 DEF Typed, BaseIsOld

LEMMA InitInv == Init => IInv
<1> SUFFICES ASSUME Init PROVE IInv  OBVIOUS
<1> QED  BY DEF Init, IInv, Typed, BaseIsOld, OwnedIsNew, Looked, IdsOf

LEMMA NextInv == IInv /\ [Next]_vars => IInv'
<1> SUFFICES ASSUME IInv, [Next]_vars PROVE IInv'  OBVIOUS
<1> USE DEF IInv
<1>1. CASE Start
  <2>1. Typed' /\ BaseIsOld'
    BY <1>1 DEF Start, Typed, BaseIsOld
  <2>2. OwnedIsNew' /\ Looked'
    BY <1>1 DEF Start, OwnedIsNew, Looked, IdsOf
  <2> QED  BY <2>1, <2>2
<1>2. CASE Mount
  <2>1. Typed' /\ BaseIsOld'
    BY <1>2, NewMountTyped DEF Mount
  <2>2. OwnedIsNew' /\ Looked'
    BY <1>2 DEF Mount, OwnedIsNew, Looked, IdsOf
  <2> QED  BY <2>1, <2>2
<1>3. CASE Capture
  <2>1. Typed' /\ BaseIsOld' /\ Looked'
    BY <1>3 DEF Capture, Typed, BaseIsOld, Looked
  <2>2. PICK ms : \/ pc' = "incomplete" /\ UNCHANGED owned
                  \/ pc' = "idle" /\ owned' = CaptureSnapshot(ms)
    BY <1>3 DEF Capture
  <2>3. base' = base /\ owned = {}
    BY <1>3 DEF Capture, OwnedIsNew
  <2>4. OwnedIsNew'
    BY <2>2, <2>3, CapturedIsNew DEF OwnedIsNew, IdsOf
  <2> QED  BY <2>1, <2>4
<1>4. CASE Validate \/ List
  BY <1>4 DEF Validate, List, Typed, BaseIsOld, OwnedIsNew, Looked
<1>5. CASE Check
  <2>1. Typed' /\ BaseIsOld' /\ OwnedIsNew'
    BY <1>5 DEF Check, Typed, BaseIsOld, OwnedIsNew
  <2>2. Preflight(listing)'
    BY <1>5 DEF Check, Preflight, Changed, Replaced, ForeignBelow, Active
  <2>3. PICK o \in Active(listing) : \E v \in live : OwnedVisible(listing, o.target, v) /\ target' = o.target
    BY <1>5 DEF Check
  <2>4. PICK v \in live : OwnedVisible(listing, o.target, v) /\ target' = o.target
    BY <2>3
  <2>5. PICK w \in Active(listing) : w.target = o.target /\ w.id = v.id
    BY <2>4 DEF OwnedVisible
  <2>6. IsVisible(v, target)'
    BY <1>5, <2>4 DEF Check, OwnedVisible, IsVisible
  <2>7. w \in Active(listing)' /\ v \in live' /\ w.target = target' /\ w.id = v.id
    BY <1>5, <2>4, <2>5 DEF Check, Active
  <2>8. Looked'
    BY <2>2, <2>6, <2>7 DEF Looked
  <2> QED  BY <2>1, <2>8
<1>6. CASE Detach
  <2>1. Typed' /\ BaseIsOld'
    BY <1>6, UnmountTyped DEF Detach
  <2>2. OwnedIsNew' /\ Looked'
    BY <1>6 DEF Detach, OwnedIsNew, Looked
  <2> QED  BY <2>1, <2>2
<1>7. CASE ReadBack
  BY <1>7 DEF ReadBack, Typed, BaseIsOld, OwnedIsNew, Looked
<1>8. CASE Fail
  BY <1>8 DEF Fail, Forget, Typed, BaseIsOld, OwnedIsNew, Looked
<1>9. CASE Done
  BY <1>9 DEF Done, Forget, Typed, BaseIsOld, OwnedIsNew, Looked, IdsOf
<1>10. CASE ExtMount
  <2>1. Typed' /\ BaseIsOld'
    BY <1>10, NewMountTyped DEF ExtMount
  <2>2. OwnedIsNew' /\ Looked'
    BY <1>10 DEF ExtMount, OwnedIsNew, Looked
  <2> QED  BY <2>1, <2>2
<1>11. CASE ExtUnmount
  <2>1. Typed' /\ BaseIsOld'
    BY <1>11, UnmountTyped DEF ExtUnmount
  <2>2. OwnedIsNew' /\ Looked'
    BY <1>11 DEF ExtUnmount, OwnedIsNew, Looked
  <2> QED  BY <2>1, <2>2
<1>12. CASE Reboot
  BY <1>12 DEF Reboot, Forget, Typed, BaseIsOld, OwnedIsNew, Looked, IdsOf
<1>13. CASE UNCHANGED vars
  <2>1. Typed' /\ BaseIsOld' /\ OwnedIsNew'
    BY <1>13 DEF vars, Typed, BaseIsOld, OwnedIsNew
  <2>2. Looked'
    BY <1>13 DEF vars, Looked, Preflight, Changed, Replaced, ForeignBelow, Active, IsVisible
  <2> QED  BY <2>1, <2>2
<1> QED  BY <1>1, <1>2, <1>3, <1>4, <1>5, <1>6, <1>7, <1>8, <1>9, <1>10, <1>11, <1>12, <1>13 DEF Next

LEMMA AlwaysIInv == Spec => []IInv
BY InitInv, NextInv, PTL DEF Spec

(* What is taken off, if anything, is on an owned mount that was looked at.     *)
LEMMA TakenOffIsOnOwned ==
  ASSUME IInv, [Next]_vars, NEW m \in TakenOff
  PROVE  /\ m \in live /\ Preflight(listing)
         /\ \E o \in Active(listing), v \in live :
              /\ o.target = target /\ v.id = o.id /\ IsVisible(v, target) /\ v.target = target
              /\ m \in Subtree(v)
<1>1. pc = "detach" /\ pc' = "readback" /\ ~raced /\ m \in live /\ m \notin live'
  BY DEF TakenOff
<1>2. Detach
  BY <1>1 DEF Next, vars, Start, Mount, Capture, Validate, List, Check, ReadBack, Fail, Done,
              ExtMount, ExtUnmount, Reboot
<1>3. PICK v \in live : IsVisible(v, target) /\ v.target = target /\ live' = live \ Subtree(v)
  BY <1>2 DEF Detach
<1>4. PICK o \in Active(listing), w \in live : o.target = target /\ o.id = w.id /\ IsVisible(w, target)
  BY <1>1 DEF IInv, Looked
<1>5. v = w
  <2>1. v.time \in Nat /\ w.time \in Nat
    BY <1>3, <1>4 DEF IInv, Typed, Mounts
  <2>2. v.time <= w.time /\ w.time <= v.time
    BY <1>3, <1>4 DEF IsVisible
  <2> QED  BY <2>1, <2>2 DEF IInv, Typed
<1>6. Preflight(listing)
  BY <1>1 DEF IInv, Looked
<1> QED  BY <1>1, <1>3, <1>4, <1>5, <1>6

(* Cleanup never takes off a mount that was there before the boot               *)
(* (runtime/mounts.rs cleanup_with, capture_snapshot).                          *)
THEOREM BaselineIsKept == Spec => BaselineKept
<1>1. IInv /\ [Next]_vars => TakenOff \cap base = {}
  <2> SUFFICES ASSUME IInv, [Next]_vars, NEW m \in TakenOff, m \in base PROVE FALSE
    OBVIOUS
  <2>1. PICK o \in Active(listing), v \in live : v.id = o.id /\ m \in Subtree(v) /\ m \in live
    BY TakenOffIsOnOwned
  <2>2. m.time \in Nat /\ v.time \in Nat /\ baseTime \in Nat /\ m.time <= baseTime
    BY <2>1 DEF IInv, Typed, Mounts, BaseIsOld
  <2>3. v.time <= m.time
    BY <2>1, <2>2 DEF Subtree
  <2>4. v \in base
    BY <2>1, <2>2, <2>3 DEF IInv, BaseIsOld
  <2>5. o \in owned
    BY DEF Active
  <2> QED  BY <2>1, <2>4, <2>5 DEF IInv, OwnedIsNew, IdsOf
<1> QED  BY <1>1, AlwaysIInv, PTL DEF Spec, BaselineKept

(* No mount of another tool that the last listing showed is taken off with an   *)
(* owned one (runtime/mounts.rs preflight).                                     *)
THEOREM StrangersAreKept == Spec => StrangersKept
<1>1. IInv /\ [Next]_vars => \A m \in TakenOff \cap listing : \E o \in owned : SameIdentity(o, m)
  <2> SUFFICES ASSUME IInv, [Next]_vars, NEW m \in TakenOff, m \in listing
               PROVE  \E o \in owned : SameIdentity(o, m)
    OBVIOUS
  <2>1. PICK o \in Active(listing), v \in live :
          /\ o.target = target /\ v.id = o.id /\ IsVisible(v, target) /\ v.target = target
          /\ m \in Subtree(v) /\ m \in live /\ Preflight(listing)
    BY TakenOffIsOnOwned
  <2>2. m.id \in IdsOf(owned)
    <3>1. CASE m = v
      BY <2>1, <3>1 DEF Active, IdsOf
    <3>2. CASE m # v
      <4>1. m.time > v.time /\ <<m.target, o.target>> \in Within
        BY <2>1, <3>2 DEF Subtree
      <4>2. m.time \in Nat /\ v.time \in Nat /\ m.target \in Paths
        BY <2>1 DEF IInv, Typed, Mounts
      <4>3. m.target # target
        BY <2>1, <4>1, <4>2, PathsAssumption DEF IsVisible
      <4> QED  BY <2>1, <4>1, <4>3 DEF Preflight, ForeignBelow
    <3> QED  BY <3>1, <3>2
  <2>3. PICK p \in owned : p.id = m.id
    BY <2>2 DEF IdsOf
  <2> QED  BY <2>1, <2>3 DEF Preflight, Changed
<1> QED  BY <1>1, AlwaysIInv, PTL DEF Spec, StrangersKept
==============================================================================
