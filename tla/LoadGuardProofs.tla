--------------------------- MODULE LoadGuardProofs ---------------------------
(* An interrupted attempt is not repeated and a refusal names the marker that    *)
(* founds it, for every set of packages.                                         *)
EXTENDS LoadGuard, TLAPS

(* While a kernel object may be in the middle of its insertion its marker, and  *)
(* nothing else, is what a crash leaves.                                        *)
Armed == pc \in Attempt => file \in Marker /\ disks = {file}

(* An interrupted attempt that nobody withdrew still has its marker, on disk    *)
(* and nowhere contradicted, and no attempt is under way beside it.             *)
Remembered ==
  crashed # None =>
    /\ file = crashed /\ disks = {crashed}
    /\ pc \notin {"arming"} \cup Attempt

IInv == TypeOK /\ Armed /\ Remembered

LEMMA PayloadIsMarker ==
  ASSUME TypeOK, cand \in DOMAIN pkg.objs, NEW b \in Readings
  PROVE  Payload(b) \in Marker
<1>1. pkg.objs \in Seq(Objects) /\ pkg \in Packages
  BY PackagesAssumption DEF TypeOK
<1>2. pkg.objs[cand] \in Objects
  BY <1>1
<1>3. b \in {q.binary : q \in Packages} \cup {Unread}
  BY <1>1 DEF Readings
<1> DEFINE E(p, c, o) == [version |-> p.version, binary |-> c, object |-> Ident[o]]
<1>4. Payload(b) = E(pkg, b, pkg.objs[cand])
  BY DEF Payload
<1> HIDE DEF E
<1>5. Payload(b) \in {E(p, c, o) : p \in Packages, c \in {q.binary : q \in Packages} \cup {Unread}, o \in Objects}
  BY <1>1, <1>2, <1>3, <1>4
<1> QED  BY <1>5 DEF Marker, E

LEMMA FirstCandidate ==
  ASSUME TypeOK, pkg.objs # << >>
  PROVE  1 \in DOMAIN pkg.objs
BY PackagesAssumption DEF TypeOK

(* A marker that would be repeated is not retired: whether the executable can   *)
(* be read or not, this build left it for an object it still ships.             *)
LEMMA RepeatIsBlamed ==
  ASSUME WouldRepeat(crashed, pkg), NEW b \in Readings
  PROVE  Matches(crashed, pkg.version, b) /\ Blames(crashed, pkg.objs)
BY DEF WouldRepeat, Matches, Blames, Readings

LEMMA InitInv == Init => IInv
<1> SUFFICES ASSUME Init PROVE IInv  OBVIOUS
<1>1. TypeOK  BY DEF Init, TypeOK, Attempt, Inserting
<1>2. Armed /\ Remembered  BY DEF Init, Armed, Remembered, Attempt, Inserting
<1> QED  BY <1>1, <1>2 DEF IInv

LEMMA NextInv == IInv /\ [Next]_vars => IInv'
<1> SUFFICES ASSUME IInv, [Next]_vars PROVE IInv'  OBVIOUS
<1> USE DEF IInv, TypeOK, Armed, Remembered, Attempt, Inserting, Seen
<1>1. CASE Refuse  BY <1>1 DEF Refuse, Return
<1>2. CASE Retire
  <2>1. PICK b \in Readings : file = Partial \/ ~(Matches(file, pkg.version, b) /\ Blames(file, pkg.objs))
    BY <1>2 DEF Retire, Readings
  <2>2. crashed # None => ~WouldRepeat(crashed, pkg)
    BY <2>1, RepeatIsBlamed, PackagesAssumption
  <2>3. crashed' = None
    BY <1>2, <2>2 DEF Retire
  <2>4. pkg.objs # << >> /\ TypeOK
    BY <1>2 DEF Retire, NeedsLoad
  <2>5. file' \in {None, file} /\ disks' \subseteq disks \cup {None}
    BY <1>2 DEF Retire, Removed, RemovedUnsynced, NotRemoved
  <2>6. slack' \in BOOLEAN
    BY <1>2 DEF Retire, Removed, RemovedUnsynced, NotRemoved
  <2>7. cand' = 1 /\ pc' \in {"idle", "next"} /\ nomount' \in {"none", "there"}
    BY <1>2 DEF Retire, Return
  <2>8. 1 \in DOMAIN pkg.objs
    BY <2>4, FirstCandidate
  <2>9. UNCHANGED <<module, pkg, child, loaded>>
    BY <1>2 DEF Retire
  <2>10. TypeOK'
    BY <2>3, <2>5, <2>6, <2>7, <2>8, <2>9
  <2> QED  BY <2>3, <2>7, <2>10
<1>3. CASE BeginLoad \/ BeginNuke
  BY <1>3, FirstCandidate DEF BeginLoad, BeginNuke, NeedsLoad, Return
<1>4. CASE Create
  <2>1. crashed # None => file # None
    BY PackagesAssumption
  <2> QED  BY <1>4, <2>1 DEF Create, Return
<1>5. CASE Arm  BY <1>5, PayloadIsMarker DEF Arm
<1>6. CASE ArmFails
  <2>1. PICK b \in Readings : file' \in {None, Payload(b)} /\ disks' = disks \cup {None, Partial, Payload(b)}
    BY <1>6 DEF ArmFails
  <2>2. Payload(b) \in Marker
    BY <1>6, PayloadIsMarker DEF ArmFails
  <2> QED  BY <1>6, <2>1, <2>2 DEF ArmFails, Return
<1>7. CASE Spawn
  <2>1. pkg.objs \in Seq(Objects) /\ cand \in DOMAIN pkg.objs
    BY <1>7, PackagesAssumption DEF Spawn
  <2>2. pkg.objs[cand] \in Objects
    BY <2>1
  <2> QED  BY <1>7, <2>2 DEF Spawn
<1>8. CASE StartDrain \/ WaitChild \/ CollectDrain
  BY <1>8 DEF StartDrain, WaitChild, CollectDrain, Reap
<1>9. CASE Exhausted
  BY <1>9 DEF Exhausted, Unload
<1>10. CASE Insert \/ ChildExits
  BY <1>10 DEF Insert, ChildExits
<1>11. CASE Nomount
  BY <1>11 DEF Nomount
<1>12. CASE Release
  <2>1. pkg.objs \in Seq(Objects)
    BY PackagesAssumption
  <2>2. file' \in {None, file} /\ disks' \subseteq disks \cup {None}
    BY <1>12 DEF Release, Removed, RemovedUnsynced, NotRemoved
  <2>3. slack' \in BOOLEAN
    BY <1>12 DEF Release, Removed, RemovedUnsynced, NotRemoved
  <2>4. crashed' = None /\ UNCHANGED <<module, pkg, child, loaded>>
    BY <1>12 DEF Release
  <2>5. CASE /\ cand < Len(pkg.objs)
             /\ pc' = "next" /\ cand' = cand + 1 /\ UNCHANGED nomount
    <3>1. cand' \in Nat /\ cand' \in DOMAIN pkg.objs'
      BY <2>1, <2>4, <2>5
    <3> QED  BY <2>2, <2>3, <2>4, <2>5, <3>1
  <2>6. CASE pc' = "idle" /\ cand' = 1 /\ nomount' = Seen
    BY <2>2, <2>3, <2>4, <2>6
  <2> QED  BY <1>12, <2>5, <2>6 DEF Release, Return
<1>13. CASE Crash  BY <1>13 DEF Crash, Interrupted, Return
<1>14. CASE Kill
  <2>5. loaded' \in Objects \cup {None}
    BY <1>14 DEF Kill
  <2>1. PICK b \in Readings : file' = file \/ (pc = "arming" /\ file' = Payload(b))
    BY <1>14 DEF Kill
  <2>2. pc = "arming" => Payload(b) \in Marker
    BY PayloadIsMarker
  <2>3. CASE pc = "arming"
    BY <1>14, <2>5, <2>1, <2>2, <2>3 DEF Kill, Interrupted, Return
  <2>4. CASE pc # "arming"
    <3>1. disks' = disks \cup {file} /\ file' = file
      BY <1>14, <2>1, <2>4 DEF Kill
    <3> QED  BY <1>14, <2>5, <3>1, <2>4 DEF Kill, Interrupted, Return
  <2> QED  BY <2>3, <2>4
<1>15. CASE Clear  BY <1>15 DEF Clear, Removed, RemovedUnsynced, NotRemoved
<1>16. CASE Install  BY <1>16 DEF Install
<1>17. CASE Report  BY <1>17 DEF Report, Return
<1>18. CASE UNCHANGED vars  BY <1>18 DEF vars
<1> QED  BY <1>1, <1>2, <1>3, <1>4, <1>5, <1>6, <1>7, <1>8, <1>9, <1>10, <1>11, <1>12,
            <1>13, <1>14, <1>15, <1>16, <1>17, <1>18 DEF Next

LEMMA AlwaysIInv == Spec => []IInv
BY InitInv, NextInv, PTL DEF Spec

(* An attempt that was interrupted is never repeated by the build that made it, *)
(* whatever crashes, kills, installs and failed removals came between           *)
(* (vfs/lkm.rs load_explicit, sys/lkm.rs LoadAttemptGuard).                     *)
THEOREM NeverRepeated == Spec => []NoRepeat
<1>1. IInv => NoRepeat
  BY DEF IInv, Remembered, NoRepeat, WouldRepeat, Attempt
<1> QED  BY <1>1, AlwaysIInv, PTL

(* Every marker names a package and an object of it, also after a crash in the  *)
(* middle of writing one (sys/lkm.rs LoadAttemptGuard::arm_at).                 *)
THEOREM TypeCorrect == Spec => []TypeOK
<1>1. IInv => TypeOK
  BY DEF IInv
<1> QED  BY <1>1, AlwaysIInv, PTL

(* Without slack a marker on disk is the visible one, and one that is not of a  *)
(* running attempt was left by the interrupted one.                             *)
Certain == ~slack /\ pc # "arming" => disks = {file}
Founded ==
  /\ ~slack /\ pc \notin {"arming"} \cup Attempt /\ file # None =>
       crashed # None /\ file = crashed
  /\ pc = "refused" => file # None

FInv == IInv /\ Certain /\ Founded

(* A removal leaves no marker, or the knowledge that there may be one.          *)
LEMMA RemovalIsFounded ==
  ASSUME Removed \/ RemovedUnsynced \/ NotRemoved, pc' # "refused"
  PROVE  Certain' /\ Founded'
BY DEF Removed, RemovedUnsynced, NotRemoved, Certain, Founded

LEMMA InitFounded == Init => FInv
<1>1. Init => Certain /\ Founded
  BY DEF Init, Certain, Founded
<1> QED  BY <1>1, InitInv DEF FInv

LEMMA NextFounded == FInv /\ [Next]_vars => FInv'
<1> SUFFICES ASSUME FInv, [Next]_vars PROVE Certain' /\ Founded'
  BY NextInv DEF FInv
<1> USE DEF FInv, Attempt, Inserting
<1>1. CASE Refuse \/ BeginLoad \/ BeginNuke \/ Report
  BY <1>1 DEF Refuse, BeginLoad, BeginNuke, Report, Return, Certain, Founded
<1>2. CASE Retire
  BY <1>2, RemovalIsFounded DEF Retire, Return
<1>3. CASE Create
  BY <1>3 DEF Create, Return, Certain, Founded
<1>4. CASE Arm
  BY <1>4 DEF Arm, Certain, Founded
<1>5. CASE ArmFails
  BY <1>5 DEF ArmFails, Return, Certain, Founded
<1>6. CASE Spawn \/ StartDrain \/ WaitChild \/ CollectDrain \/ Exhausted
  BY <1>6 DEF Spawn, StartDrain, WaitChild, CollectDrain, Reap, Exhausted, Certain, Founded
<1>7. CASE Insert \/ ChildExits \/ Nomount
  BY <1>7 DEF Insert, ChildExits, Nomount, Certain, Founded
<1>8. CASE Release
  BY <1>8, RemovalIsFounded DEF Release, Return
<1>9. CASE Crash
  <2>1. pc' = "idle" /\ file' \in disks /\ disks' = {file'} /\ Interrupted
    BY <1>9 DEF Crash, Return
  <2>2. Certain'
    BY <2>1 DEF Certain
  <2>3. ASSUME ~slack', file' # None PROVE crashed' # None /\ file' = crashed'
    <3>1. ~slack /\ pc # "arming"
      BY <2>1, <2>3 DEF Interrupted
    <3>2. file' = file
      BY <2>1, <3>1 DEF Certain
    <3> QED  BY <2>1, <2>3, <3>1, <3>2 DEF Interrupted, Founded
  <2> QED  BY <2>1, <2>2, <2>3 DEF Founded
<1>10. CASE Kill
  <2>1. pc' = "idle" /\ disks' = disks \cup {file'} /\ Interrupted
    BY <1>10 DEF Kill, Return
  <2>2. pc # "arming" => file' = file
    BY <1>10 DEF Kill
  <2>3. CASE disks' = {None}
    BY <2>1, <2>3 DEF Certain, Founded
  <2>4. CASE disks' # {None} /\ ~slack'
    <3>1. ~slack /\ pc # "arming"
      BY <2>1, <2>4 DEF Interrupted
    <3>2. file' = file /\ disks' = {file'}
      BY <2>1, <2>2, <3>1 DEF Certain
    <3> QED  BY <2>1, <3>1, <3>2 DEF Interrupted, Certain, Founded
  <2>5. CASE slack'
    BY <2>1, <2>5 DEF Certain, Founded
  <2> QED  BY <2>3, <2>4, <2>5
<1>11. CASE Clear
  <2>1. Removed \/ RemovedUnsynced \/ NotRemoved
    BY <1>11 DEF Clear
  <2> QED  BY <1>11, <2>1, RemovalIsFounded DEF Clear
<1>12. CASE Install
  BY <1>12 DEF Install, Certain, Founded
<1>13. CASE UNCHANGED vars
  BY <1>13 DEF vars, Certain, Founded
<1> QED  BY <1>1, <1>2, <1>3, <1>4, <1>5, <1>6, <1>7, <1>8, <1>9, <1>10, <1>11, <1>12,
            <1>13 DEF Next

(* Loading is refused only on account of an insertion that was interrupted, or  *)
(* of a marker whose writing or removal failed (vfs/boot_guard.rs retire,       *)
(* sys/lkm.rs LoadAttemptGuard::arm_at and its drop).                           *)
THEOREM RefusalAlwaysFounded == Spec => []RefusalIsFounded
<1>1. FInv => RefusalIsFounded
  <2> SUFFICES ASSUME FInv, pc = "refused", ~slack PROVE crashed # None /\ file = crashed
    BY DEF RefusalIsFounded
  <2> QED  BY DEF FInv, Founded, Attempt, Inserting
<1>2. Spec => []FInv
  BY InitFounded, NextFounded, PTL DEF Spec
<1> QED  BY <1>1, <1>2, PTL

(* A program is at work only in its attempt, on the candidate whose marker is     *)
(* armed; the marker of an attempt is that of its candidate, and no NoMount was   *)
(* there when the loader last looked.                                             *)
AtWork ==
  /\ child # None => pc \in {"spawned", "wait"} /\ child = pkg.objs[cand]
  /\ pc \in Attempt => file.version = pkg.version /\ file.object = Ident[pkg.objs[cand]]
  /\ module = "vfs" /\ pc \in {"next", "arming"} \cup Inserting => nomount # "there"

LEMMA InitAtWork == Init => AtWork
BY DEF Init, AtWork, Attempt, Inserting

LEMMA NextAtWork == IInv /\ AtWork /\ [Next]_vars => AtWork'
<1> SUFFICES ASSUME IInv, AtWork, [Next]_vars PROVE AtWork'  OBVIOUS
<1> USE DEF AtWork, Attempt, Inserting, Seen
<1>1. CASE Refuse \/ BeginLoad \/ BeginNuke \/ Report
  BY <1>1 DEF Refuse, BeginLoad, BeginNuke, Report, Return, NeedsLoad, NomountAbsent
<1>2. CASE Retire
  BY <1>2 DEF Retire, Return, NeedsLoad, NomountAbsent
<1>3. CASE Create
  BY <1>3 DEF Create, Return
<1>4. CASE Arm
  BY <1>4 DEF Arm, Payload
<1>5. CASE ArmFails
  BY <1>5 DEF ArmFails, Return
<1>6. CASE Spawn \/ StartDrain \/ WaitChild \/ CollectDrain \/ Exhausted
  BY <1>6 DEF Spawn, StartDrain, WaitChild, CollectDrain, Reap, Exhausted
<1>7. CASE Insert \/ ChildExits
  BY <1>7 DEF Insert, ChildExits
<1>8. CASE Nomount
  BY <1>8 DEF Nomount
<1>9. CASE Release
  BY <1>9 DEF Release, Return, NomountAbsent
<1>10. CASE Crash
  BY <1>10 DEF Crash, Return
<1>11. CASE Kill
  BY <1>11 DEF Kill, Return
<1>12. CASE Clear
  BY <1>12 DEF Clear
<1>13. CASE Install
  BY <1>13 DEF Install
<1>14. CASE UNCHANGED vars
  BY <1>14 DEF vars
<1> QED  BY <1>1, <1>2, <1>3, <1>4, <1>5, <1>6, <1>7, <1>8, <1>9, <1>10, <1>11, <1>12,
            <1>13, <1>14 DEF Next

LEMMA StepIsCovered == IInv /\ AtWork /\ [Next]_vars => [Covered]_vars
<1> SUFFICES ASSUME IInv, AtWork, Next, loaded' \notin {None, loaded} PROVE Covered
  BY DEF Covered
<1>1. \/ Insert
     \/ Kill
  BY DEF Next, Refuse, Retire, BeginLoad, BeginNuke, Create, Arm, ArmFails, Spawn, StartDrain,
     WaitChild, CollectDrain, Exhausted, Unload, Release, ChildExits, Nomount, Crash, Clear,
     Install, Report
<1>2. module = "vfs" /\ child # None /\ loaded' = child
  BY <1>1 DEF Insert, Kill
<1> QED  BY <1>2 DEF Covered, IInv, Armed, AtWork, Attempt, Inserting

(* An object goes into the kernel only while its own marker is what a crash would *)
(* leave, and beside no NoMount that was there when the loader looked: whatever   *)
(* hangs is killed and waited for before its marker goes (sys/process.rs          *)
(* wait_child and start_drain, sys/lkm.rs LoadAttemptGuard, vfs/lkm.rs load).     *)
THEOREM InsertionAlwaysCovered == Spec => InsertionIsCovered
<1>1. Init => IInv /\ AtWork
  BY InitInv, InitAtWork
<1>2. IInv /\ AtWork /\ [Next]_vars => (IInv /\ AtWork)'
  BY NextInv, NextAtWork
<1> QED  BY <1>1, <1>2, StepIsCovered, PTL DEF Spec, InsertionIsCovered
==============================================================================
