------------------------------- MODULE LoadGuard -------------------------------
(* The marker around the loading of a kernel module (src/src/vfs/boot_guard.rs,   *)
(* vfs/lkm.rs, sys/lkm.rs, sys/nuke.rs): it is on disk before a kernel object is  *)
(* inserted and removed on every handled return, so that an attempt that ended    *)
(* the kernel is not repeated by the next boot.  The programs that insert an      *)
(* object are children (sys/process.rs) that may hang and are killed for it, and  *)
(* a NoMount, the other provider, may come and go (vfs/guard.rs).                 *)
(*                                                                                *)
(* A package is a record [version, binary, objs]: the build that runs, and the    *)
(* kernel objects it has for this kernel in the order they are tried.  A marker   *)
(* is a record [version, binary, object], Partial while it is not written, or     *)
(* None.  Identities are sizes and modification times: two objects may share one, *)
(* and one that cannot be read is Unread.                                         *)
EXTENDS Naturals, Sequences

CONSTANTS Packages,       \* the packages that get installed
          Objects, Ident, \* kernel objects and their identities
          None, Partial, Unread

(* What a marker can hold: a build, what was known of its executable, an object.  *)
Marker ==
  {[version |-> p.version, binary |-> b, object |-> Ident[o]] :
     p \in Packages, b \in {q.binary : q \in Packages} \cup {Unread}, o \in Objects}

ASSUME PackagesAssumption ==
  /\ \A p \in Packages : p.objs \in Seq(Objects) /\ p.binary # Unread
  /\ None \notin Marker /\ Partial \notin Marker /\ None # Partial

(* The candidates of a kernel among the targets that are built: those of its line *)
(* in the order of the list, with the one of its own label, or the first, ahead.  *)
LkmCandidates(targets, line, label) ==
  LET same == SelectSeq(targets, LAMBDA t : t.line = line)
      exact == SelectSeq(same, LAMBDA t : t.label = label)
      first == Head(exact \o same)
  IN IF same = << >> THEN << >> ELSE <<first>> \o SelectSeq(same, LAMBDA t : t # first)

(* Those of them that are in the package, as the objects they are there.          *)
BundledCandidates(targets, packaged, line, label) ==
  LET there == SelectSeq(LkmCandidates(targets, line, label), LAMBDA t : t.name \in DOMAIN packaged)
  IN [n \in DOMAIN there |-> packaged[there[n].name]]

VARIABLES
  module,      \* the module the marker is for: "vfs", or the "nuke" of ext4 sysfs
  pkg,         \* the package that is installed
  file,        \* the marker as the running system sees it
  disks,       \* what a crash of the kernel may leave of it
  pc, cand,    \* where the loader is, and the candidate it is at
  child,       \* the object that a program of the loader is about to insert
  loaded,      \* the object in the kernel
  nomount,     \* "none", "there", or "late": come since the loader last looked
  crashed,     \* the last attempt that was interrupted and may be repeated
  slack        \* a marker may be there that no interrupted insertion left

vars == <<module, pkg, file, disks, pc, cand, child, loaded, nomount, crashed, slack>>

(* Whether the marker was left by this build: `binary` is what is known of the    *)
(* running executable.                                                            *)
Matches(m, version, binary) ==
  /\ m.version = version
  /\ binary = Unread \/ m.binary = binary

(* Whether the marker blames an object that is still shipped.                     *)
Blames(m, objs) ==
  m.object = Unread \/ \E n \in DOMAIN objs : Ident[objs[n]] = m.object

(* The build that was interrupted is the one that is installed, and the object is *)
(* still there: loading is what the marker is to prevent.                         *)
WouldRepeat(m, p) ==
  /\ m # None /\ m.version = p.version /\ m.binary = p.binary
  /\ m.object = Unread \/ \E n \in DOMAIN p.objs : Ident[p.objs[n]] = m.object

Payload(binary) ==
  [version |-> pkg.version, binary |-> binary, object |-> Ident[pkg.objs[cand]]]
Readings == {pkg.binary, Unread}

Init ==
  /\ module \in {"vfs", "nuke"} /\ pkg \in Packages
  /\ file = None /\ disks = {None}
  /\ pc = "idle" /\ cand = 1 /\ child = None /\ loaded = None /\ nomount = "none"
  /\ crashed = None /\ slack = FALSE

(* Where a program may be at work, and where the marker of an attempt is armed.   *)
Inserting == {"insert", "spawned", "wait", "drain"}
Attempt == Inserting \cup {"accepted", "failed"}

(* A NoMount that comes after the loader looked is there at its next look.        *)
Seen == IF nomount = "late" THEN "there" ELSE nomount
Return(l) == pc' = l /\ cand' = 1 /\ nomount' = Seen

------------------------------------------------------------------------------
(* Taking the marker away: durably, not yet durably, or not at all.               *)
Removed == file' = None /\ disks' = {None} /\ slack' = FALSE
RemovedUnsynced == file' = None /\ disks' = disks \cup {None} /\ slack' = TRUE
NotRemoved == slack' = TRUE /\ UNCHANGED <<file, disks>>

(* Neither this module nor NoMount is in the kernel.  Unless both can be ruled    *)
(* out nothing is inserted: a look that fails counts as one that found NoMount.   *)
NomountAbsent == nomount = "none"
ProviderAbsent == loaded = None

(* Nothing answers, nothing stands in the way and there is an object to load.     *)
NeedsLoad == NomountAbsent /\ ProviderAbsent /\ pkg.objs # << >>

(* A search is refused when this build left the marker for an object it still     *)
(* ships; any other marker is retired.                                            *)
Refuse ==
  /\ module = "vfs" /\ pc = "idle" /\ NeedsLoad
  /\ file \notin {None, Partial}
  /\ \E b \in Readings : Matches(file, pkg.version, b) /\ Blames(file, pkg.objs)
  /\ Return("refused")
  /\ UNCHANGED <<module, pkg, file, disks, child, loaded, crashed, slack>>

Retire ==
  /\ module = "vfs" /\ pc = "idle" /\ NeedsLoad
  /\ \/ file = Partial
     \/ /\ file \notin {None, Partial}
        /\ \E b \in Readings : ~(Matches(file, pkg.version, b) /\ Blames(file, pkg.objs))
  /\ \/ (Removed \/ RemovedUnsynced) /\ Return("next")
     \/ NotRemoved /\ Return("idle")
  /\ crashed' = IF WouldRepeat(crashed, pkg) THEN crashed ELSE None
  /\ UNCHANGED <<module, pkg, child, loaded>>

(* No marker: the search begins.                                                  *)
BeginLoad ==
  /\ module = "vfs" /\ pc = "idle" /\ NeedsLoad /\ file = None
  /\ Return("next")
  /\ UNCHANGED <<module, pkg, file, disks, child, loaded, crashed, slack>>

(* The nuke module takes the one object that is for this kernel, and its marker   *)
(* is not read first.  It unloads itself, whether it worked or not.               *)
BeginNuke ==
  /\ module = "nuke" /\ pc = "idle" /\ NeedsLoad
  /\ Return("next")
  /\ UNCHANGED <<module, pkg, file, disks, child, loaded, crashed, slack>>

(* The marker is created for a candidate; one that is there is never replaced.    *)
Create ==
  /\ pc = "next"
  /\ \/ /\ file = None /\ file' = Partial /\ disks' = disks \cup {Partial}
        /\ pc' = "arming" /\ UNCHANGED <<cand, nomount>>
     \/ file # None /\ Return("refused") /\ UNCHANGED <<file, disks>>
     \/ Return("idle") /\ UNCHANGED <<file, disks>>
  /\ UNCHANGED <<module, pkg, child, loaded, crashed, slack>>

(* Mutant: the directory of the marker is not synced.                             *)
ArmUnsynced ==
  /\ pc = "arming"
  /\ \E b \in Readings : file' = Payload(b)
  /\ disks' = disks \cup {file'} /\ slack' = FALSE
  /\ pc' = "insert"
  /\ UNCHANGED <<module, pkg, cand, child, loaded, nomount, crashed>>

(* It is written, and it and its directory are synced, before anything is loaded. *)
Arm ==
  /\ pc = "arming"
  /\ \E b \in Readings : file' = Payload(b)
  /\ disks' = {file'} /\ slack' = FALSE
  /\ pc' = "insert"
  /\ UNCHANGED <<module, pkg, cand, child, loaded, nomount, crashed>>

(* Mutant: a marker that could not be synced stays.                               *)
ArmFailsLeaving ==
  /\ pc = "arming" /\ Return("idle")
  /\ \E b \in Readings : /\ file' = Payload(b)
                         /\ disks' = disks \cup {Payload(b)} /\ slack' = slack
  /\ UNCHANGED <<module, pkg, child, loaded, crashed>>

(* One of these fails: the marker is taken away again, if that is possible.       *)
ArmFails ==
  /\ pc = "arming" /\ Return("idle")
  /\ \E b \in Readings, removed \in BOOLEAN :
       /\ file' = IF removed THEN None ELSE Payload(b)
       /\ disks' = disks \cup {None, Partial, Payload(b)} /\ slack' = TRUE
  /\ UNCHANGED <<module, pkg, child, loaded, crashed>>

(* The next of the ways to insert is tried: a program is run, and its messages    *)
(* are read by a thread.  It cannot be run, or runs.                              *)
Spawn ==
  /\ pc = "insert" /\ pc' = "spawned"
  /\ child' = pkg.objs[cand]
  /\ UNCHANGED <<module, pkg, file, disks, cand, loaded, nomount, crashed, slack>>

(* It is killed and waited for: whatever it was at is over.                       *)
Reap == child' = None /\ pc' = "insert"

(* Without the thread the program is not left behind.                             *)
StartDrain ==
  /\ pc = "spawned"
  /\ \/ pc' = "wait" /\ UNCHANGED child
     \/ Reap
  /\ UNCHANGED <<module, pkg, file, disks, cand, loaded, nomount, crashed, slack>>

(* Mutant: a program that takes too long is left alone.                           *)
WaitChildUnreaped ==
  /\ pc = "wait"
  /\ \/ child = None /\ pc' = "drain" /\ UNCHANGED child
     \/ pc' = "insert" /\ UNCHANGED child
  /\ UNCHANGED <<module, pkg, file, disks, cand, loaded, nomount, crashed, slack>>

(* The loader polls until the program has ended, or takes too long.               *)
WaitChild ==
  /\ pc = "wait"
  /\ \/ child = None /\ pc' = "drain" /\ UNCHANGED child
     \/ Reap
  /\ UNCHANGED <<module, pkg, file, disks, cand, loaded, nomount, crashed, slack>>

(* The thread gives up what it read, or others hold the pipe for too long: then   *)
(* nobody asks whether the module answers.  The exit status decides nothing.      *)
Answers == \/ pkg.objs[cand] = loaded
           \/ module = "nuke"
CollectDrain ==
  /\ pc = "drain"
  /\ \/ Answers /\ pc' = "accepted"
     \/ pc' = "insert"
  /\ UNCHANGED <<module, pkg, file, disks, cand, child, loaded, nomount, crashed, slack>>

(* No way was accepted.  A module that is there without answering is taken out,   *)
(* which may fail.                                                                *)
Unload == loaded' \in {None, loaded}
Exhausted ==
  /\ pc = "insert" /\ pc' = "failed"
  /\ Unload
  /\ UNCHANGED <<module, pkg, file, disks, cand, child, nomount, crashed, slack>>

(* Every return ends the attempt by removing its marker.  A failed candidate is   *)
(* followed by the next one only when nothing is loaded and no NoMount has come.  *)
Release ==
  /\ pc \in {"accepted", "failed"}
  /\ Removed \/ RemovedUnsynced \/ NotRemoved
  /\ \/ /\ pc = "failed" /\ module = "vfs" /\ cand < Len(pkg.objs)
        /\ NomountAbsent /\ ProviderAbsent
        /\ pc' = "next" /\ cand' = cand + 1 /\ UNCHANGED nomount
     \/ Return("idle")
  /\ UNCHANGED <<module, pkg, child, loaded, crashed>>

------------------------------------------------------------------------------
(* The program puts the object into a kernel that has none, and ends some time.   *)
(* The nuke module does its work and does not stay.                               *)
Insert ==
  /\ module = "vfs" /\ child # None /\ loaded = None
  /\ loaded' = child
  /\ UNCHANGED <<module, pkg, file, disks, pc, cand, child, nomount, crashed, slack>>

ChildExits ==
  /\ child # None /\ child' = None
  /\ UNCHANGED <<module, pkg, file, disks, pc, cand, loaded, nomount, crashed, slack>>

(* NoMount is loaded by its own scripts, or taken out.                            *)
Nomount ==
  /\ module = "vfs"
  /\ nomount' = IF nomount # "none" THEN "none"
                ELSE IF pc \in {"next", "arming"} \cup Inserting THEN "late" ELSE "there"
  /\ UNCHANGED <<module, pkg, file, disks, pc, cand, child, loaded, crashed, slack>>

(* The kernel dies, with the attempt or without it, and starts again.             *)
Interrupted ==
  /\ crashed' = IF pc \in Attempt THEN file ELSE crashed
  /\ slack' = (disks' # {None} /\ (slack \/ pc = "arming"))
Crash ==
  /\ file' \in disks /\ disks' = {file'}
  /\ Interrupted
  /\ child' = None /\ loaded' = None /\ Return("idle")
  /\ UNCHANGED <<module, pkg>>

(* The process is killed and the kernel lives: the marker stays as it is.  The    *)
(* program it ran ends by itself, before anything else is tried.                  *)
Kill ==
  /\ pc # "idle" /\ Return("idle")
  /\ \E b \in Readings : \/ file' = file
                         \/ pc = "arming" /\ file' = Payload(b)
  /\ disks' = disks \cup {file'}
  /\ Interrupted
  /\ child' = None
  /\ loaded' \in {loaded} \cup {o \in {child} : module = "vfs" /\ loaded = None}
  /\ UNCHANGED <<module, pkg>>

(* The user takes the marker away, and with it the warning.                       *)
Clear ==
  /\ pc = "idle" /\ file # None
  /\ \/ (Removed \/ RemovedUnsynced) /\ crashed' = None
     \/ NotRemoved /\ UNCHANGED crashed
  /\ UNCHANGED <<module, pkg, pc, cand, child, loaded, nomount>>

(* Another package is installed.                                                  *)
Install ==
  /\ pc = "idle" /\ pkg' \in Packages
  /\ UNCHANGED <<module, file, disks, pc, cand, child, loaded, nomount, crashed, slack>>

(* What was refused is reported.                                                  *)
Report == /\ pc = "refused" /\ Return("idle")
          /\ UNCHANGED <<module, pkg, file, disks, child, loaded, crashed, slack>>

Next ==
  \/ Refuse \/ Retire \/ BeginLoad \/ BeginNuke \/ Create \/ Arm \/ ArmFails
  \/ Spawn \/ StartDrain \/ WaitChild \/ CollectDrain \/ Exhausted \/ Release
  \/ Insert \/ ChildExits \/ Nomount
  \/ Crash \/ Kill \/ Clear \/ Install \/ Report

Spec == Init /\ [][Next]_vars

------------------------------------------------------------------------------
(* The marker, what a crash leaves of it and the attempt it was left by are all   *)
(* markers of a package, and a candidate is one of the installed package.         *)
TypeOK ==
  /\ module \in {"vfs", "nuke"} /\ pkg \in Packages
  /\ file \in Marker \cup {None, Partial} /\ disks \subseteq Marker \cup {None, Partial}
  /\ pc \in {"idle", "next", "arming", "refused"} \cup Attempt
  /\ cand \in Nat /\ (pc \in {"next", "arming"} \cup Attempt => cand \in DOMAIN pkg.objs)
  /\ child \in Objects \cup {None} /\ loaded \in Objects \cup {None}
  /\ nomount \in {"none", "there", "late"}
  /\ slack \in BOOLEAN /\ crashed \in Marker \cup {None}

(* An attempt that was interrupted is not repeated by the same build as long as   *)
(* it ships the object, whichever candidate it would try, unless the user took    *)
(* the marker away (vfs/lkm.rs: "it must never become an unattended retry, and    *)
(* never a fallback to another .ko").  The nuke module is never tried again.      *)
NoRepeat ==
  pc \in Inserting => IF module = "vfs" THEN ~WouldRepeat(crashed, pkg) ELSE crashed = None

(* Loading is refused only on account of an insertion that was interrupted, or of *)
(* a marker whose writing was, or whose removal failed or was lost with a crash:  *)
(* a handled failure never blocks the module (vfs/boot_guard.rs, sys/lkm.rs: "A   *)
(* handled return clears it in both directions").                                 *)
RefusalIsFounded == pc = "refused" => slack \/ (crashed # None /\ file = crashed)

(* An object goes into the kernel only while its own marker is what a crash would *)
(* leave, and never beside a NoMount that was there when the loader last looked:  *)
(* no program of an attempt outlives it, however long it takes and whatever       *)
(* becomes of its output (sys/process.rs: "no child process outlives the early    *)
(* return", vfs/guard.rs: "Loading a second inode-hooking provider while the      *)
(* guard is uncertain is unsafe").                                                *)
Covered ==
  loaded' \notin {None, loaded} =>
    /\ nomount # "there"
    /\ file \in Marker /\ disks = {file}
    /\ file.version = pkg.version /\ file.object = Ident[loaded']
InsertionIsCovered == [][Covered]_vars
===============================================================================
