--------------------------- MODULE PartitionLayout ---------------------------
(* The partition layout of src/src/partitions.rs: module trees name files by    *)
(* logical partition, and the layout says where in the visible mount namespace  *)
(* each partition really is.  A path is the sequence of its components; the     *)
(* target /vendor/etc is <<"vendor", "etc">> and the root is << >>.             *)
(*                                                                              *)
(* A snapshot is what capture_layout_snapshot probed:                           *)
(*   mounts  the mount table, records [id, point, fsroot, dev]                  *)
(*   paths   by probed path, [canonical, dev, ino, visible, isDir]: where it    *)
(*           leads, and the id of the mount that is visible there               *)
(*   failed  the paths whose probe failed for another reason than absence       *)
(* A layout has roots and identities by partition, errors (a code by            *)
(* partition), and the visible mount points.                                    *)
EXTENDS Naturals, Sequences, FiniteSets, SequencesExt

System == "system"

(* What is mounted below a directory, relative to it: two views of one          *)
(* partition are the same only if these agree.  A mount that something else     *)
(* covers is left out.                                                          *)
ChildMounts(snap, probe) ==
  {m \in snap.mounts : IsStrictPrefix(probe.canonical, m.point)}

IdentityFails(snap, probe) ==
  \E m \in ChildMounts(snap, probe) : m.point \notin DOMAIN snap.paths

Subtree(snap, probe) ==
  {[at     |-> SubSeq(m.point, Len(probe.canonical) + 1, Len(m.point)),
    dev    |-> snap.paths[m.point].dev,
    ino    |-> snap.paths[m.point].ino,
    fs     |-> m.dev,
    fsroot |-> m.fsroot] :
     m \in {c \in ChildMounts(snap, probe) : snap.paths[c.point].visible = c.id}}

Identity(snap, probe) ==
  [canonical |-> probe.canonical, dev |-> probe.dev, ino |-> probe.ino,
   subtree |-> Subtree(snap, probe)]

(* The mounts that may be what a probe sees: none, or the visible one.          *)
VisibleMounts(snap, probe) ==
  {m \in snap.mounts : m.id = probe.visible /\ IsPrefix(m.point, probe.canonical)}
VisibleMount(snap, probe) == CHOOSE m \in VisibleMounts(snap, probe) : TRUE

WithinFs(snap, probe) ==
  LET m == VisibleMount(snap, probe)
  IN  m.fsroot \o SubSeq(probe.canonical, Len(m.point) + 1, Len(probe.canonical))

(* Both names of a partition exist and lead to different directories: they are  *)
(* one partition only if they show the same part of one filesystem.             *)
SameView(snap, a, b) ==
  /\ VisibleMount(snap, a).dev = VisibleMount(snap, b).dev
  /\ WithinFs(snap, a) = WithinFs(snap, b)
  /\ ~IdentityFails(snap, a) /\ ~IdentityFails(snap, b)
  /\ Subtree(snap, a) = Subtree(snap, b)

(* The directory that is the root of a managed partition, /name or              *)
(* /system/name, as a set of at most one probe: empty is every refusal.         *)
ChooseRoot(snap, name, system) ==
  LET top    == <<name>>
      nested == <<System, name>>
      known  == {top, nested} \cap DOMAIN snap.paths
      sound(p) == /\ snap.paths[p].isDir
                  /\ snap.paths[p].canonical \in {top, Append(system, name)}
                  /\ VisibleMounts(snap, snap.paths[p]) # {}
  IN  IF {top, nested} \cap snap.failed # {} \/ \E p \in known : ~sound(p)
      THEN {}
      ELSE IF known = {top, nested}
      THEN LET a == snap.paths[top]
               b == snap.paths[nested]
           IN  IF <<a.dev, a.ino>> # <<b.dev, b.ino>> THEN {}
               ELSE IF a.canonical = b.canonical THEN {a}
               ELSE IF ~SameView(snap, a, b) THEN {}
               ELSE {IF VisibleMount(snap, a).point = a.canonical THEN a ELSE b}
      ELSE IF known = {nested} THEN {snap.paths[nested]}
      ELSE {a \in {snap.paths[p] : p \in known} :
              VisibleMount(snap, a).point = a.canonical}

Missing(snap, name) ==
  {<<name>>, <<System, name>>} \cap (DOMAIN snap.paths \cup snap.failed) = {}

(* The layout: /system, the managed partitions, and the extra ones a            *)
(* configuration names.                                                         *)
DiscoverLayout(snap, managed, extras) ==
  LET sysAt  == <<System>> \in DOMAIN snap.paths
      system == IF sysAt THEN snap.paths[<<System>>].canonical ELSE <<System>>
      rooted == {n \in managed :
                   \E p \in ChooseRoot(snap, n, system) : ~IdentityFails(snap, p)}
      extra  == {n \in extras : <<n>> \in DOMAIN snap.paths}
      goodX  == {n \in extra : ~IdentityFails(snap, snap.paths[<<n>>])}
      sysOk  == sysAt /\ snap.paths[<<System>>].isDir
                      /\ ~IdentityFails(snap, snap.paths[<<System>>])
      probe(n) == IF n \in goodX THEN snap.paths[<<n>>]
                  ELSE CHOOSE p \in ChooseRoot(snap, n, system) : TRUE
      named  == rooted \cup goodX
  IN  [roots |-> [n \in named \cup {System} |->
                    IF n = System THEN system ELSE probe(n).canonical],
       identities |-> [n \in named \cup (IF sysOk THEN {System} ELSE {}) |->
                         Identity(snap, IF n = System THEN snap.paths[<<n>>]
                                        ELSE probe(n))],
       errors |-> [n \in (managed \ rooted) \cup (extra \ goodX)
                         \cup (IF sysOk THEN {} ELSE {System}) |->
                     IF n \in managed /\ Missing(snap, n) THEN "partition_missing"
                     ELSE "layout_unavailable"],
       mount_points |-> {m.point : m \in
                           {c \in snap.mounts : /\ c.point \in DOMAIN snap.paths
                                                /\ snap.paths[c.point].visible = c.id}}]

(* The extra partitions of a configuration that are used: an existing directory *)
(* below the root that has no namesake below /system.  `there` gives what each  *)
(* existing path leads to, `failing` the paths that cannot be probed.           *)
ExtraPartitions(there, failing, extra) ==
  {n \in extra \ {System, "apex"} :
     /\ <<n>> \in DOMAIN there /\ there[<<n>>].isDir
     /\ <<System, n>> \notin DOMAIN there \cup failing}

(* The probes a boot makes: both names of each partition, then each mount at or *)
(* below a directory found, where absence is a failure too.                     *)
CaptureSnapshot(mounts, there, failing, names) ==
  LET asked == {<< >>, <<System>>} \cup {<<n>> : n \in names}
                                   \cup {<<System, n>> : n \in names}
      roots == {there[p].canonical : p \in asked \cap DOMAIN there} \ {<< >>}
      below == {m.point : m \in {c \in mounts : \E r \in roots : IsPrefix(r, c.point)}}
  IN  [mounts |-> mounts,
       paths  |-> [p \in (asked \cup below) \cap DOMAIN there |-> there[p]],
       failed |-> (asked \cap failing) \cup (below \ DOMAIN there)]

------------------------------------------------------------------------------
(* system/vendor/etc is a path of the partition vendor when there is one.       *)
LogicalPartition(layout, rel) ==
  IF /\ rel[1] = System /\ Len(rel) > 1 /\ rel[2] # System
     /\ rel[2] \in DOMAIN layout.roots \cup DOMAIN layout.errors
  THEN rel[2] ELSE rel[1]

(* How many components of a module path name its partition.                     *)
RootLen(layout, rel) ==
  IF rel[1] = System /\ LogicalPartition(layout, rel) # System THEN 2 ELSE 1

Mapped(layout, rel) == LogicalPartition(layout, rel) \notin DOMAIN layout.errors

(* The target of a module path, of a partition without an error.                *)
MapTarget(layout, rel) ==
  LET p    == LogicalPartition(layout, rel)
      root == IF p \in DOMAIN layout.roots THEN layout.roots[p] ELSE <<p>>
  IN  root \o SubSeq(rel, RootLen(layout, rel) + 1, Len(rel))

(* The top-level directories of a module that are scanned besides system.       *)
ScanNames(layout) == (DOMAIN layout.roots \cup DOMAIN layout.errors) \ {System}

(* What a destructive contribution may not cover: every visible mount, and both *)
(* names of a partition whose layout is not understood.                         *)
ProtectedTargets(layout) ==
  layout.mount_points \cup
  UNION {{<<n>>, <<System, n>>, Append(layout.roots[System], n)} :
           n \in {e \in DOMAIN layout.errors :
                    layout.errors[e] # "partition_missing"}}
==============================================================================
