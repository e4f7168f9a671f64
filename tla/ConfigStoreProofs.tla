------------------------- MODULE ConfigStoreProofs -------------------------
(***************************************************************************)
(* Every file kept by ConfigStore is an atomic file, and what a process    *)
(* saves or acts on was there during its call, whatever the number of      *)
(* processes, the patches, the edits and the power losses.                 *)
(***************************************************************************)
EXTENDS ConfigStore, TLAPS, SequenceTheorems

Whole == [entry : Entries, flushed : {TRUE}]
ListStates == [bundled : Lists, persistent : Lists]
AnyPatch == Patches \cup {NoPatch}

Pcs == {"ended", "clean", "read", "stat", "bundled", "persistent", "loaded",
        "check", "create", "write", "flush", "rename", "dirsync", "discard"}
Ops == {"none", "boot", "hot", "show", "save", "gen"}

Procs ==
    [pc : Pcs, op : Ops, patch : AnyPatch, config : Configs,
     black : SUBSET Modules, seq : Nat, from : Nat, listsFrom : Nat, at : Nat]

(* A process that has renamed its file knows which version that was.       *)
Renamed(state) == state.pc = "dirsync" => state.at <= Len(versions)

VersionsOK == versions \in Seq(Whole) /\ versions # << >>
ListsOK == lists \in Seq(ListStates) /\ lists # << >>
OrderOK ==
    /\ acked \in Nat \ {0}
    /\ durable \in Nat
    /\ acked <= durable
    /\ durable <= Len(versions)
ProcOK ==
    /\ proc \in [Pids -> Procs]
    /\ \A p \in Pids : Renamed(proc[p])

IInv == VersionsOK /\ ListsOK /\ OrderOK /\ ProcOK
----------------------------------------------------------------------------
(* The defaults are a configuration.                                       *)
LEMMA DefaultIsConfig == Default \in Configs
  <1> DEFINE Rules == [mode : Modes \cup {Unset}, paths : PathRules]
             rules == [m \in Modules |-> NoRule]
  <1>1. NoRule \in Rules
    BY DefaultAssumption, SMT DEF NoRule
  <1>2. rules \in [Modules -> Rules]
    BY <1>1
  <1> HIDE DEF Rules, rules
  <1>3. [mode |-> DefaultMode, settings |-> DefaultSettings, rules |-> rules]
          \in [mode : Modes, settings : Settings, rules : [Modules -> Rules]]
    BY <1>2, DefaultAssumption, SMT
  <1> QED
    BY <1>3 DEF Default, Configs, Rules, rules

(* The steps a loader can go on to.                                        *)
LEMMA StepNames ==
  /\ "bundled" \in Pcs /\ "persistent" \in Pcs /\ "loaded" \in Pcs
  /\ "check" \in Pcs /\ "clean" \in Pcs /\ "read" \in Pcs /\ "dirsync" \in Pcs
  BY DEF Pcs

(* A process that has ended has a state.                                   *)
LEMMA EndedIsProc == Ended \in Procs
  <1>1. NoPatch \in AnyPatch /\ {} \in SUBSET Modules /\ 0 \in Nat
    BY DEF AnyPatch
  <1>2. "ended" \in Pcs /\ "none" \in Ops
    BY DEF Pcs, Ops
  <1> QED
    BY <1>1, <1>2, DefaultIsConfig, Zenon DEF Ended, Procs

(* Merging a patch that is not refused gives a configuration.              *)
LEMMA PatchGivesConfig ==
  ASSUME NEW config \in Configs, NEW patch \in AnyPatch, patch.mode # Ignore
  PROVE  ApplyPatch(config, patch) \in Configs
  <1> DEFINE Pick(new, old) == IF new = Keep THEN old ELSE new
             base(m) == IF patch.replace THEN NoRule ELSE config.rules[m]
             rule(m) ==
               IF m \in DOMAIN patch.rules
               THEN [mode |-> Pick(patch.rules[m].mode, base(m).mode),
                     paths |-> Pick(patch.rules[m].paths, base(m).paths)]
               ELSE base(m)
             Rules == [mode : Modes \cup {Unset}, paths : PathRules]
  <1>1. /\ config.mode \in Modes /\ config.settings \in Settings
        /\ \A m \in Modules : config.rules[m] \in Rules
    BY SMT DEF Configs
  <1>2. /\ patch.mode \in Modes \cup {Keep, Ignore}
        /\ patch.settings \in Settings \cup {Keep}
        /\ \A m \in DOMAIN patch.rules :
             /\ patch.rules[m].mode \in Modes \cup {Unset, Keep}
             /\ patch.rules[m].paths \in PathRules \cup {Keep}
    <2>1. CASE patch \in Patches
      BY <2>1, PatchesAssumption, SMT DEF ModuleRulePatches
    <2>2. CASE patch = NoPatch
      <3>1. /\ patch.mode = Keep /\ patch.settings = Keep
            /\ patch.rules = [m \in {} |-> NoRule]
        BY <2>2, SMT DEF NoPatch
      <3>2. DOMAIN patch.rules = {}
        BY <3>1
      <3> QED
        BY <3>1, <3>2
    <2> QED
      BY <2>1, <2>2 DEF AnyPatch
  <1>3. ASSUME NEW m \in Modules PROVE rule(m) \in Rules
    <2>1. base(m) \in Rules
      BY <1>1, DefaultAssumption, SMT DEF NoRule
    <2> HIDE DEF base
    <2>2. base(m).mode \in Modes \cup {Unset} /\ base(m).paths \in PathRules
      BY <2>1, SMT
    <2> QED
      BY <1>2, <2>1, <2>2, SMT
  <1>4. Pick(patch.mode, config.mode) \in Modes
    BY <1>1, <1>2, SMT
  <1>5. Pick(patch.settings, config.settings) \in Settings
    BY <1>1, <1>2, SMT
  <1> HIDE DEF rule, Pick, Rules
  <1>6. [mode |-> Pick(patch.mode, config.mode),
         settings |-> Pick(patch.settings, config.settings),
         rules |-> [m \in Modules |-> rule(m)]]
          \in [mode : Modes, settings : Settings, rules : [Modules -> Rules]]
    BY <1>3, <1>4, <1>5, SMT
  <1> QED
    BY <1>6 DEF ApplyPatch, Configs, rule, Pick, Rules, base

(* The entry that is read now is one that was put there.                   *)
LEMMA NowIsEntry ==
  ASSUME VersionsOK
  PROVE  /\ Len(versions) \in Nat \ {0}
         /\ Now.entry \in Entries
         /\ Now.entry.content \in Configs \cup {Missing, Garbled}
  <1>1. Len(versions) \in Nat \ {0} /\ Now = versions[Len(versions)]
    BY SMT DEF VersionsOK, Now, Last
  <1>2. Now \in Whole
    BY <1>1, SMT DEF VersionsOK
  <1>3. Now.entry \in Entries
    BY <1>2, SMT DEF Whole
  <1> QED
    BY <1>1, <1>3, SMT DEF Entries, Entry

(* A list that was parsed names modules.                                   *)
LEMMA ParsedIsModules ==
  ASSUME ListsOK
  PROVE  /\ NowLists.bundled # Garbled => NowLists.bundled \subseteq Modules
         /\ NowLists.persistent # Garbled => NowLists.persistent \subseteq Modules
  <1>1. NowLists \in ListStates
    BY SMT DEF ListsOK, NowLists, Last
  <1>2. NowLists.bundled \in Lists /\ NowLists.persistent \in Lists
    BY <1>1, SMT DEF ListStates
  <1> QED
    BY <1>2, ListsAssumption

(* A step of one process that leaves the file and the lists alone.         *)
LEMMA OneProcess ==
  ASSUME IInv, UNCHANGED <<store, lists>>,
         NEW p \in Pids, NEW state \in Procs, Renamed(state), Set(p, state)
  PROVE  IInv'
  <1>1. VersionsOK' /\ ListsOK' /\ OrderOK'
    BY DEF IInv, VersionsOK, ListsOK, OrderOK, store
  <1>2. proc' \in [Pids -> Procs]
    BY DEF IInv, ProcOK, Set
  <1>3. ASSUME NEW q \in Pids PROVE Renamed(proc[q])'
    <2>1. versions' = versions
      BY DEF store
    <2>2. proc'[q] = IF q = p THEN state ELSE proc[q]
      BY DEF IInv, ProcOK, Set
    <2> QED
      BY <2>1, <2>2 DEF IInv, ProcOK, Renamed
  <1> QED
    BY <1>1, <1>2, <1>3 DEF IInv, ProcOK

(* One field of the state of a process can be set at a time.               *)
LEMMA SetOne ==
  ASSUME NEW s \in Procs
  PROVE  /\ \A x \in Pcs : [s EXCEPT !.pc = x] \in Procs
         /\ \A x \in Ops : [s EXCEPT !.op = x] \in Procs
         /\ \A x \in AnyPatch : [s EXCEPT !.patch = x] \in Procs
         /\ \A x \in Configs : [s EXCEPT !.config = x] \in Procs
         /\ \A x \in SUBSET Modules : [s EXCEPT !.black = x] \in Procs
         /\ \A x \in Nat : [s EXCEPT !.seq = x] \in Procs
         /\ \A x \in Nat : [s EXCEPT !.from = x] \in Procs
         /\ \A x \in Nat : [s EXCEPT !.listsFrom = x] \in Procs
         /\ \A x \in Nat : [s EXCEPT !.at = x] \in Procs
  <1>1. \A x \in Pcs : [s EXCEPT !.pc = x] \in Procs
    BY SMT DEF Procs
  <1>2. \A x \in Ops : [s EXCEPT !.op = x] \in Procs
    BY SMT DEF Procs
  <1>3. \A x \in AnyPatch : [s EXCEPT !.patch = x] \in Procs
    BY SMT DEF Procs
  <1>4. \A x \in Configs : [s EXCEPT !.config = x] \in Procs
    BY SMT DEF Procs
  <1>5. \A x \in SUBSET Modules : [s EXCEPT !.black = x] \in Procs
    BY SMT DEF Procs
  <1>6. \A x \in Nat : [s EXCEPT !.seq = x] \in Procs
    BY SMT DEF Procs
  <1>7. \A x \in Nat : [s EXCEPT !.from = x] \in Procs
    BY SMT DEF Procs
  <1>8. \A x \in Nat : [s EXCEPT !.listsFrom = x] \in Procs
    BY SMT DEF Procs
  <1>9. \A x \in Nat : [s EXCEPT !.at = x] \in Procs
    BY SMT DEF Procs
  <1> QED
    BY <1>1, <1>2, <1>3, <1>4, <1>5, <1>6, <1>7, <1>8, <1>9

(* It goes on to another step, or ends.                                    *)
LEMMA GoingOn ==
  ASSUME IInv, UNCHANGED <<store, lists>>, NEW p \in Pids,
         \/ \E pc \in Pcs \ {"dirsync"} : Goto(p, pc)
         \/ End(p)
  PROVE  IInv'
  <1>1. CASE End(p)
    <2>1. Renamed(Ended)
      BY DEF Renamed, Ended
    <2> QED
      BY <1>1, <2>1, EndedIsProc, OneProcess DEF End
  <1>2. ASSUME NEW pc \in Pcs \ {"dirsync"}, Goto(p, pc) PROVE IInv'
    <2> DEFINE state == [proc[p] EXCEPT !.pc = pc]
    <2>1. proc[p] \in Procs
      BY DEF IInv, ProcOK
    <2>2. state \in Procs /\ state.pc = pc
      BY <2>1, SMT DEF Procs
    <2>3. Renamed(state)
      BY <2>2 DEF Renamed
    <2>4. Set(p, state)
      BY <1>2 DEF Goto
    <2> HIDE DEF state
    <2> QED
      BY <2>2, <2>3, <2>4, OneProcess
  <1> QED
    BY <1>1, <1>2

(* It goes on with a configuration it has loaded.                          *)
LEMMA GoingOnWith ==
  ASSUME IInv, UNCHANGED <<store, lists>>, NEW p \in Pids,
         NEW config \in Configs, With(p, config, "bundled")
  PROVE  IInv'
  <1> DEFINE state == [proc[p] EXCEPT !.config = config, !.pc = "bundled"]
  <1>1. proc[p] \in Procs
    BY DEF IInv, ProcOK
  <1>2. state \in Procs /\ state.pc = "bundled"
    <2>1. state = [[proc[p] EXCEPT !.config = config] EXCEPT !.pc = "bundled"]
      OBVIOUS
    <2>2. [proc[p] EXCEPT !.config = config] \in Procs
      BY <1>1, SetOne
    <2> HIDE DEF state
    <2>3. state \in Procs
      BY <2>1, <2>2, SetOne, StepNames
    <2> QED
      BY <1>1, <2>3, SMT DEF state, Procs
  <1>3. Renamed(state)
    BY <1>2 DEF Renamed
  <1>4. Set(p, state)
    BY DEF With
  <1> HIDE DEF state
  <1> QED
    BY <1>2, <1>3, <1>4, OneProcess

(* A command starts with no configuration loaded yet.                      *)
LEMMA BeginKeeps ==
  ASSUME IInv, NEW p \in Pids, Begin(p)
  PROVE  IInv'
  <1>0. PICK op \in {"boot", "hot", "show", "save", "gen"} :
          \E patch \in (IF op = "save" THEN Patches ELSE {NoPatch}) :
          Set(p, [Ended EXCEPT !.op = op, !.patch = patch,
                               !.pc = FirstStep(op),
                               !.from = Len(versions),
                               !.listsFrom = Len(lists)])
    BY DEF Begin
  <1>1. PICK patch \in (IF op = "save" THEN Patches ELSE {NoPatch}) :
          Set(p, [Ended EXCEPT !.op = op, !.patch = patch,
                               !.pc = FirstStep(op),
                               !.from = Len(versions),
                               !.listsFrom = Len(lists)])
    BY <1>0
  <1> DEFINE state == [Ended EXCEPT !.op = op, !.patch = patch,
                               !.pc = FirstStep(op),
                               !.from = Len(versions),
                               !.listsFrom = Len(lists)]
  <1>2. /\ op \in Ops /\ patch \in AnyPatch
        /\ FirstStep(op) \in {"clean", "check", "read"}
        /\ Len(versions) \in Nat /\ Len(lists) \in Nat
    <2>1. op \in Ops /\ FirstStep(op) \in {"clean", "check", "read"}
      BY <1>1 DEF Ops, FirstStep
    <2>2. patch \in AnyPatch
      BY <1>1 DEF AnyPatch
    <2>3. Len(versions) \in Nat /\ Len(lists) \in Nat
      BY SMT DEF IInv, VersionsOK, ListsOK
    <2> QED
      BY <2>1, <2>2, <2>3
  <1>6. FirstStep(op) \in Pcs
    BY <1>2, StepNames
  <1>3. state \in Procs /\ state.pc = FirstStep(op)
    <2> DEFINE one == [Ended EXCEPT !.op = op]
               two == [one EXCEPT !.patch = patch]
               three == [two EXCEPT !.pc = FirstStep(op)]
               four == [three EXCEPT !.from = Len(versions)]
    <2>1. state = [four EXCEPT !.listsFrom = Len(lists)]
      BY Zenon
    <2>2. one \in Procs
      BY <1>2, EndedIsProc, SetOne
    <2> HIDE DEF one
    <2>3. two \in Procs
      BY <1>2, <2>2, SetOne
    <2> HIDE DEF two
    <2>4. three \in Procs /\ three.pc = FirstStep(op)
      BY <1>6, <2>3, SetOne, SMT DEF Procs
    <2> HIDE DEF three
    <2>5. four \in Procs /\ four.pc = FirstStep(op)
      BY <1>2, <2>4, SetOne, SMT DEF Procs
    <2> HIDE DEF four, state
    <2> QED
      BY <1>2, <2>1, <2>5, SetOne, SMT DEF Procs
  <1>4. Renamed(state)
    BY <1>2, <1>3 DEF Renamed
  <1>5. UNCHANGED <<store, lists>>
    BY DEF Begin
  <1> HIDE DEF state
  <1> QED
    BY <1>1, <1>3, <1>4, <1>5, OneProcess DEF state

(* A loader takes a configuration only from an entry that parsed or from   *)
(* the defaults.                                                           *)
LEMMA LoadKeeps ==
  ASSUME IInv, NEW p \in Pids,
         \/ CleanTemps(p) \/ ReadMain(p) \/ StatMissing(p) \/ ReadBundled(p)
         \/ ReadPersistent(p) \/ Leave(p)
  PROVE  IInv'
  <1>1. UNCHANGED <<store, lists>>
    BY DEF CleanTemps, ReadMain, StatMissing, ReadBundled, ReadPersistent, Leave
  <1>2. proc[p] \in Procs
    BY DEF IInv, ProcOK
  <1>3. CASE CleanTemps(p)
    <2>1. Goto(p, "read") /\ "read" \in Pcs \ {"dirsync"}
      BY <1>3 DEF CleanTemps, Pcs
    <2> QED
      BY <1>1, <2>1, GoingOn
  <1>4. CASE ReadMain(p)
    <2>1. CASE End(p)
      BY <1>1, <2>1, GoingOn
    <2>2. CASE Goto(p, "stat")
      BY <1>1, <2>2, GoingOn DEF Pcs
    <2>3. CASE With(p, Default, "bundled")
      BY <1>1, <2>3, DefaultIsConfig, GoingOnWith
    <2>4. CASE /\ IsConfig(Now.entry.content)
               /\ With(p, Now.entry.content, "bundled")
      <3>1. Now.entry.content \in Configs
        BY <2>4, NowIsEntry DEF IsConfig, IInv
      <3> QED
        BY <1>1, <2>4, <3>1, GoingOnWith
    <2> QED
      BY <1>4, <2>1, <2>2, <2>3, <2>4 DEF ReadMain
  <1>5. CASE StatMissing(p)
    BY <1>1, <1>5, DefaultIsConfig, GoingOn, GoingOnWith DEF StatMissing
  <1>6. CASE ReadBundled(p)
    <2>1. CASE End(p)
      BY <1>1, <2>1, GoingOn
    <2>2. CASE ~End(p)
      <3> DEFINE state == [proc[p] EXCEPT !.black = NowLists.bundled,
                                          !.pc = "persistent"]
      <3>1. NowLists.bundled \subseteq Modules /\ Set(p, state)
        BY <1>6, <2>2, ParsedIsModules DEF ReadBundled, IInv
      <3>2. state \in Procs /\ state.pc = "persistent"
        <4> DEFINE one == [proc[p] EXCEPT !.black = NowLists.bundled]
        <4>1. state = [one EXCEPT !.pc = "persistent"]
          OBVIOUS
        <4>2. one \in Procs
          BY <1>2, <3>1, SetOne
        <4> HIDE DEF one, state
        <4> QED
          BY <4>1, <4>2, SetOne, StepNames, SMT DEF Procs
      <3>3. Renamed(state)
        BY <3>2 DEF Renamed
      <3> HIDE DEF state
      <3> QED
        BY <1>1, <3>1, <3>2, <3>3, OneProcess
    <2> QED
      BY <2>1, <2>2
  <1>7. CASE ReadPersistent(p)
    <2>1. CASE End(p)
      BY <1>1, <2>1, GoingOn
    <2>2. CASE ~End(p)
      <3> DEFINE black == proc[p].black \cup NowLists.persistent
                 config == ApplyPatch(proc[p].config, proc[p].patch)
                 kept == [proc[p] EXCEPT !.black = black, !.pc = "loaded"]
                 merged == [proc[p] EXCEPT !.black = black, !.pc = "check",
                                           !.config = config]
      <3>1. NowLists.persistent # Garbled /\ Loaded(p, black)
        BY <1>7, <2>2 DEF ReadPersistent
      <3>2. black \in SUBSET Modules
        BY <1>2, <3>1, ParsedIsModules DEF IInv, Procs
      <3>3. proc[p].config \in Configs /\ proc[p].patch \in AnyPatch
        BY <1>2 DEF Procs
      <3>4. CASE proc[p].op # "save"
        <4>1. Set(p, kept)
          BY <3>1, <3>4 DEF Loaded
        <4> HIDE DEF black
        <4>2. kept \in Procs /\ kept.pc = "loaded"
          <5> DEFINE one == [proc[p] EXCEPT !.black = black]
          <5>1. kept = [one EXCEPT !.pc = "loaded"]
            OBVIOUS
          <5>2. one \in Procs
            BY <1>2, <3>2, SetOne
          <5> HIDE DEF one, kept
          <5> QED
            BY <5>1, <5>2, SetOne, StepNames, SMT DEF Procs
        <4>3. Renamed(kept)
          BY <4>2 DEF Renamed
        <4> HIDE DEF kept
        <4> QED
          BY <1>1, <4>1, <4>2, <4>3, OneProcess
      <3>5. CASE proc[p].op = "save"
        <4>1. Set(p, merged) /\ proc[p].patch.mode # Ignore
          BY <1>2, <3>1, <3>5 DEF Loaded, Procs
        <4>2. config \in Configs
          BY <3>3, <4>1, PatchGivesConfig
        <4> HIDE DEF black, config
        <4>3. merged \in Procs /\ merged.pc = "check"
          <5> DEFINE one == [proc[p] EXCEPT !.black = black]
                     two == [one EXCEPT !.pc = "check"]
          <5>1. merged = [two EXCEPT !.config = config]
            BY Zenon
          <5>2. one \in Procs
            BY <1>2, <3>2, SetOne
          <5> HIDE DEF one
          <5>3. two \in Procs /\ two.pc = "check"
            BY <5>2, SetOne, StepNames, SMT DEF Procs
          <5> HIDE DEF two, merged
          <5> QED
            BY <4>2, <5>1, <5>3, SetOne, SMT DEF Procs
        <4>4. Renamed(merged)
          BY <4>3 DEF Renamed
        <4> HIDE DEF merged
        <4> QED
          BY <1>1, <4>1, <4>3, <4>4, OneProcess
      <3> QED
        BY <3>4, <3>5
    <2> QED
      BY <2>1, <2>2
  <1>8. CASE Leave(p)
    BY <1>1, <1>8, GoingOn DEF Leave
  <1> QED
    BY <1>3, <1>4, <1>5, <1>6, <1>7, <1>8

(* The steps of a save that touch temporary files only.                    *)
LEMMA SaveKeeps ==
  ASSUME IInv, NEW p \in Pids,
         \/ CheckTarget(p) \/ Create(p) \/ Write(p) \/ Flush(p) \/ Discard(p)
  PROVE  IInv'
  <1>1. UNCHANGED <<store, lists>>
    BY DEF CheckTarget, Create, Write, Flush, Discard
  <1>2. proc[p] \in Procs
    BY DEF IInv, ProcOK
  <1>3. {"create", "write", "flush", "rename", "discard"} \subseteq Pcs \ {"dirsync"}
    BY DEF Pcs
  <1>4. CASE CheckTarget(p)
    BY <1>1, <1>3, <1>4, GoingOn DEF CheckTarget
  <1>5. CASE Create(p)
    <2>1. CASE End(p) \/ Goto(p, "write")
      BY <1>1, <1>3, <2>1, GoingOn
    <2>2. CASE Set(p, [proc[p] EXCEPT !.seq = proc[p].seq + 1])
      <3> DEFINE state == [proc[p] EXCEPT !.seq = proc[p].seq + 1]
      <3>1. proc[p].seq + 1 \in Nat
        BY <1>2, SMT DEF Procs
      <3>2. state \in Procs
        BY <1>2, <3>1, SetOne
      <3>3. state.pc = "create"
        BY <1>2, <1>5, SMT DEF Create, At, Procs
      <3>4. Renamed(state)
        BY <3>3 DEF Renamed
      <3> HIDE DEF state
      <3> QED
        BY <1>1, <2>2, <3>2, <3>4, OneProcess DEF state
    <2> QED
      BY <1>5, <2>1, <2>2 DEF Create
  <1>6. CASE Write(p)
    BY <1>1, <1>3, <1>6, GoingOn DEF Write
  <1>7. CASE Flush(p)
    BY <1>1, <1>3, <1>7, GoingOn DEF Flush
  <1>8. CASE Discard(p)
    BY <1>1, <1>8, GoingOn DEF Discard
  <1> QED
    BY <1>4, <1>5, <1>6, <1>7, <1>8

(* A version that was put there has an entry, and a saved configuration is *)
(* one.                                                                    *)
LEMMA WholeHasEntry == \A w \in Whole : w.entry \in Entries
  <1>1. ASSUME NEW w \in Whole PROVE w.entry \in Entries
    BY SMT DEF Whole
  <1> QED
    BY <1>1

(* What a save puts there is an entry.                                     *)
LEMMA SavedIsEntry ==
  ASSUME NEW config \in Configs
  PROVE  Entry(config, FALSE) \in Entries
  <1>1. config \in Configs \cup {Missing, Garbled} /\ FALSE \in BOOLEAN
    OBVIOUS
  <1> QED
    BY <1>1, SMT DEF Entries, Entry

(* What was visible is as long as what was put there.                      *)
LEMMA VisibleLength ==
  ASSUME IInv
  PROVE  Visible \in Seq(Entries) /\ Len(Visible) = Len(versions)
  <1>1. Len(versions) \in Nat /\ DOMAIN versions = 1 .. Len(versions)
    BY SMT DEF IInv, VersionsOK
  <1>2. \A i \in 1 .. Len(versions) : versions[i] \in Whole
    BY SMT DEF IInv, VersionsOK
  <1>3. \A i \in 1 .. Len(versions) : versions[i].entry \in Entries
    BY <1>2, WholeHasEntry
  <1> QED
    BY <1>1, <1>3, SMT DEF Visible

(* A whole entry is put into the file.                                     *)
LEMMA Installs ==
  ASSUME IInv, NEW e \in Entries, UNCHANGED <<durable, acked>>,
         versions' = Append(versions, [entry |-> e, flushed |-> TRUE])
  PROVE  /\ VersionsOK' /\ OrderOK'
         /\ Len(versions') = Len(versions) + 1
         /\ AtomicFile!Next
  <1> DEFINE new == [entry |-> e, flushed |-> TRUE]
  <1>1. new \in Whole /\ new.entry = e
    BY SMT DEF Whole
  <1>2. versions' = Append(versions, new)
    OBVIOUS
  <1> HIDE DEF new
  <1>3. VersionsOK'
    BY <1>1, <1>2, SMT DEF IInv, VersionsOK
  <1>4. Len(versions') = Len(versions) + 1 /\ Len(versions) \in Nat
    BY <1>1, <1>2, SMT DEF IInv, VersionsOK
  <1>5. OrderOK'
    BY <1>4, SMT DEF IInv, OrderOK
  <1>6. Visible' = Append(Visible, e)
    <2>1. \A i \in 1 .. Len(versions) + 1 :
            versions'[i] = IF i = Len(versions) + 1 THEN new ELSE versions[i]
      BY <1>1, <1>2, SMT DEF IInv, VersionsOK
    <2>2. /\ DOMAIN versions = 1 .. Len(versions)
          /\ DOMAIN versions' = 1 .. Len(versions) + 1
      BY <1>3, <1>4, SMT DEF IInv, VersionsOK
    <2>3. Visible \in Seq(Entries) /\ Len(Visible) = Len(versions)
      BY VisibleLength
    <2>4. Append(Visible, e) = [i \in 1 .. Len(versions) + 1 |->
             IF i = Len(versions) + 1 THEN e ELSE versions[i].entry]
      BY <1>4, <2>2, <2>3, SMT DEF Visible
    <2>5. Visible' = [i \in 1 .. Len(versions) + 1 |-> versions'[i].entry]
      BY <2>2 DEF Visible
    <2> QED
      BY <1>1, <2>1, <2>4, <2>5, Zenon
  <1> QED
    BY <1>3, <1>4, <1>5, <1>6 DEF AtomicFile!Next, AtomicFile!Install

(* A step that leaves the file alone is a stuttering step of the atomic     *)
(* file.                                                                   *)
LEMMA QuietStep ==
  ASSUME UNCHANGED store PROVE UNCHANGED AtomicFile!vars
  BY DEF store, Visible, AtomicFile!vars

(* A rename installs the whole configuration of the save.                  *)
LEMMA RenameStep ==
  ASSUME IInv, NEW p \in Pids, Rename(p)
  PROVE  IInv' /\ (AtomicFile!Next \/ UNCHANGED AtomicFile!vars)
  <1>1. proc[p] \in Procs /\ Len(versions) \in Nat
    BY SMT DEF IInv, ProcOK, VersionsOK
  <1>2. CASE Goto(p, "discard") /\ UNCHANGED versions
    <2>1. UNCHANGED <<store, lists>> /\ "discard" \in Pcs \ {"dirsync"}
      BY <1>2 DEF Rename, store, Pcs
    <2> QED
      BY <1>2, <2>1, GoingOn, QuietStep
  <1>3. CASE ~(Goto(p, "discard") /\ UNCHANGED versions)
    <2> DEFINE state == [proc[p] EXCEPT !.at = Len(versions) + 1,
                                        !.pc = "dirsync"]
               e == Entry(proc[p].config, FALSE)
    <2>1. /\ versions' = Append(versions, [entry |-> e, flushed |-> TRUE])
          /\ Set(p, state)
          /\ UNCHANGED <<durable, acked, lists>>
      BY <1>3 DEF Rename
    <2>2. e \in Entries
      <3>1. proc[p].config \in Configs
        BY <1>1 DEF Procs
      <3> QED
        BY <3>1, SavedIsEntry
    <2> HIDE DEF e
    <2>3. VersionsOK' /\ OrderOK' /\ Len(versions') = Len(versions) + 1
          /\ AtomicFile!Next
      BY <2>1, <2>2, Installs
    <2>4. state \in Procs /\ state.at = Len(versions) + 1
      <3> DEFINE one == [proc[p] EXCEPT !.at = Len(versions) + 1]
      <3>1. state = [one EXCEPT !.pc = "dirsync"]
        OBVIOUS
      <3>2. one \in Procs /\ one.at = Len(versions) + 1
        BY <1>1, SetOne, SMT DEF Procs
      <3> HIDE DEF one, state
      <3> QED
        BY <3>1, <3>2, SetOne, StepNames, SMT DEF Procs
    <2> HIDE DEF state
    <2>5. proc' \in [Pids -> Procs]
      BY <2>1, <2>4 DEF IInv, ProcOK, Set
    <2>6. ASSUME NEW q \in Pids PROVE Renamed(proc[q])'
      <3>1. proc'[q] = IF q = p THEN state ELSE proc[q]
        BY <2>1 DEF IInv, ProcOK, Set
      <3>2. CASE q = p
        <4>1. proc'[q].at <= Len(versions')
          BY <1>1, <2>3, <2>4, <3>1, <3>2, SMT
        <4> QED
          BY <4>1 DEF Renamed
      <3>3. CASE q # p
        <4>1. proc[q] \in Procs /\ Renamed(proc[q])
          BY DEF IInv, ProcOK
        <4>2. proc[q].at \in Nat
          BY <4>1, SMT DEF Procs
        <4>3. proc'[q].pc = "dirsync" => proc'[q].at <= Len(versions')
          BY <1>1, <2>3, <3>1, <3>3, <4>1, <4>2, SMT DEF Renamed
        <4> QED
          BY <4>3 DEF Renamed
      <3> QED
        BY <3>2, <3>3
    <2> QED
      BY <2>1, <2>3, <2>5, <2>6 DEF IInv, ProcOK, ListsOK
  <1> QED
    BY <1>2, <1>3

(* A directory that was synced holds what is reported as done.             *)
LEMMA SyncStep ==
  ASSUME IInv, NEW p \in Pids, SyncDirectory(p)
  PROVE  IInv' /\ (AtomicFile!Next \/ UNCHANGED AtomicFile!vars)
  <1>1. CASE Goto(p, "discard") /\ UNCHANGED <<durable, acked>>
    <2>1. UNCHANGED <<store, lists>> /\ "discard" \in Pcs \ {"dirsync"}
      BY <1>1 DEF SyncDirectory, store, Pcs
    <2> QED
      BY <1>1, <2>1, GoingOn, QuietStep
  <1>2. CASE ~(Goto(p, "discard") /\ UNCHANGED <<durable, acked>>)
    <2>1. /\ durable' = Len(versions)
          /\ acked' = Later(acked, proc[p].at)
          /\ End(p)
          /\ UNCHANGED <<versions, lists>>
      BY <1>2 DEF SyncDirectory
    <2>2. proc[p].at \in Nat /\ proc[p].at <= Len(versions)
      <3>1. proc[p] \in Procs /\ Renamed(proc[p]) /\ proc[p].pc = "dirsync"
        BY DEF IInv, ProcOK, SyncDirectory, At
      <3> QED
        BY <3>1, SMT DEF Procs, Renamed
    <2>3. Len(versions) \in Nat
      BY SMT DEF IInv, VersionsOK
    <2>4. acked' \in acked .. Len(versions) /\ acked \in Nat \ {0}
      BY <2>1, <2>2, <2>3, SMT DEF Later, IInv, OrderOK
    <2>5. OrderOK'
      BY <2>1, <2>3, <2>4, SMT DEF OrderOK
    <2>6. VersionsOK' /\ ListsOK'
      BY <2>1 DEF IInv, VersionsOK, ListsOK
    <2>7. ProcOK'
      <3>1. proc' \in [Pids -> Procs]
        BY <2>1, EndedIsProc DEF IInv, ProcOK, End, Set
      <3>2. ASSUME NEW q \in Pids PROVE Renamed(proc[q])'
        <4>1. proc'[q] = IF q = p THEN Ended ELSE proc[q]
          BY <2>1 DEF IInv, ProcOK, End, Set
        <4>2. Ended.pc = "ended"
          BY DEF Ended
        <4> QED
          BY <2>1, <4>1, <4>2 DEF IInv, ProcOK, Renamed
      <3> QED
        BY <3>1, <3>2 DEF ProcOK
    <2>8. AtomicFile!Acknowledge
      <3>1. acked' \in acked .. Len(Visible)
        BY <2>4, VisibleLength
      <3>2. UNCHANGED Visible
        BY <2>1 DEF Visible
      <3> QED
        BY <3>1, <3>2 DEF AtomicFile!Acknowledge
    <2> QED
      BY <2>5, <2>6, <2>7, <2>8 DEF IInv, AtomicFile!Next
  <1> QED
    BY <1>1, <1>2

(* Another program that edits the file installs an entry.                  *)
LEMMA EditStep ==
  ASSUME IInv, Edit
  PROVE  IInv' /\ AtomicFile!Next
  <1>1. PICK e \in EditedEntries :
          versions' = Append(versions, [entry |-> e, flushed |-> TRUE])
    BY DEF Edit
  <1>2. e \in Entries /\ UNCHANGED <<durable, acked, lists, proc>>
    BY EntriesAssumption DEF Edit
  <1>3. VersionsOK' /\ OrderOK' /\ Len(versions') = Len(versions) + 1
        /\ AtomicFile!Next
    BY <1>1, <1>2, Installs
  <1>4. ASSUME NEW q \in Pids PROVE Renamed(proc[q])'
    <2>1. proc[q] \in Procs /\ Renamed(proc[q]) /\ Len(versions) \in Nat
      BY SMT DEF IInv, ProcOK, VersionsOK
    <2>2. proc[q].at \in Nat
      BY <2>1, SMT DEF Procs
    <2>3. proc[q].pc = "dirsync" => proc[q].at <= Len(versions')
      BY <1>3, <2>1, <2>2, SMT DEF Renamed
    <2> QED
      BY <1>2, <2>3 DEF Renamed
  <1> QED
    BY <1>2, <1>3, <1>4 DEF IInv, ProcOK, ListsOK

(* The blacklists are other files.                                         *)
LEMMA EditListsStep ==
  ASSUME IInv, EditLists
  PROVE  IInv' /\ UNCHANGED AtomicFile!vars
  <1>1. PICK file \in {"bundled", "persistent"}, l \in Lists :
          lists' = Append(lists, [NowLists EXCEPT ![file] = l])
    BY DEF EditLists
  <1>2. NowLists \in ListStates
    BY SMT DEF IInv, ListsOK, NowLists, Last
  <1>3. [NowLists EXCEPT ![file] = l] \in ListStates
    BY <1>2, SMT DEF ListStates
  <1>4. ListsOK'
    BY <1>1, <1>3, SMT DEF IInv, ListsOK
  <1>5. UNCHANGED <<versions, durable, acked, proc>>
    BY DEF EditLists, store
  <1>6. VersionsOK' /\ OrderOK' /\ ProcOK'
    BY <1>5 DEF IInv, VersionsOK, OrderOK, ProcOK, Renamed
  <1> QED
    BY <1>4, <1>5, <1>6, QuietStep DEF IInv, store

(* A version kept by a power loss is whole, because it was synced before   *)
(* it got its name; nothing that was reported as done is behind it.        *)
LEMMA PowerLossStep ==
  ASSUME IInv, PowerLoss
  PROVE  IInv' /\ AtomicFile!Next
  <1>1. PICK k \in durable .. Len(versions) :
          /\ versions' = Append(SubSeq(versions, 1, k - 1), Survives(versions[k]))
          /\ durable' = k
    BY DEF PowerLoss
  <1>2. /\ Len(versions) \in Nat /\ k \in 1 .. Len(versions)
        /\ acked \in Nat \ {0} /\ acked <= k
    BY SMT DEF IInv, VersionsOK, OrderOK
  <1>3. versions[k] \in Whole
    BY <1>2, SMT DEF IInv, VersionsOK
  <1>4. Survives(versions[k]) = versions[k]
    <2>1. versions[k].flushed \in {TRUE}
      BY <1>3, Zenon DEF Whole
    <2> QED
      BY <2>1 DEF Survives
  <1>5. versions' = SubSeq(versions, 1, k)
    BY <1>1, <1>2, <1>3, <1>4, SMT DEF IInv, VersionsOK
  <1>6. /\ VersionsOK' /\ Len(versions') = k
        /\ DOMAIN versions' = 1 .. k
        /\ \A i \in 1 .. k : versions'[i] = versions[i]
    BY <1>2, <1>5, SMT DEF IInv, VersionsOK
  <1>7. OrderOK'
    <2>1. UNCHANGED acked
      BY DEF PowerLoss
    <2> QED
      BY <1>1, <1>2, <1>6, <2>1, SMT DEF OrderOK
  <1>8. ProcOK' /\ ListsOK'
    <2>1. proc' = [p \in Pids |-> Ended] /\ UNCHANGED lists
      BY DEF PowerLoss
    <2>2. Ended.pc = "ended"
      BY DEF Ended
    <2> QED
      BY <2>1, <2>2, EndedIsProc DEF IInv, ProcOK, ListsOK, Renamed
  <1>9. Visible' = SubSeq(Visible, 1, k)
    <2>1. /\ DOMAIN versions = 1 .. Len(versions)
          /\ Visible \in Seq(Entries) /\ Len(Visible) = Len(versions)
      BY VisibleLength, SMT DEF IInv, VersionsOK
    <2>2. Visible' = [i \in 1 .. k |-> versions[i].entry]
      BY <1>6 DEF Visible
    <2>3. \A i \in 1 .. k : Visible[i] = versions[i].entry
      BY <1>2, <2>1, SMT DEF Visible
    <2>4. SubSeq(Visible, 1, k) = [i \in 1 .. k |-> Visible[i]]
      BY <1>2, <2>1, SMT
    <2> QED
      BY <2>2, <2>3, <2>4, Zenon
  <1>10. AtomicFile!PowerLoss
    <2>1. k \in acked .. Len(Visible)
      BY <1>2, VisibleLength, SMT
    <2>2. UNCHANGED acked
      BY DEF PowerLoss
    <2> QED
      BY <1>9, <2>1, <2>2 DEF AtomicFile!PowerLoss
  <1> QED
    BY <1>6, <1>7, <1>8, <1>10 DEF IInv, AtomicFile!Next

(* Every step keeps the invariant and is one of the atomic file or none.   *)
LEMMA EveryStep ==
  ASSUME IInv, [Next]_vars
  PROVE  IInv' /\ (AtomicFile!Next \/ UNCHANGED AtomicFile!vars)
  <1>1. ASSUME NEW p \in Pids,
               \/ Begin(p) \/ CleanTemps(p) \/ ReadMain(p) \/ StatMissing(p)
               \/ ReadBundled(p) \/ ReadPersistent(p) \/ Leave(p)
               \/ CheckTarget(p) \/ Create(p) \/ Write(p) \/ Flush(p)
               \/ Discard(p) \/ Kill(p)
        PROVE  IInv' /\ UNCHANGED AtomicFile!vars
    <2>1. UNCHANGED <<store, lists>>
      BY <1>1 DEF Begin, CleanTemps, ReadMain, StatMissing, ReadBundled,
                  ReadPersistent, Leave, CheckTarget, Create, Write, Flush,
                  Discard, Kill
    <2>2. CASE Begin(p)
      BY <2>1, <2>2, BeginKeeps, QuietStep
    <2>3. CASE Kill(p)
      BY <2>1, <2>3, GoingOn, QuietStep DEF Kill
    <2>4. CASE CheckTarget(p) \/ Create(p) \/ Write(p) \/ Flush(p) \/ Discard(p)
      BY <2>1, <2>4, SaveKeeps, QuietStep
    <2>5. CASE \/ CleanTemps(p) \/ ReadMain(p) \/ StatMissing(p)
               \/ ReadBundled(p) \/ ReadPersistent(p) \/ Leave(p)
      BY <2>1, <2>5, LoadKeeps, QuietStep
    <2> QED
      BY <1>1, <2>2, <2>3, <2>4, <2>5
  <1>2. CASE Age \/ UNCHANGED vars
    <2>1. UNCHANGED <<versions, durable, acked, lists, proc>>
      BY <1>2 DEF Age, vars, store
    <2> QED
      BY <2>1, QuietStep DEF IInv, VersionsOK, ListsOK, OrderOK, ProcOK,
                             Renamed, store
  <1> QED
    BY <1>1, <1>2, RenameStep, SyncStep, EditStep, EditListsStep, PowerLossStep
    DEF Next, Step

(* The file starts as one entry that is durable.                           *)
LEMMA Start ==
  ASSUME Init
  PROVE  IInv /\ AtomicFile!Init
  <1>1. PICK e \in InitialEntries : versions = <<[entry |-> e, flushed |-> TRUE]>>
    BY DEF Init
  <1>2. e \in Entries
    BY EntriesAssumption
  <1>3. [entry |-> e, flushed |-> TRUE] \in Whole
    BY <1>2, SMT DEF Whole
  <1>4. VersionsOK /\ Len(versions) = 1
    BY <1>1, <1>3, SMT DEF VersionsOK
  <1>5. OrderOK
    BY <1>4, SMT DEF Init, OrderOK
  <1>6. ListsOK
    <2>1. PICK b \in Lists, l \in Lists :
            lists = <<[bundled |-> b, persistent |-> l]>>
      BY DEF Init
    <2>2. [bundled |-> b, persistent |-> l] \in ListStates
      BY SMT DEF ListStates
    <2> QED
      BY <2>1, <2>2, SMT DEF ListsOK
  <1>7. ProcOK
    <2>1. Ended.pc = "ended"
      BY DEF Ended
    <2> QED
      BY <2>1, EndedIsProc DEF Init, ProcOK, Renamed
  <1>8. Visible = <<e>>
    <2>1. versions[1].entry = e /\ DOMAIN versions = {1}
      BY <1>1, SMT
    <2> QED
      BY <2>1, SMT DEF Visible
  <1> QED
    BY <1>2, <1>4, <1>5, <1>6, <1>7, <1>8 DEF IInv, Init, AtomicFile!Init

(* atomic_write keeps its promise: seen through the versions of the file,  *)
(* every behaviour of the loaders, savers, crashes and power losses is one *)
(* of the atomic file.                                                     *)
THEOREM FileIsAtomic == Spec => SavesAreAtomic
  <1>1. IInv /\ [Next]_vars => IInv' /\ [AtomicFile!Next]_(AtomicFile!vars)
    BY EveryStep
  <1>2. Init => IInv /\ AtomicFile!Init
    BY Start
  <1> QED
    BY <1>1, <1>2, PTL DEF Spec, SavesAreAtomic, AtomicFile!Spec
----------------------------------------------------------------------------
(* What a process in state s may rely on, when the file and the lists had  *)
(* the versions vs and ls: the configuration and the lists it has read     *)
(* were there at some moment of its call.                                  *)
Saving == {"check", "create", "write", "flush", "rename"}

ConfigRead(s, vs) ==
    \/ s.op = "show"
    \/ \E version \in Within(vs, s.from) :
          IsConfig(s.config) /\ s.config = Basis(version.entry, s.op)

ConfigUsed(s, vs) ==
    \/ s.op = "show"
    \/ \E version \in Within(vs, s.from) :
          LeftAlone(s.config, Basis(version.entry, s.op), s.patch)

BundledRead(s, ls) ==
    \E one \in Within(ls, s.listsFrom) :
       one.bundled # Garbled /\ s.black = one.bundled

ListsRead(s, ls) ==
    \E one, other \in Within(ls, s.listsFrom) :
       /\ Garbled \notin {one.bundled, other.persistent}
       /\ s.black = one.bundled \cup other.persistent

Founded(s, vs, ls) ==
    /\ s.op # "save" => s.patch = NoPatch
    /\ s.pc # "ended" => s.from \in 1 .. Len(vs) /\ s.listsFrom \in 1 .. Len(ls)
    /\ s.pc \in {"bundled", "persistent"} => ConfigRead(s, vs)
    /\ s.pc = "persistent" => BundledRead(s, ls)
    /\ s.pc = "loaded" \/ (s.op = "save" /\ s.pc \in Saving) =>
         ConfigUsed(s, vs) /\ ListsRead(s, ls)

AllFounded == \A q \in Pids : Founded(proc[q], versions, lists)

(* Versions are only added while a process runs.                           *)
Longer(old, new) ==
    /\ Len(old) <= Len(new)
    /\ \A i \in 1 .. Len(old) : new[i] = old[i]

LEMMA WithinGrows ==
  ASSUME NEW old, NEW new, Len(old) \in Nat, Len(new) \in Nat,
         Longer(old, new), NEW first \in 1 .. Len(old)
  PROVE  Within(old, first) \subseteq Within(new, first)
  BY SMT DEF Longer, Within

LEMMA FoundedGrows ==
  ASSUME NEW s, NEW vs, NEW ls, NEW ws, NEW ms,
         Len(vs) \in Nat, Len(ls) \in Nat, Len(ws) \in Nat, Len(ms) \in Nat,
         Longer(vs, ws), Longer(ls, ms), Founded(s, vs, ls)
  PROVE  Founded(s, ws, ms)
  <1>1. CASE s.pc = "ended"
    BY <1>1 DEF Founded, Saving
  <1>2. CASE s.pc # "ended"
    <2>1. s.from \in 1 .. Len(vs) /\ s.listsFrom \in 1 .. Len(ls)
      BY <1>2 DEF Founded
    <2>2. /\ Within(vs, s.from) \subseteq Within(ws, s.from)
          /\ Within(ls, s.listsFrom) \subseteq Within(ms, s.listsFrom)
      BY <2>1, WithinGrows
    <2>3. s.from \in 1 .. Len(ws) /\ s.listsFrom \in 1 .. Len(ms)
      BY <2>1, SMT DEF Longer
    <2>4. ConfigRead(s, vs) => ConfigRead(s, ws)
      BY <2>2 DEF ConfigRead
    <2>5. ConfigUsed(s, vs) => ConfigUsed(s, ws)
      BY <2>2 DEF ConfigUsed
    <2>6. BundledRead(s, ls) => BundledRead(s, ms)
      BY <2>2 DEF BundledRead
    <2>7. ListsRead(s, ls) => ListsRead(s, ms)
      BY <2>2 DEF ListsRead
    <2> QED
      BY <2>3, <2>4, <2>5, <2>6, <2>7 DEF Founded
  <1> QED
    BY <1>1, <1>2

LEMMA Lengths == IInv => Len(versions) \in Nat \ {0} /\ Len(lists) \in Nat \ {0}
  BY SMT DEF IInv, VersionsOK, ListsOK

LEMMA NowIsWithin ==
  ASSUME IInv
  PROVE  /\ \A first \in 1 .. Len(versions) : Now \in Within(versions, first)
         /\ \A first \in 1 .. Len(lists) : NowLists \in Within(lists, first)
  BY Lengths, SMT DEF Now, NowLists, Last, Within

(* One process moves on.                                                   *)
LEMMA OneFounded ==
  ASSUME IInv, IInv', AllFounded, NEW p \in Pids, NEW state, Set(p, state),
         Founded(state, versions, lists),
         Longer(versions, versions'), Longer(lists, lists')
  PROVE  AllFounded'
  <1>1. Len(versions) \in Nat /\ Len(lists) \in Nat
    BY Lengths
  <1>2. Len(versions') \in Nat /\ Len(lists') \in Nat
    BY SMT DEF IInv, VersionsOK, ListsOK
  <1>3. ASSUME NEW q \in Pids PROVE Founded(proc'[q], versions', lists')
    <2>1. proc'[q] = IF q = p THEN state ELSE proc[q]
      BY DEF IInv, ProcOK, Set
    <2>2. Founded(proc'[q], versions, lists)
      BY <2>1 DEF AllFounded
    <2> QED
      BY <1>1, <1>2, <2>2, FoundedGrows
  <1> QED
    BY <1>3 DEF AllFounded

LEMMA EndedFounded == \A vs, ls : Founded(Ended, vs, ls)
  <1>1. Ended.pc = "ended" /\ Ended.op = "none" /\ Ended.patch = NoPatch
    BY DEF Ended
  <1> QED
    BY <1>1 DEF Founded, Saving

(* What the steps of a process leave alone in its state.                   *)
LEMMA PcFields ==
  ASSUME NEW s \in Procs, NEW x
  PROVE  /\ [s EXCEPT !.pc = x].pc = x
         /\ [s EXCEPT !.pc = x].op = s.op
         /\ [s EXCEPT !.pc = x].patch = s.patch
         /\ [s EXCEPT !.pc = x].config = s.config
         /\ [s EXCEPT !.pc = x].black = s.black
         /\ [s EXCEPT !.pc = x].from = s.from
         /\ [s EXCEPT !.pc = x].listsFrom = s.listsFrom
  BY SMT DEF Procs

(* A save goes on, a loader has not loaded yet, or the process stops.      *)
LEMMA MovesFounded ==
  ASSUME IInv, IInv', AllFounded, NEW p \in Pids,
         Longer(versions, versions'), Longer(lists, lists'),
         \/ End(p)
         \/ \E pc \in {"read", "stat", "discard"} : ~At(p, "ended") /\ Goto(p, pc)
         \/ \E pc \in Saving : proc[p].pc \in Saving /\ Goto(p, pc)
  PROVE  AllFounded'
  <1>1. CASE End(p)
    BY <1>1, EndedFounded, OneFounded DEF End
  <1>2. ASSUME NEW pc, Goto(p, pc),
               \/ pc \in {"read", "stat", "discard"} /\ ~At(p, "ended")
               \/ pc \in Saving /\ proc[p].pc \in Saving
        PROVE  AllFounded'
    <2> DEFINE s == proc[p]
               state == [proc[p] EXCEPT !.pc = pc]
    <2>1. s \in Procs /\ Founded(s, versions, lists) /\ s.pc # "ended"
      BY <1>2 DEF IInv, ProcOK, AllFounded, At, Saving
    <2>2. /\ state.pc = pc /\ state.op = s.op /\ state.patch = s.patch
          /\ state.config = s.config /\ state.black = s.black
          /\ state.from = s.from /\ state.listsFrom = s.listsFrom
      BY <2>1, PcFields
    <2>3. Set(p, state)
      BY <1>2 DEF Goto
    <2> HIDE DEF state
    <2>4. /\ ConfigUsed(s, versions) => ConfigUsed(state, versions)
          /\ ListsRead(s, lists) => ListsRead(state, lists)
      BY <2>2 DEF ConfigUsed, ListsRead
    <2>5. Founded(state, versions, lists)
      BY <1>2, <2>1, <2>2, <2>4 DEF Founded, Saving
    <2> QED
      BY <2>3, <2>5, OneFounded
  <1> QED
    BY <1>1, <1>2

(* The loader has read the main file as it is now.                         *)
LEMMA ReadFounded ==
  ASSUME IInv, IInv', AllFounded, UNCHANGED <<store, lists>>, NEW p \in Pids,
         ReadMain(p) \/ StatMissing(p)
  PROVE  AllFounded'
  <1> DEFINE s == proc[p]
  <1>1. s \in Procs /\ Founded(s, versions, lists) /\ s.pc \in {"read", "stat"}
    BY DEF IInv, ProcOK, AllFounded, ReadMain, StatMissing, At
  <1>2. /\ s.from \in 1 .. Len(versions) /\ s.listsFrom \in 1 .. Len(lists)
        /\ s.op # "save" => s.patch = NoPatch
    BY <1>1 DEF Founded
  <1>3. Now \in Within(versions, s.from)
    BY <1>2, NowIsWithin
  <1>4. Longer(versions, versions') /\ Longer(lists, lists')
    BY Lengths, SMT DEF Longer, store
  <1>5. ASSUME NEW config, With(p, config, "bundled"),
               s.op = "show" \/ (IsConfig(config) /\ config = Basis(Now.entry, s.op))
        PROVE  AllFounded'
    <2> DEFINE one == [s EXCEPT !.config = config]
               state == [s EXCEPT !.config = config, !.pc = "bundled"]
    <2>1. /\ state.pc = "bundled" /\ state.op = s.op /\ state.patch = s.patch
          /\ state.config = config /\ state.from = s.from
          /\ state.listsFrom = s.listsFrom
      BY <1>1, SMT DEF Procs
    <2>2. Set(p, state)
      BY <1>5 DEF With
    <2> HIDE DEF state
    <2>3. ConfigRead(state, versions)
      BY <1>3, <1>5, <2>1 DEF ConfigRead
    <2>4. Founded(state, versions, lists)
      BY <1>2, <2>1, <2>3 DEF Founded, Saving
    <2> QED
      BY <1>4, <2>2, <2>4, OneFounded
  <1>6. CASE ReadMain(p)
    <2> DEFINE content == Now.entry.content
    <2>1. CASE End(p) \/ Goto(p, "stat")
      BY <1>1, <1>4, <2>1, MovesFounded DEF At
    <2>2. CASE IsConfig(content) /\ With(p, content, "bundled")
      <3>1. content = Basis(Now.entry, s.op)
        BY <2>2 DEF Basis, IsConfig
      <3> QED
        BY <1>5, <2>2, <3>1
    <2>3. CASE /\ content = Missing /\ s.op \notin Strict
               /\ With(p, Default, "bundled")
      <3>1. Default = Basis(Now.entry, s.op)
        BY <2>3 DEF Basis
      <3> QED
        BY <1>5, <2>3, <3>1, MarkersAssumption
    <2>4. CASE s.op = "show" /\ With(p, Default, "bundled")
      BY <1>5, <2>4
    <2> QED
      BY <1>6, <2>1, <2>2, <2>3, <2>4 DEF ReadMain
  <1>7. CASE StatMissing(p)
    <2>1. CASE End(p)
      BY <1>4, <2>1, MovesFounded
    <2>2. CASE Now.entry = Entry(Missing, FALSE) /\ With(p, Default, "bundled")
      <3>1. Now.entry.content = Missing /\ Now.entry.link = FALSE
        BY <2>2 DEF Entry
      <3>2. Default = Basis(Now.entry, s.op)
        BY <3>1 DEF Basis
      <3> QED
        BY <1>5, <2>2, <3>2, MarkersAssumption
    <2> QED
      BY <1>7, <2>1, <2>2 DEF StatMissing
  <1> QED
    BY <1>6, <1>7

LEMMA ReadBundledFounded ==
  ASSUME IInv, IInv', AllFounded, UNCHANGED <<store, lists>>, NEW p \in Pids,
         ReadBundled(p)
  PROVE  AllFounded'
  <1> DEFINE s == proc[p]
             state == [s EXCEPT !.black = NowLists.bundled, !.pc = "persistent"]
  <1>1. s \in Procs /\ Founded(s, versions, lists) /\ s.pc = "bundled"
    BY DEF IInv, ProcOK, AllFounded, ReadBundled, At
  <1>2. Longer(versions, versions') /\ Longer(lists, lists')
    BY Lengths, SMT DEF Longer, store
  <1>3. CASE End(p)
    BY <1>2, <1>3, MovesFounded
  <1>4. CASE NowLists.bundled # Garbled /\ Set(p, state)
    <2>1. /\ state.pc = "persistent" /\ state.op = s.op /\ state.patch = s.patch
          /\ state.config = s.config /\ state.from = s.from
          /\ state.listsFrom = s.listsFrom /\ state.black = NowLists.bundled
      BY <1>1, SMT DEF Procs
    <2> HIDE DEF state
    <2>2. /\ s.from \in 1 .. Len(versions) /\ s.listsFrom \in 1 .. Len(lists)
          /\ s.op # "save" => s.patch = NoPatch
          /\ ConfigRead(s, versions)
      BY <1>1 DEF Founded
    <2>3. NowLists \in Within(lists, s.listsFrom)
      BY <2>2, NowIsWithin
    <2>4. BundledRead(state, lists)
      BY <1>4, <2>1, <2>3 DEF BundledRead
    <2>5. ConfigRead(state, versions)
      BY <2>1, <2>2 DEF ConfigRead
    <2>6. Founded(state, versions, lists)
      BY <2>1, <2>2, <2>4, <2>5 DEF Founded, Saving
    <2> QED
      BY <1>2, <1>4, <2>6, OneFounded
  <1> QED
    BY <1>3, <1>4 DEF ReadBundled

(* A merge changes what the patch names; no patch names nothing.           *)
LEMMA MergeLeavesAlone ==
  ASSUME NEW config, NEW patch, IsConfig(config)
  PROVE  LeftAlone(ApplyPatch(config, patch), config, patch)
  <1> DEFINE Pick(new, old) == IF new = Keep THEN old ELSE new
             base(m) == IF patch.replace THEN NoRule ELSE config.rules[m]
             rule(m) ==
               IF m \in DOMAIN patch.rules
               THEN [mode |-> Pick(patch.rules[m].mode, base(m).mode),
                     paths |-> Pick(patch.rules[m].paths, base(m).paths)]
               ELSE base(m)
             merged == ApplyPatch(config, patch)
  <1>1. /\ merged.mode = Pick(patch.mode, config.mode)
        /\ merged.settings = Pick(patch.settings, config.settings)
        /\ merged.rules = [m \in Modules |-> rule(m)]
    BY DEF ApplyPatch
  <1> HIDE DEF merged
  <1>2. ASSUME NEW m \in Modules, NEW part \in {"mode", "paths"},
               m \in DOMAIN patch.rules => patch.rules[m][part] = Keep
        PROVE  merged.rules[m][part] = (IF patch.replace THEN NoRule[part]
                                        ELSE config.rules[m][part])
    <2>1. merged.rules[m] = rule(m)
      BY <1>1
    <2>2. base(m)[part] = (IF patch.replace THEN NoRule[part]
                           ELSE config.rules[m][part])
      OBVIOUS
    <2> HIDE DEF base
    <2>3. rule(m)[part] = base(m)[part]
      BY <1>2
    <2> QED
      BY <2>1, <2>2, <2>3
  <1> QED
    BY <1>1, <1>2 DEF LeftAlone, merged

LEMMA NoPatchLeavesAlone ==
  ASSUME NEW config, IsConfig(config) PROVE LeftAlone(config, config, NoPatch)
  <1>1. NoPatch.replace = FALSE /\ DOMAIN NoPatch.rules = {}
    BY DEF NoPatch
  <1> QED
    BY <1>1 DEF LeftAlone

LEMMA ReadPersistentFounded ==
  ASSUME IInv, IInv', AllFounded, UNCHANGED <<store, lists>>, NEW p \in Pids,
         ReadPersistent(p)
  PROVE  AllFounded'
  <1> DEFINE s == proc[p]
             black == s.black \cup NowLists.persistent
             kept == [s EXCEPT !.black = black, !.pc = "loaded"]
             merged == [s EXCEPT !.black = black, !.pc = "check",
                                 !.config = ApplyPatch(@, s.patch)]
  <1>1. s \in Procs /\ Founded(s, versions, lists) /\ s.pc = "persistent"
    BY DEF IInv, ProcOK, AllFounded, ReadPersistent, At
  <1>2. Longer(versions, versions') /\ Longer(lists, lists')
    BY Lengths, SMT DEF Longer, store
  <1>3. /\ s.from \in 1 .. Len(versions) /\ s.listsFrom \in 1 .. Len(lists)
        /\ s.op # "save" => s.patch = NoPatch
        /\ ConfigRead(s, versions) /\ BundledRead(s, lists)
    BY <1>1 DEF Founded
  <1>4. NowLists \in Within(lists, s.listsFrom)
    BY <1>3, NowIsWithin
  <1>5. ASSUME NEW t, NowLists.persistent # Garbled, t.black = black,
               t.listsFrom = s.listsFrom
        PROVE  ListsRead(t, lists)
    BY <1>3, <1>4, <1>5 DEF BundledRead, ListsRead
  <1>6. CASE End(p)
    BY <1>2, <1>6, MovesFounded
  <1>7. CASE NowLists.persistent # Garbled /\ s.op # "save" /\ Set(p, kept)
    <2>1. /\ kept.pc = "loaded" /\ kept.op = s.op /\ kept.patch = s.patch
          /\ kept.config = s.config /\ kept.from = s.from
          /\ kept.listsFrom = s.listsFrom /\ kept.black = black
      BY <1>1, SMT DEF Procs
    <2> HIDE DEF kept, black
    <2>2. ListsRead(kept, lists)
      BY <1>5, <1>7, <2>1
    <2>3. ConfigUsed(kept, versions)
      BY <1>3, <1>7, <2>1, NoPatchLeavesAlone DEF ConfigRead, ConfigUsed
    <2>4. Founded(kept, versions, lists)
      BY <1>3, <2>1, <2>2, <2>3 DEF Founded, Saving
    <2> QED
      BY <1>2, <1>7, <2>4, OneFounded
  <1>8. CASE NowLists.persistent # Garbled /\ s.op = "save" /\ Set(p, merged)
    <2>1. /\ merged.pc = "check" /\ merged.op = s.op /\ merged.patch = s.patch
          /\ merged.config = ApplyPatch(s.config, s.patch) /\ merged.from = s.from
          /\ merged.listsFrom = s.listsFrom /\ merged.black = black
      BY <1>1, SMT DEF Procs
    <2> HIDE DEF merged, black
    <2>2. ListsRead(merged, lists)
      BY <1>5, <1>8, <2>1
    <2>3. ConfigUsed(merged, versions)
      BY <1>3, <1>8, <2>1, MergeLeavesAlone DEF ConfigRead, ConfigUsed
    <2>4. Founded(merged, versions, lists)
      BY <1>3, <1>8, <2>1, <2>2, <2>3 DEF Founded, Saving
    <2> QED
      BY <1>2, <1>8, <2>4, OneFounded
  <1> QED
    BY <1>6, <1>7, <1>8 DEF ReadPersistent, Loaded

(* A call starts from the file and the lists as they are.                  *)
LEMMA BeginFounded ==
  ASSUME IInv, IInv', AllFounded, UNCHANGED <<store, lists>>, NEW p \in Pids,
         Begin(p)
  PROVE  AllFounded'
  <1>1. PICK op \in {"boot", "hot", "show", "save", "gen"} :
          \E patch \in (IF op = "save" THEN Patches ELSE {NoPatch}) :
          Set(p, [Ended EXCEPT !.op = op, !.patch = patch,
                               !.pc = FirstStep(op),
                               !.from = Len(versions),
                               !.listsFrom = Len(lists)])
    BY DEF Begin
  <1>2. PICK patch \in (IF op = "save" THEN Patches ELSE {NoPatch}) :
          Set(p, [Ended EXCEPT !.op = op, !.patch = patch,
                               !.pc = FirstStep(op),
                               !.from = Len(versions),
                               !.listsFrom = Len(lists)])
    BY <1>1
  <1> DEFINE state == [Ended EXCEPT !.op = op, !.patch = patch,
                                    !.pc = FirstStep(op),
                                    !.from = Len(versions),
                                    !.listsFrom = Len(lists)]
  <1>3. /\ state.op = op /\ state.patch = patch /\ state.pc = FirstStep(op)
        /\ state.from = Len(versions) /\ state.listsFrom = Len(lists)
    BY EndedIsProc, SMT DEF Procs
  <1>4. Set(p, state)
    BY <1>2
  <1> HIDE DEF state
  <1>5. op # "save" => patch = NoPatch
    <2>1. CASE op # "save"
      BY <2>1
    <2> QED
      BY <2>1
  <1>6. FirstStep(op) \in {"clean", "read", "check"} /\ (op = "save" => FirstStep(op) = "read")
    BY <1>1 DEF FirstStep
  <1>7. state.from \in 1 .. Len(versions) /\ state.listsFrom \in 1 .. Len(lists)
    BY <1>3, Lengths, SMT
  <1>8. Founded(state, versions, lists)
    BY <1>3, <1>5, <1>6, <1>7 DEF Founded, Saving
  <1>9. Longer(versions, versions') /\ Longer(lists, lists')
    BY Lengths, SMT DEF Longer, store
  <1> QED
    BY <1>4, <1>8, <1>9, OneFounded

(* Looking for a name of its own, a save counts and keeps what it merged.  *)
LEMMA CreateFounded ==
  ASSUME IInv, IInv', AllFounded, UNCHANGED <<store, lists>>, NEW p \in Pids,
         Create(p)
  PROVE  AllFounded'
  <1> DEFINE s == proc[p]
             state == [s EXCEPT !.seq = s.seq + 1]
  <1>1. s \in Procs /\ Founded(s, versions, lists) /\ s.pc = "create"
    BY DEF IInv, ProcOK, AllFounded, Create, At
  <1>2. Longer(versions, versions') /\ Longer(lists, lists')
    BY Lengths, SMT DEF Longer, store
  <1>3. CASE End(p) \/ Goto(p, "write")
    BY <1>1, <1>2, <1>3, MovesFounded DEF Saving
  <1>4. CASE Set(p, state)
    <2>1. /\ state.pc = s.pc /\ state.op = s.op /\ state.patch = s.patch
          /\ state.config = s.config /\ state.from = s.from
          /\ state.listsFrom = s.listsFrom /\ state.black = s.black
      BY <1>1, SMT DEF Procs
    <2> HIDE DEF state
    <2>2. /\ ConfigUsed(s, versions) => ConfigUsed(state, versions)
          /\ ListsRead(s, lists) => ListsRead(state, lists)
      BY <2>1 DEF ConfigUsed, ListsRead
    <2>3. Founded(state, versions, lists)
      BY <1>1, <2>1, <2>2 DEF Founded, Saving
    <2> QED
      BY <1>2, <1>4, <2>3, OneFounded
  <1> QED
    BY <1>3, <1>4 DEF Create

(* The renamed file is one version more.                                   *)
LEMMA RenameFounded ==
  ASSUME IInv, IInv', AllFounded, NEW p \in Pids, Rename(p)
  PROVE  AllFounded'
  <1> DEFINE s == proc[p]
             state == [s EXCEPT !.at = Len(versions) + 1, !.pc = "dirsync"]
  <1>1. s \in Procs /\ Founded(s, versions, lists) /\ s.pc = "rename"
    BY DEF IInv, ProcOK, AllFounded, Rename, At
  <1>2. Longer(lists, lists')
    BY Lengths, SMT DEF Longer, Rename
  <1>3. Longer(versions, versions')
    <2>1. CASE UNCHANGED versions
      BY <2>1, Lengths, SMT DEF Longer
    <2>2. CASE versions' = Append(versions,
                 [entry |-> Entry(s.config, FALSE), flushed |-> TRUE])
      <3> DEFINE new == [entry |-> Entry(s.config, FALSE), flushed |-> TRUE]
      <3>1. versions' = Append(versions, new)
        BY <2>2
      <3> HIDE DEF new
      <3> QED
        BY <3>1, SMT DEF Longer, IInv, VersionsOK
    <2> QED
      BY <2>1, <2>2 DEF Rename
  <1>4. CASE Goto(p, "discard")
    BY <1>1, <1>2, <1>3, <1>4, MovesFounded DEF At
  <1>5. CASE Set(p, state)
    <2>1. /\ state.pc = "dirsync" /\ state.op = s.op /\ state.patch = s.patch
          /\ state.from = s.from /\ state.listsFrom = s.listsFrom
      BY <1>1, SMT DEF Procs
    <2> HIDE DEF state
    <2>2. Founded(state, versions, lists)
      BY <1>1, <2>1 DEF Founded, Saving
    <2> QED
      BY <1>2, <1>3, <1>5, <2>2, OneFounded
  <1> QED
    BY <1>4, <1>5 DEF Rename

(* Every step of a process keeps what the processes rely on.               *)
LEMMA StepFounded ==
  ASSUME IInv, IInv', AllFounded, NEW p \in Pids, Step(p) \/ Kill(p)
  PROVE  AllFounded'
  <1> DEFINE s == proc[p]
  <1>1. CASE Rename(p)
    BY <1>1, RenameFounded
  <1>2. CASE ~Rename(p)
    <2>1. UNCHANGED <<versions, lists>>
      BY <1>2 DEF Step, Begin, CleanTemps, ReadMain, StatMissing, ReadBundled,
                  ReadPersistent, Leave, CheckTarget, Create, Write, Flush,
                  SyncDirectory, Discard, Kill, store
    <2>2. Longer(versions, versions') /\ Longer(lists, lists')
      BY <2>1, Lengths, SMT DEF Longer
    <2>3. CASE Begin(p) \/ ReadMain(p) \/ StatMissing(p) \/ ReadBundled(p)
               \/ ReadPersistent(p) \/ Create(p)
      <3>1. UNCHANGED <<store, lists>>
        BY <2>3 DEF Begin, ReadMain, StatMissing, ReadBundled, ReadPersistent, Create
      <3> QED
        BY <2>3, <3>1, BeginFounded, ReadFounded, ReadBundledFounded,
           ReadPersistentFounded, CreateFounded
    <2>4. CASE CleanTemps(p)
      BY <2>2, <2>4, MovesFounded DEF CleanTemps, At
    <2>5. CASE Leave(p) \/ Discard(p) \/ Kill(p)
      BY <2>2, <2>5, MovesFounded DEF Leave, Discard, Kill
    <2>6. CASE CheckTarget(p) \/ Write(p) \/ Flush(p)
      <3>1. /\ s.pc \in Saving /\ ~At(p, "ended")
            /\ End(p) \/ Goto(p, "discard") \/ \E pc \in Saving : Goto(p, pc)
        BY <2>6 DEF CheckTarget, Write, Flush, At, Saving
      <3> QED
        BY <2>2, <3>1, MovesFounded
    <2>7. CASE SyncDirectory(p)
      <3>1. ~At(p, "ended") /\ (End(p) \/ Goto(p, "discard"))
        BY <2>7 DEF SyncDirectory, At
      <3> QED
        BY <2>2, <3>1, MovesFounded
    <2> QED
      BY <1>2, <2>3, <2>4, <2>5, <2>6, <2>7 DEF Step
  <1> QED
    BY <1>1, <1>2

(* Nobody else takes a version away from a process that is running.        *)
LEMMA SurroundingsFounded ==
  ASSUME IInv, IInv', AllFounded, Age \/ Edit \/ EditLists \/ PowerLoss
  PROVE  AllFounded'
  <1>1. CASE PowerLoss
    <2>1. \A q \in Pids : proc'[q] = Ended
      BY <1>1 DEF PowerLoss
    <2> QED
      BY <2>1, EndedFounded DEF AllFounded
  <1>2. CASE Age \/ Edit \/ EditLists
    <2>1. UNCHANGED proc
      BY <1>2 DEF Age, Edit, EditLists
    <2>2. Longer(versions, versions')
      <3>1. CASE UNCHANGED versions
        BY <3>1, Lengths, SMT DEF Longer
      <3>2. ASSUME NEW e, versions' = Append(versions, [entry |-> e, flushed |-> TRUE])
            PROVE  Longer(versions, versions')
        <4> DEFINE new == [entry |-> e, flushed |-> TRUE]
        <4>1. versions' = Append(versions, new)
          BY <3>2
        <4> HIDE DEF new
        <4> QED
          BY <4>1, SMT DEF Longer, IInv, VersionsOK
      <3> QED
        BY <1>2, <3>1, <3>2 DEF Age, Edit, EditLists, store
    <2>3. Longer(lists, lists')
      <3>1. CASE UNCHANGED lists
        BY <3>1, Lengths, SMT DEF Longer
      <3>2. ASSUME NEW new, lists' = Append(lists, new)
            PROVE  Longer(lists, lists')
        BY <3>2, SMT DEF Longer, IInv, ListsOK
      <3> QED
        BY <1>2, <3>1, <3>2 DEF Age, Edit, EditLists
    <2>4. /\ Len(versions) \in Nat /\ Len(lists) \in Nat
          /\ Len(versions') \in Nat /\ Len(lists') \in Nat
      BY SMT DEF IInv, VersionsOK, ListsOK
    <2>5. ASSUME NEW q \in Pids PROVE Founded(proc'[q], versions', lists')
      <3>1. Founded(proc[q], versions, lists)
        BY DEF AllFounded
      <3>2. Founded(proc[q], versions', lists')
        BY <2>2, <2>3, <2>4, <3>1, FoundedGrows
      <3> QED
        BY <2>1, <3>2
    <2> QED
      BY <2>5 DEF AllFounded
  <1> QED
    BY <1>1, <1>2

(* What a save writes and a boot or a hot operation acts on was the file's *)
(* and the lists' at some moment of the call, outside the patch (load_from *)
(* of config.rs, apply_patch of save-config).                              *)
THEOREM LoadsAlwaysFounded == Spec => []LoadsAreFounded
  <1>1. Init => IInv /\ AllFounded
    <2>1. Init => AllFounded
      BY EndedFounded DEF Init, AllFounded
    <2> QED
      BY <2>1, Start
  <1>2. IInv /\ AllFounded /\ [Next]_vars => (IInv /\ AllFounded)'
    <2> SUFFICES ASSUME IInv, AllFounded, [Next]_vars PROVE (IInv /\ AllFounded)'
      OBVIOUS
    <2>1. IInv'
      BY EveryStep
    <2>2. CASE UNCHANGED vars
      <3>1. UNCHANGED <<versions, lists, proc>>
        BY <2>2 DEF vars
      <3>2. AllFounded'
        BY <3>1 DEF AllFounded
      <3> QED
        BY <2>1, <3>2
    <2>3. CASE Next
      BY <2>1, <2>3, StepFounded, SurroundingsFounded DEF Next
    <2> QED
      BY <2>1, <2>2, <2>3
  <1>3. AllFounded => LoadsAreFounded
    <2> SUFFICES ASSUME AllFounded, NEW p \in Pids, ActedOn(p)
                 PROVE  ConfigUsed(proc[p], versions) /\ ListsRead(proc[p], lists)
      BY DEF LoadsAreFounded, ConfigUsed, ListsRead
    <2>1. Founded(proc[p], versions, lists)
      BY DEF AllFounded
    <2> QED
      BY <2>1 DEF Founded, ActedOn, Merged, At, Saving
  <1> QED
    BY <1>1, <1>2, <1>3, PTL DEF Spec

=============================================================================
