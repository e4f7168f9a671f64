---------------------------- MODULE ConfigStore ----------------------------
(***************************************************************************)
(* The configuration file and the processes that read and replace it       *)
(* (src/src/config.rs, over atomic_write of src/src/sys/fs.rs): the boot   *)
(* and the hot operations load it strictly, show-config tolerantly,        *)
(* save-config merges a patch into it and gen-config resets it.  No lock   *)
(* is taken.  A process may be killed between any two steps, the device    *)
(* may lose power, and the user edits the file and the two module          *)
(* blacklists with other programs.                                         *)
(*                                                                         *)
(* A process is named by its pid.  A pid is used again after its process   *)
(* has ended, and each process counts its temporary files from zero.       *)
(***************************************************************************)
EXTENDS Naturals, Sequences, FiniteSets, SequencesExt

CONSTANTS
    Pids, Modules,
    Modes, Settings,       \* values of default_mode, and of the other scalars
    PathRules,             \* what the path rules of one module can be
    Patches,               \* the payloads of save-config that decode
    InitialEntries, EditedEntries,  \* what the file holds, and is edited to
    Lists,                 \* contents of a blacklist file
    DefaultMode, DefaultSettings, NoPaths,     \* Config::default
    Unset, Keep, Ignore,   \* an absent mode; a field left out; the refused mode
    Missing, Garbled, Torn,
    MaxAttempts,           \* bound: names tried for a temporary file (32)
    MaxOps, MaxEdits, MaxLosses   \* bounds of the checked runs

ASSUME BoundsAssumption ==
    /\ MaxAttempts \in Nat \ {0}
    /\ {MaxOps, MaxEdits, MaxLosses} \subseteq Nat

ASSUME DefaultAssumption ==
    /\ DefaultMode \in Modes
    /\ DefaultSettings \in Settings
    /\ NoPaths \in PathRules

VARIABLES
    versions,    \* entries the config file had, oldest first; the last is there
    durable,     \* a power loss takes the file back to this version at most
    acked,       \* the newest version whose save was reported as done
    temps,       \* temporary files, named by <<pid, sequence>>
    aged,        \* those whose modification time is more than 24 hours ago
    lists,       \* states of the two blacklist files, oldest first
    proc,        \* the process that runs under each pid
    used         \* how much of each bound is used up

vars == <<versions, durable, acked, temps, aged, lists, proc, used>>
store == <<versions, durable, acked>>
files == <<temps, aged>>

----------------------------------------------------------------------------
(* Contents.  A config that parses but sets default_mode to ignore is      *)
(* refused like one that does not parse: both are Garbled.                 *)

NoRule == [mode |-> Unset, paths |-> NoPaths]

Default ==
    [mode |-> DefaultMode, settings |-> DefaultSettings,
     rules |-> [m \in Modules |-> NoRule]]

IsConfig(c) == c \notin {Missing, Garbled, Torn}

Entry(c, isLink) == [content |-> c, link |-> isLink]

Configs ==
    [mode : Modes, settings : Settings,
     rules : [Modules -> [mode : Modes \cup {Unset}, paths : PathRules]]]

Entries == [content : Configs \cup {Missing, Garbled}, link : BOOLEAN]

Now == Last(versions)
NowLists == Last(lists)

(* Merging a patch; a rule that is not there yet starts from NoRule.       *)
ApplyPatch(config, patch) ==
    LET Pick(new, old) == IF new = Keep THEN old ELSE new
        base(m) == IF patch.replace THEN NoRule ELSE config.rules[m]
        rule(m) ==
            IF m \in DOMAIN patch.rules
            THEN [mode |-> Pick(patch.rules[m].mode, base(m).mode),
                  paths |-> Pick(patch.rules[m].paths, base(m).paths)]
            ELSE base(m)
    IN [mode |-> Pick(patch.mode, config.mode),
        settings |-> Pick(patch.settings, config.settings),
        rules |-> [m \in Modules |-> rule(m)]]

----------------------------------------------------------------------------
(* The mode of a module is left alone, cleared by null or set.             *)
ModuleRulePatches ==
    [mode : Modes \cup {Unset, Keep}, paths : PathRules \cup {Keep}]

ASSUME PatchesAssumption ==
    \A patch \in Patches :
       /\ patch.mode \in Modes \cup {Keep, Ignore}
       /\ patch.settings \in Settings \cup {Keep}
       /\ \A m \in DOMAIN patch.rules : patch.rules[m] \in ModuleRulePatches

ASSUME ListsAssumption == \A l \in Lists \ {Garbled} : l \subseteq Modules

ASSUME EntriesAssumption == InitialEntries \cup EditedEntries \subseteq Entries

(* The markers of a file that does not parse are no configuration.         *)
ASSUME MarkersAssumption == IsConfig(Default)

NoPatch == [mode |-> Keep, settings |-> Keep, replace |-> FALSE,
            rules |-> [m \in {} |-> NoRule]]

Ended == [pc |-> "ended", op |-> "none", patch |-> NoPatch,
          config |-> Default, black |-> {}, seq |-> 0,
          from |-> 0, listsFrom |-> 0, at |-> 0]

Init ==
    /\ versions \in {<<[entry |-> e, flushed |-> TRUE]>> : e \in InitialEntries}
    /\ durable = 1
    /\ acked = 1
    /\ temps = {}
    /\ aged = {}
    /\ lists \in {<<[bundled |-> b, persistent |-> l]>> : b, l \in Lists}
    /\ proc = [p \in Pids |-> Ended]
    /\ used = [ops |-> 0, edits |-> 0, losses |-> 0]

Uses(bound, max) ==
    /\ used[bound] < max
    /\ used' = [used EXCEPT ![bound] = @ + 1]

At(p, pc) == proc[p].pc = pc
Set(p, state) == proc' = [proc EXCEPT ![p] = state]
Goto(p, pc) == Set(p, [proc[p] EXCEPT !.pc = pc])
End(p) == Set(p, Ended)
With(p, config, pc) ==
    Set(p, [proc[p] EXCEPT !.config = config, !.pc = pc])

(* The boot cleans up first; a reset has nothing to load.                  *)
FirstStep(op) ==
    CASE op = "boot" -> "clean" [] op = "gen" -> "check" [] OTHER -> "read"

Begin(p) ==
    /\ At(p, "ended")
    /\ Uses("ops", MaxOps)
    /\ \E op \in {"boot", "hot", "show", "save", "gen"} :
       \E patch \in (IF op = "save" THEN Patches ELSE {NoPatch}) :
          Set(p, [Ended EXCEPT !.op = op, !.patch = patch,
                               !.pc = FirstStep(op),
                               !.from = Len(versions),
                               !.listsFrom = Len(lists)])
    /\ UNCHANGED <<store, files, lists>>

(* The temporary files of this pid may be in use and are kept; removing    *)
(* another may fail.                                                       *)
Removable(p) == {t \in aged : t[1] # p}

CleanTemps(p) ==
    /\ At(p, "clean")
    /\ \E gone \in SUBSET Removable(p) :
          /\ temps' = temps \ gone
          /\ aged' = aged \ gone
    /\ Goto(p, "read")
    /\ UNCHANGED <<store, lists, used>>
----------------------------------------------------------------------------
(* Loading: the main file, then the bundled and the persistent blacklist.  *)

Strict == {"boot", "hot"}

(* Mutant: a save falls back to the defaults like the display.             *)
ReadMainTolerantly(p) ==
    /\ At(p, "read")
    /\ LET content == Now.entry.content
       IN \/ IsConfig(content) /\ With(p, content, "bundled")
          \/ content = Missing /\ proc[p].op \in Strict /\ Goto(p, "stat")
          \/ /\ content = Missing
             /\ proc[p].op \notin Strict
             /\ With(p, Default, "bundled")
          \/ /\ content # Missing
             /\ IF proc[p].op \notin Strict
                THEN With(p, Default, "bundled") ELSE End(p)
    /\ UNCHANGED <<store, files, lists, used>>

(* A file that cannot be read or parsed ends every loader but show-config, *)
(* which displays the defaults.  A dangling link reads as a missing file.  *)
ReadMain(p) ==
    /\ At(p, "read")
    /\ LET content == Now.entry.content
       IN \/ IsConfig(content) /\ With(p, content, "bundled")
          \/ content = Missing /\ proc[p].op \in Strict /\ Goto(p, "stat")
          \/ /\ content = Missing
             /\ proc[p].op \notin Strict
             /\ With(p, Default, "bundled")
          \/ /\ content # Missing
             /\ IF proc[p].op = "show"
                THEN With(p, Default, "bundled") ELSE End(p)
    /\ UNCHANGED <<store, files, lists, used>>

(* Defaults only when there is no entry at all and its directory is there. *)
StatMissing(p) ==
    /\ At(p, "stat")
    /\ \/ Now.entry = Entry(Missing, FALSE) /\ With(p, Default, "bundled")
       \/ End(p)
    /\ UNCHANGED <<store, files, lists, used>>

ReadBundled(p) ==
    /\ At(p, "bundled")
    /\ \/ /\ NowLists.bundled # Garbled
          /\ Set(p, [proc[p] EXCEPT !.black = NowLists.bundled,
                                    !.pc = "persistent"])
       \/ End(p)
    /\ UNCHANGED <<store, files, lists, used>>

(* A save applies its patch to what was loaded, unless the patch asks for  *)
(* the refused mode.                                                       *)
Loaded(p, black) ==
    IF proc[p].op # "save"
    THEN Set(p, [proc[p] EXCEPT !.black = black, !.pc = "loaded"])
    ELSE /\ proc[p].patch.mode # Ignore
         /\ Set(p, [proc[p] EXCEPT
                      !.black = black, !.pc = "check",
                      !.config = ApplyPatch(@, proc[p].patch)])

ReadPersistent(p) ==
    /\ At(p, "persistent")
    /\ \/ /\ NowLists.persistent # Garbled
          /\ Loaded(p, proc[p].black \cup NowLists.persistent)
       \/ End(p)
    /\ UNCHANGED <<store, files, lists, used>>

(* The boot, the hot operation or the display has used what it loaded.     *)
Leave(p) ==
    /\ At(p, "loaded")
    /\ End(p)
    /\ UNCHANGED <<store, files, lists, used>>
----------------------------------------------------------------------------
(* Saving: a symbolic link is refused, everything else is replaced.        *)

CheckTarget(p) ==
    /\ At(p, "check")
    /\ \/ ~Now.entry.link /\ Goto(p, "create")
       \/ End(p)
    /\ UNCHANGED <<store, files, lists, used>>

(* A name that a crashed process of this pid left behind is passed over.   *)
Create(p) ==
    /\ At(p, "create")
    /\ LET name == <<p, proc[p].seq>>
           tried == proc[p].seq + 1
       IN \/ /\ name \in temps
             /\ IF tried < MaxAttempts
                THEN Set(p, [proc[p] EXCEPT !.seq = tried]) ELSE End(p)
             /\ UNCHANGED temps
          \/ /\ name \notin temps
             /\ temps' = temps \cup {name}
             /\ Goto(p, "write")
          \/ End(p) /\ UNCHANGED temps
    /\ UNCHANGED <<store, aged, lists, used>>

Temp(p) == <<p, proc[p].seq>>

(* Writing makes the file young again, if it still has its name.           *)
Write(p) ==
    /\ At(p, "write")
    /\ \/ Goto(p, "flush") /\ aged' = aged \ {Temp(p)}
       \/ Goto(p, "discard") /\ UNCHANGED aged
    /\ UNCHANGED <<store, temps, lists, used>>

(* The permissions of the target are set by name, then the file is synced. *)
Flush(p) ==
    /\ At(p, "flush")
    /\ \/ /\ Now.entry.content = Missing \/ Temp(p) \in temps
          /\ Goto(p, "rename")
       \/ Goto(p, "discard")
    /\ UNCHANGED <<store, files, lists, used>>

Rename(p) ==
    /\ At(p, "rename")
    /\ \/ /\ Temp(p) \in temps
          /\ temps' = temps \ {Temp(p)}
          /\ aged' = aged \ {Temp(p)}
          /\ versions' = Append(versions,
                [entry |-> Entry(proc[p].config, FALSE), flushed |-> TRUE])
          /\ Set(p, [proc[p] EXCEPT !.at = Len(versions) + 1,
                                    !.pc = "dirsync"])
       \/ Goto(p, "discard") /\ UNCHANGED <<files, versions>>
    /\ UNCHANGED <<durable, acked, lists, used>>

Later(a, b) == IF a < b THEN b ELSE a

(* Mutant: the save is reported as done without syncing the directory.     *)
ReportAfterRename(p) ==
    /\ At(p, "dirsync")
    /\ acked' = Later(acked, proc[p].at)
    /\ End(p)
    /\ UNCHANGED <<versions, durable, files, lists, used>>

(* The directory entry is durable, with all that happened to it before;    *)
(* the save is reported as done.  When the sync fails, so does the save,   *)
(* whose result stays visible.                                             *)
SyncDirectory(p) ==
    /\ At(p, "dirsync")
    /\ \/ /\ durable' = Len(versions)
          /\ acked' = Later(acked, proc[p].at)
          /\ End(p)
       \/ Goto(p, "discard") /\ UNCHANGED <<durable, acked>>
    /\ UNCHANGED <<versions, files, lists, used>>

(* A failed save removes its temporary file, which may fail too.           *)
Discard(p) ==
    /\ At(p, "discard")
    /\ \E gone \in SUBSET {Temp(p)} :
          /\ temps' = temps \ gone
          /\ aged' = aged \ gone
    /\ End(p)
    /\ UNCHANGED <<store, lists, used>>
----------------------------------------------------------------------------
(* The surroundings.  The clock of a device that boots without one jumps   *)
(* forward, so that a file just written can be older than 24 hours.        *)

Kill(p) ==
    /\ ~At(p, "ended")
    /\ End(p)
    /\ UNCHANGED <<store, files, lists, used>>

Age ==
    /\ aged # temps
    /\ aged' = temps
    /\ UNCHANGED <<store, temps, lists, proc, used>>

Edit ==
    /\ Uses("edits", MaxEdits)
    /\ \E e \in EditedEntries :
          versions' = Append(versions, [entry |-> e, flushed |-> TRUE])
    /\ UNCHANGED <<durable, acked, files, lists, proc>>

EditLists ==
    /\ Uses("edits", MaxEdits)
    /\ \E file \in {"bundled", "persistent"}, l \in Lists :
          lists' = Append(lists, [NowLists EXCEPT ![file] = l])
    /\ UNCHANGED <<store, files, proc>>

(* What a power loss leaves of a file that was renamed before its data     *)
(* reached the disk cannot be told.                                        *)
Survives(version) ==
    IF version.flushed THEN version
    ELSE [version EXCEPT !.entry = Entry(Torn, FALSE)]

PowerLoss ==
    /\ Uses("losses", MaxLosses)
    /\ \E k \in durable .. Len(versions) :
          /\ versions' = Append(SubSeq(versions, 1, k - 1), Survives(versions[k]))
          /\ durable' = k
    /\ temps' \in SUBSET (temps \cup {Temp(p) : p \in {q \in Pids : At(q, "dirsync")}})
    /\ aged' = aged \cap temps'
    /\ proc' = [p \in Pids |-> Ended]
    /\ UNCHANGED <<acked, lists>>

Step(p) ==
    \/ Begin(p) \/ CleanTemps(p)
    \/ ReadMain(p) \/ StatMissing(p) \/ ReadBundled(p) \/ ReadPersistent(p)
    \/ Leave(p)
    \/ CheckTarget(p) \/ Create(p) \/ Write(p) \/ Flush(p) \/ Rename(p)
    \/ SyncDirectory(p) \/ Discard(p)

Next ==
    \/ \E p \in Pids : Step(p) \/ Kill(p)
    \/ Age \/ Edit \/ EditLists \/ PowerLoss

Spec == Init /\ [][Next]_vars
----------------------------------------------------------------------------
(* What a reader of the file has seen so far.                              *)
Visible == [i \in DOMAIN versions |-> versions[i].entry]

AtomicFile == INSTANCE AtomicStore WITH
    Contents <- Entries,
    versions <- Visible

(* The promise of atomic_write: what a process reads is always a content   *)
(* that the user, a merge or a reset put there whole, in their order, and  *)
(* no power loss takes back a save that was reported as done, whatever     *)
(* other processes were killed, cleaned up or saved meanwhile.             *)
SavesAreAtomic == AtomicFile!Spec

(* What a save puts into the file, and what a boot or a hot operation acts *)
(* on, comes from the file as it was at some moment of the call: every     *)
(* part that the patch leaves out has the value it had there, the defaults *)
(* stand only for a file that was not there, never for one that could not  *)
(* be parsed, and a module is let through only if both blacklists, each as *)
(* it parsed at some moment of the call, let it through.                   *)
Within(seq, first) == {seq[i] : i \in first .. Len(seq)}

Basis(entry, op) ==
    IF entry.content = Missing /\ (op \in Strict => ~entry.link)
    THEN Default ELSE entry.content

LeftAlone(config, basis, patch) ==
    /\ IsConfig(basis)
    /\ patch.mode = Keep => config.mode = basis.mode
    /\ patch.settings = Keep => config.settings = basis.settings
    /\ \A m \in Modules, part \in {"mode", "paths"} :
          (m \in DOMAIN patch.rules => patch.rules[m][part] = Keep)
             => config.rules[m][part] = (IF patch.replace THEN NoRule[part]
                                         ELSE basis.rules[m][part])

Merged(p) ==
    /\ proc[p].op = "save"
    /\ proc[p].pc \in {"check", "create", "write", "flush", "rename"}

ActedOn(p) == Merged(p) \/ At(p, "loaded")

LoadsAreFounded ==
    \A p \in {q \in Pids : ActedOn(q)} :
       /\ \/ proc[p].op = "show"
          \/ \E version \in Within(versions, proc[p].from) :
                LeftAlone(proc[p].config,
                          Basis(version.entry, proc[p].op), proc[p].patch)
       /\ \E one, other \in Within(lists, proc[p].listsFrom) :
             /\ Garbled \notin {one.bundled, other.persistent}
             /\ proc[p].black = one.bundled \cup other.persistent
=============================================================================
