SPECIFICATION Spec
CONSTANTS
    p1 = p1  p2 = p2  m1 = m1
    Overlay = Overlay  Vfs = Vfs  Tmpfs = Tmpfs  Ext4 = Ext4
    SomePath = SomePath  NoPaths = NoPaths
    Unset = Unset  Keep = Keep  Ignore = Ignore
    Missing = Missing  Garbled = Garbled  Torn = Torn
    Pids = {p1, p2}
    Modules = {m1}
    Modes = {Overlay, Vfs}
    Settings = {Tmpfs, Ext4}
    PathRules = {NoPaths, SomePath}
    DefaultMode = Overlay
    DefaultSettings = Ext4
    Patches <- MCPatches
    InitialEntries <- MCInitial
    EditedEntries <- MCEdited
    Lists <- MCLists
    MaxAttempts = 2
    MaxOps = 2
    MaxEdits = 1
    MaxLosses = 1
CHECK_DEADLOCK FALSE
SYMMETRY PidSymmetry
INVARIANT LoadsAreFounded
PROPERTY SavesAreAtomic
