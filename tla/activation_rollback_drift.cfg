SPECIFICATION Spec
CONSTANTS
    N = 2
    Root = {r1}
    Version = {v1, v2}
    Content = {old, new, newer}
    v1 = v1
    v2 = v2
    new = new
    newer = newer
    Desired <- MCDesired
    Absent = Absent
    Unsafe = Unsafe
    NoManifest = NoManifest
    NoJob = NoJob
    EditTo = {old, new, newer, Absent, Unsafe}
    TamperTo = {old, new, newer, Absent}
    EditsRace = TRUE
    MayCrash = FALSE
PROPERTIES
    RollbackOverwritesOnlyMatches
