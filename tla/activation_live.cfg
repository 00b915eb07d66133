SPECIFICATION FairSpec
CONSTANTS
    N = 2
    Root = {r1}
    Version = {v1, v2}
    Content = {new, newer}
    v1 = v1
    v2 = v2
    new = new
    newer = newer
    Desired <- MCDesired
    Absent = Absent
    Unsafe = Unsafe
    NoManifest = NoManifest
    NoJob = NoJob
    EditTo = {newer, Absent, Unsafe}
    TamperTo = {newer}
    EditsRace = FALSE
    MayCrash = FALSE
PROPERTIES
    PreparedIsSettled
