SPECIFICATION AgentSpec
CONSTANTS
    CodexFiles <- MCCodexFiles
    ClaudeFiles <- MCClaudeFiles
    FromText <- MCFromText
    Rev = {r1, r2}
    Tree <- MCTree
    BranchOf <- MCBranchOf
    Enrollment <- MCEnrollment
    Origin = "governance"
    Job = {j1}
    EditTo <- MCEditTo
    TouchTo = {Absent}
    MaxTouched = 1
    MayCrash = TRUE
    Absent = Absent
    Unsafe = Unsafe
    Truncated = Truncated
    Missing = Missing
    Unread = Unread
    r1 = r1
    r2 = r2
    t1 = t1
    t2 = t2
    Body = {a1, a2, c1, c2, half, own, ownClaude, binary, Empty}
    Facts <- MCFacts
    NoFile = NoFile
    Empty = Empty
    Profile <- MCProfile
    Malformed = Malformed
    Repository <- MCRepository
    LeftIn <- MCLeftIn
    Role = {"agents", "claude"}
    NoProfile = NoProfile
    a1 = a1
    a2 = a2
    c1 = c1
    c2 = c2
    half = half
    own = own
    ownClaude = ownClaude
    binary = binary
INVARIANTS
    BundleIsWhole
    AttestedIsCommitted
    ReadyIsCommitted
    SuccessIsProjected
    AgainChangesNothing
PROPERTIES
    StagedIsKept
    HandWrittenIsKept
