SPECIFICATION ChecksSpec
CONSTANTS
    Node = {n1, n2, n3}
    Control = {"c1", "c2"}
    Cohort = {"h1", "h2"}
    Component = {"k1", "k2", "k3"}
    Decision = {"d"}
    Requires <- MCRequires
    Blocks <- MCBlocks
    ControlState = {"none", "blocked", "in-progress", "verified", "superseded"}
    First <- MCFirst
    Gate = {"g1", "g2"}
    MaxReported = 3
    Source = {a, b, c}
    Traits <- MCTraits
INVARIANTS
    OrderDoesNotMatter
    MeasuredReachesOnlyMeasured
    ExclusionsBeginAtTests
    ReasonsAreTrue
    ExclusionsMoveNoTrace
    NamesTheStuck
    TheGateCanOpen
    RequirementsComeFirst
    CodeTellsWhy
PROPERTIES
    ScopeTerminates
    NothingReportedUnblocks
    ChannelsAgree
CHECK_DEADLOCK FALSE
