SPECIFICATION Spec
CONSTANTS
    c1 = c1
    c2 = c2
    c3 = c3
    g1 = g1
    g2 = g2
    held1 = held1
    held2 = held2
    good = good
    bad = bad
    Commit = {c1, c2, c3}
    GovCommit = {g1, g2}
    Profile <- MCProfile
    Declaration <- MCDeclaration
    Source = {good, bad}
    Held = {held1, held2}
    Tree <- MCTree
    GovTree <- MCGovTree
    Before <- MCBefore
    Passing <- MCPassing
    Unreadable = Unreadable
    Nothing = Nothing
    Restores = TRUE
INVARIANT
    CitedIsCommitted
