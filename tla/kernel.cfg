SPECIFICATION KernelSpec
CONSTANTS
    c1 = c1
    c2 = c2
    c3 = c3
    g1 = g1
    g2 = g2
    held1 = held1
    held2 = held2
    good = good
    bad = bad
    Commit = {c1, c2, c3}
    GovCommit = {g1, g2}
    Profile <- MCProfile
    Declaration <- MCDeclaration
    Source = {good, bad}
    Held = {held1, held2}
    Tree <- MCTree
    GovTree <- MCGovTree
    Before <- MCBefore
    Passing <- MCPassing
    Unreadable = Unreadable
    Nothing = Nothing
    Restores = FALSE
    file = file
    test = test
    Path = {file, test}
    Texts <- MCTexts
    Checkout <- MCCheckout
    Role <- MCRole
    Floor <- MCFloor
    Proof <- MCProof
    PrivateName = {"_tx", "_x"}
    NoCatalogue = NoCatalogue
    NoAll = NoAll
    First <- MCStart
    MaxDay = 1
INVARIANTS
    CitedIsCommitted
    CitedIsAgreed
    ConformingIsAccounted
PROPERTIES
    ImplementsAudit
    ReformattingMovesNothing
    EditsAreDeclared
