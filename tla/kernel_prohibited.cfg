SPECIFICATION EvaluationSpec
CONSTANTS
    file = file
    test = test
    Path = {file, test}
    Texts <- MCTexts
    Checkout <- MCCheckout
    Role <- MCRole
    Floor <- MCFloor
    Proof <- MCProof
    PrivateName = {"_tx", "_x"}
    NoCatalogue = NoCatalogue
    NoAll = NoAll
    First <- MCStart
    MaxDay = 1
INVARIANT
    ProhibitedIsNotReached
