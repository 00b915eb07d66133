SPECIFICATION Spec
CONSTANTS
    Receipt = {a, b, c}
    Body = {good}
    WellFormed = {good}
    NoFile = NoFile
    Nobody = Nobody
    Branch = {p, q}
    MaxChanges <- MCMaxChanges
SYMMETRY Symmetry
INVARIANTS
    EveryReceiptHasOneCurrent
    EveryReceiptStands
PROPERTIES
    MainIsAppendOnly
