SPECIFICATION StandardsSpec
CONSTANTS
    Id = {a, b}
    Relation = {t, u}
    Authority = {old, new}
    old = old
    new = new
    Record = {activation}
    Disposition = {"delete", "retain_product_record"}
    Gate = {"none", "post_upgrade"}
    Declarations <- MCDeclarations
    NoRow = NoRow
    MaxCommits = 4
    Target = {t1}
    Edge = {"table", "view"}
    Revision = {1, 2}
    Reviewed <- MCReviewed
    Careful = {2}
    ChangeTo <- MCChangeTo
    MaxLog = 4
SYMMETRY Symmetry
INVARIANTS
    RetirementsAreOneWay
    NothingVanishes
    IdentitiesAreReserved
    LedgerTellsTheBranch
    CompletionIsReal
    NoTryIsHidden
PROPERTIES
    ImplementsLife
CHECK_DEADLOCK FALSE
