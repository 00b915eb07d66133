SPECIFICATION Spec
CONSTANTS
    Id = {a}
    Relation = {t}
    Authority = {old, new}
    old = old
    new = new
    Record = {activation}
    Disposition = {"delete", "retain_product_record"}
    Gate = {"none", "post_upgrade"}
    Declarations <- MCDeclarations
    NoRow = NoRow
    MaxCommits = 5
SYMMETRY Symmetry
INVARIANTS
    RelabellingDischargesNothing
CHECK_DEADLOCK FALSE
