------------------------- MODULE MC_RetirementLedger -------------------------
EXTENDS RetirementLedger, TLC

CONSTANTS old, new

MCDeclarations == {{old}, {old, new}}

Symmetry == Permutations(Id) \cup Permutations(Relation)

=============================================================================
