-------------------------- MODULE MC_ReceiptRegistry --------------------------
EXTENDS ReceiptRegistry, TLC

(* Two changes at a time where branches must be up to date, else one.      *)
MCMaxChanges == [s \in BOOLEAN |-> IF s THEN 2 ELSE 1]

Symmetry == Permutations(Receipt) \cup Permutations(Branch)

=============================================================================
