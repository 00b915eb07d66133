----------------------------- MODULE MC_Standards -----------------------------
(* What standards_control judges over time: the retirement ledger of a     *)
(* branch, and the evidence of its teardowns.  They share no variable; one *)
(* run checks them side by side, and the initial state picks the one that  *)
(* moves.                                                                  *)
EXTENDS MC_RetirementLedger, TeardownEvidence

(* Each revision of the product declares the table alone.                  *)
MCReviewed == [r \in Revision |-> {"table"}]

MCChangeTo == {{"table"}, {"table", "view"}}

VARIABLE subject   \* the component that moves

standardsVars == <<main, teardownVars, subject>>

(* What a component is that does not move.                                 *)
LedgerIdle == main = <<Empty({old})>>

TeardownIdle == head = 1 /\ catalogue = [t \in Target |-> {"table"}]

StandardsInit ==
    /\ \/ subject = "ledger" /\ TeardownIdle
       \/ subject = "teardown" /\ LedgerIdle
    /\ Init /\ TeardownInit

Commits ==
    /\ subject = "ledger"
    /\ Next
    /\ UNCHANGED <<teardownVars, subject>>

TearsDown ==
    /\ subject = "teardown"
    /\ TeardownNext
    /\ UNCHANGED <<main, subject>>

StandardsNext == Commits \/ TearsDown

StandardsSpec == StandardsInit /\ [][StandardsNext]_standardsVars

=============================================================================
