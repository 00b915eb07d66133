------------------------------ MODULE CommitAudit ------------------------------
(***************************************************************************)
(* What a citation of the kernel-adoption runner promises its reader.  The *)
(* run reads two checkouts piece by piece while others work in them; the   *)
(* reader may think of one look, at one instant, at the two commits that   *)
(* were checked out then, and of nothing else: what the two commits hold   *)
(* decides, and no other commit, edit or earlier report comes into it.     *)
(***************************************************************************)
CONSTANTS Commit, GovCommit, Deserving

VARIABLES
    head,      \* the product's HEAD
    govHead,   \* the Governance checkout's HEAD
    cited      \* the citation that stands, if any: <<Governance, product>>

vars == <<head, govHead, cited>>

Init ==
    /\ head \in Commit
    /\ govHead \in GovCommit
    /\ cited = {}

(* The look at the two commits.                                            *)
Cite ==
    /\ cited = {}
    /\ <<govHead, head>> \in Deserving
    /\ cited' = {<<govHead, head>>}
    /\ UNCHANGED <<head, govHead>>

(* The next run, or the next caller, starts without a citation.            *)
Withdraw ==
    /\ cited' = {}
    /\ UNCHANGED <<head, govHead>>

(* HEAD moves, which takes no citation back.                               *)
Move ==
    /\ head' \in Commit
    /\ UNCHANGED <<govHead, cited>>

MoveGovernance ==
    /\ govHead' \in GovCommit
    /\ UNCHANGED <<head, cited>>

Next == Withdraw \/ Move \/ MoveGovernance \/ Cite

Spec == Init /\ [][Next]_vars

=============================================================================
