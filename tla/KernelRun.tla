------------------------------- MODULE KernelRun -------------------------------
(***************************************************************************)
(* One run of kernel_adoption_control/runner.py over a product checkout,   *)
(* with a Governance checkout beside it, whose code measures.  run() names *)
(* the two revisions first, then reads the checkouts piece by piece, and   *)
(* asks last whether they are clean; citability() and main() turn the      *)
(* report into the verdict a CI job exits with.  Around a run, developers  *)
(* edit the checkouts and move HEAD.                                       *)
(*                                                                         *)
(* A product checkout is its conformance profile, its declaration and its  *)
(* source; a Governance checkout is one value, read once when the code is  *)
(* imported and once when the release evidence is snapshotted.             *)
(***************************************************************************)
EXTENDS Naturals

CONSTANTS
    Commit,       \* commits of the product
    GovCommit,    \* commits of Governance
    Profile,      \* profiles: the Governance they pin, the contract they bind
    Declaration,  \* declarations a parser accepts
    Source,       \* source inventories an observer may find
    Held,         \* what a Governance checkout may hold
    Tree,         \* Tree[c]: the files of product commit c
    GovTree,      \* GovTree[g]: the files of Governance commit g
    Before,       \* strict ancestry of product commits
    Passing,      \* <<code, evidence, declaration, source>> without an error
    Unreadable,   \* a declaration that is missing, empty or unparsable
    Nothing,      \* a field that has not been read
    Restores      \* may a checkout change back, or HEAD move, during a run?

Contract == {"v1", "v2"}
Files == [profile : Profile, declaration : Declaration \cup {Unreadable},
          source : Source]
Part  == {"profile", "declaration", "source"}
Verdict == {"citable", "violations", "refused", "uncitable"}

ASSUME FormAssumption ==
    /\ Profile \subseteq [pin : GovCommit, binds : Contract \cup {"none"}]
    /\ Declaration \subseteq
           [contract : Contract, applicable : BOOLEAN, predecessor : Commit]
    /\ Unreadable \notin Declaration
ASSUME CommitAssumption ==
    /\ Tree \in [Commit -> Files]
    /\ GovTree \in [GovCommit -> Held]
    /\ Before \subseteq Commit \X Commit
ASSUME UnreadAssumption ==
    Nothing \notin Commit \cup GovCommit \cup Held \cup Profile \cup Source
                    \cup Declaration \cup {Unreadable}
ASSUME RestoresAssumption == Restores \in BOOLEAN

VARIABLES
    head,      \* the product's HEAD
    work,      \* the product's working tree
    govHead,   \* the Governance checkout's HEAD
    govWork,   \* its working tree
    shallow,   \* is the product checkout a shallow clone?
    step,      \* what the run reads next
    seen,      \* what it has read, which its report carries
    produced,  \* did run() of this process make the report?
    verdict    \* how the last run ended

world == <<head, work, govHead, govWork, shallow>>
vars  == <<world, step, seen, produced, verdict>>

Step == {"idle", "governance", "product", "pin", "binding", "declaration",
         "evidence", "observe", "ancestry", "govstatus", "status", "judge"}

Ancestry == {"yes", "no", "undecided"}

Reading ==
    [code : Held \cup {Nothing}, governance : GovCommit \cup {Nothing},
     product : Commit \cup {Nothing}, pinned : Profile \cup {Nothing},
     bound : Profile \cup {Nothing},
     declaration : Declaration \cup {Unreadable, Nothing},
     evidence : Held \cup {Nothing}, source : Source \cup {Nothing},
     ancestor : Ancestry, govClean : BOOLEAN, clean : BOOLEAN]

Blank == [code |-> Nothing, governance |-> Nothing, product |-> Nothing,
          pinned |-> Nothing, bound |-> Nothing, declaration |-> Nothing,
          evidence |-> Nothing, source |-> Nothing, ancestor |-> "undecided",
          govClean |-> FALSE, clean |-> FALSE]

Init ==
    /\ head \in Commit
    /\ work = Tree[head]
    /\ govHead \in GovCommit
    /\ govWork = GovTree[govHead]
    /\ shallow \in BOOLEAN
    /\ step = "idle"
    /\ seen = Blank
    /\ produced = FALSE
    /\ verdict = "none"

-----------------------------------------------------------------------------
(* run()                                                                   *)

Read(field, value, next) ==
    /\ seen' = [seen EXCEPT ![field] = value]
    /\ step' = next
    /\ UNCHANGED <<world, produced, verdict>>

End(v) ==
    /\ step' = "idle"
    /\ verdict' = v
    /\ UNCHANGED <<world, seen, produced>>

(* The interpreter imports the package from the Governance checkout.       *)
Start ==
    /\ step = "idle"
    /\ step' = "governance"
    /\ seen' = [Blank EXCEPT !.code = govWork]
    /\ produced' = FALSE
    /\ verdict' = "none"
    /\ UNCHANGED world

NameGovernance == step = "governance" /\ Read("governance", govHead, "product")
NameProduct    == step = "product" /\ Read("product", head, "pin")

(* A bug of provenance: any pinned revision will do.                       *)
AnyPin(p) == p.pin \in GovCommit

Pinned(p) == p.pin = seen.governance

EstablishProvenance ==
    /\ step = "pin"
    /\ Pinned(work.profile)
    /\ Read("pinned", work.profile, "binding")

(* The profile is read a second time, for the contract it binds.           *)
ReadBinding == step = "binding" /\ Read("bound", work.profile, "declaration")

BoundContract(p, d) == d \in Declaration => p.binds \in {"none", d.contract}

ReadDeclaration ==
    /\ step = "declaration"
    /\ BoundContract(seen.bound, work.declaration)
    /\ Read("declaration", work.declaration, "evidence")

SnapshotEvidence == step = "evidence" /\ Read("evidence", govWork, "observe")

IsV2(d) == d # Unreadable /\ d.contract = "v2"

Observe ==
    /\ step = "observe"
    /\ Read("source", work.source,
            IF IsV2(seen.declaration) THEN "ancestry" ELSE "govstatus")

Ancestor(declared, measured) ==
    IF declared = measured THEN "no"
    ELSE IF shallow THEN "undecided"
    ELSE IF <<declared, measured>> \in Before THEN "yes" ELSE "no"

AskAncestry ==
    /\ step = "ancestry"
    /\ Read("ancestor", Ancestor(seen.declaration.predecessor, seen.product),
            "govstatus")

GovernanceStatus ==
    /\ step = "govstatus"
    /\ Read("govClean", govWork = GovTree[govHead], "status")

(* The report is built from the last answer and entered in _PRODUCED.      *)
ProductStatus ==
    /\ step = "status"
    /\ seen' = [seen EXCEPT !.clean = (work = Tree[head])]
    /\ step' = "judge"
    /\ produced' = TRUE
    /\ UNCHANGED <<world, verdict>>

(* A RunnerError at any step: a pin or contract that disagrees, a git call *)
(* that fails, an unreadable profile, an observer that raises or reports a *)
(* catalogue Governance does not hold.                                     *)
Refuse == step \notin {"idle", "judge"} /\ End("refused")

-----------------------------------------------------------------------------
(* citability() and main()                                                 *)

(* A bug of the evaluation: an ancestry nobody could decide counts as one. *)
ConformsUnlessDenied(s) ==
    /\ s.declaration # Unreadable
    /\ <<s.code, s.evidence, s.declaration, s.source>> \in Passing
    /\ IsV2(s.declaration) => s.ancestor # "no"

Conforms(s) ==
    /\ s.declaration # Unreadable
    /\ <<s.code, s.evidence, s.declaration, s.source>> \in Passing
    /\ IsV2(s.declaration) => s.ancestor = "yes"

(* What inspect_report_document accepts, of a report that conforms.        *)
WellFormed(s) == s.govClean /\ s.clean /\ Conforms(s)

(* A bug of citability: whoever constructs a report may cite it.           *)
CitableAsWritten(s) ==
    /\ WellFormed(s)
    /\ s.declaration.applicable => s.declaration.contract # "v1"

Citable(s) ==
    /\ produced
    /\ WellFormed(s)
    /\ s.declaration.applicable => s.declaration.contract # "v1"

Judge ==
    /\ step = "judge"
    /\ End(IF ~Conforms(seen) THEN "violations"
           ELSE IF ~Citable(seen) THEN "uncitable"
           ELSE "citable")

(* A caller builds a report by hand, after the two commits but with the    *)
(* declaration the caller likes, and has it judged.                        *)
HandBuild(g, p, d) ==
    /\ step = "idle"
    /\ seen' = [code |-> GovTree[g], governance |-> g, product |-> p,
                pinned |-> Tree[p].profile, bound |-> Tree[p].profile,
                declaration |-> d, evidence |-> GovTree[g], source |-> Tree[p].source,
                ancestor |-> "yes", govClean |-> TRUE, clean |-> TRUE]
    /\ step' = "judge"
    /\ produced' = FALSE
    /\ verdict' = "none"
    /\ UNCHANGED world

-----------------------------------------------------------------------------
(* The checkouts                                                           *)

(* An edit leaves a part unlike HEAD's, unless work may be restored.       *)
Edit(part, value) ==
    /\ work[part] # value
    /\ step = "idle" \/ Restores \/ value # Tree[head][part]
    /\ work' = [work EXCEPT ![part] = value]
    /\ UNCHANGED <<head, govHead, govWork, shallow, step, seen, produced, verdict>>

EditGovernance(h) ==
    /\ govWork # h
    /\ step = "idle" \/ Restores \/ h # GovTree[govHead]
    /\ govWork' = h
    /\ UNCHANGED <<head, work, govHead, shallow, step, seen, produced, verdict>>

(* A checkout replaces the tree; a soft reset leaves it.                   *)
Move(c) ==
    /\ c # head
    /\ step = "idle" \/ Restores
    /\ head' = c
    /\ work' \in {work, Tree[c]}
    /\ UNCHANGED <<govHead, govWork, shallow, step, seen, produced, verdict>>

MoveGovernance(g) ==
    /\ g # govHead
    /\ step = "idle" \/ Restores
    /\ govHead' = g
    /\ govWork' \in {govWork, GovTree[g]}
    /\ UNCHANGED <<head, work, shallow, step, seen, produced, verdict>>

(* git fetch --unshallow                                                   *)
Deepen ==
    /\ shallow
    /\ shallow' = FALSE
    /\ UNCHANGED <<head, work, govHead, govWork, step, seen, produced, verdict>>

Next ==
    \/ Start \/ NameGovernance \/ NameProduct \/ EstablishProvenance
    \/ ReadBinding \/ ReadDeclaration \/ SnapshotEvidence \/ Observe
    \/ AskAncestry \/ GovernanceStatus \/ ProductStatus
    \/ Refuse \/ Judge
    \/ \E g \in GovCommit, p \in Commit, d \in Declaration : HandBuild(g, p, d)
    \/ \E value \in Profile : Edit("profile", value)
    \/ \E value \in Declaration \cup {Unreadable} : Edit("declaration", value)
    \/ \E value \in Source : Edit("source", value)
    \/ \E h \in Held : EditGovernance(h)
    \/ \E c \in Commit : Move(c)
    \/ \E g \in GovCommit : MoveGovernance(g)
    \/ Deepen

Spec == Init /\ [][Next]_vars

-----------------------------------------------------------------------------
(* Properties                                                              *)

(* The values the state variables range over.                              *)
TypeOK ==
    /\ head \in Commit
    /\ work \in Files
    /\ govHead \in GovCommit
    /\ govWork \in Held
    /\ shallow \in BOOLEAN
    /\ step \in Step
    /\ seen \in Reading
    /\ produced \in BOOLEAN
    /\ verdict \in Verdict \cup {"none"}

(* Everything the report rests on is what its two revisions hold: the code *)
(* that measured, the evidence, and each piece of the product, although    *)
(* they were read one after another from checkouts others edit.            *)
MeasuredIsNamed ==
    /\ seen.code = GovTree[seen.governance]
    /\ seen.evidence = GovTree[seen.governance]
    /\ seen.pinned = Tree[seen.product].profile
    /\ seen.bound = Tree[seen.product].profile
    /\ seen.declaration = Tree[seen.product].declaration
    /\ seen.source = Tree[seen.product].source

(* A run exits 0, and a report is cited, only if it is about the very      *)
(* bytes of the revisions it names.                                        *)
CitedIsCommitted == verdict = "citable" => MeasuredIsNamed

(* A cited product commit, as committed, agrees to be measured by the      *)
(* cited Governance commit, states the contract it binds, and anchors a    *)
(* successor declaration at a strict ancestor of itself.                   *)
CitedIsAgreed ==
    verdict = "citable" =>
        LET files == Tree[seen.product]
        IN  /\ files.profile.pin = seen.governance
            /\ BoundContract(files.profile, files.declaration)
            /\ IsV2(files.declaration) =>
                   <<files.declaration.predecessor, seen.product>> \in Before

(* The two commits that may be cited, each by what it holds.               *)
Deserving ==
    {pair \in GovCommit \X Commit :
        LET held  == GovTree[pair[1]]
            files == Tree[pair[2]]
        IN  /\ files.profile.pin = pair[1]
            /\ files.declaration # Unreadable
            /\ BoundContract(files.profile, files.declaration)
            /\ <<held, held, files.declaration, files.source>> \in Passing
            /\ files.declaration.applicable => IsV2(files.declaration)
            /\ IsV2(files.declaration) =>
                   /\ files.declaration.predecessor # pair[2]
                   /\ <<files.declaration.predecessor, pair[2]>> \in Before}

Cited == IF verdict = "citable" THEN {<<seen.governance, seen.product>>} ELSE {}

Audit == INSTANCE CommitAudit WITH cited <- Cited

(* The run of many reads implements one look at two commits: whatever is   *)
(* read in which order, from checkouts edited meanwhile, a citation names  *)
(* two commits that are both HEAD at one instant and that deserve it.      *)
ImplementsAudit == Audit!Spec

=============================================================================
