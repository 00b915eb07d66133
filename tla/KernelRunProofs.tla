--------------------------- MODULE KernelRunProofs ---------------------------
(***************************************************************************)
(* What the runner's order of reads buys, for every product and every      *)
(* Governance: with HEAD still and no edit taken back during a run, asking *)
(* last whether the checkouts are clean vouches for all that was read.     *)
(***************************************************************************)
EXTENDS KernelEvaluation, KernelRun, FiniteSetTheorems, TLAPS

(* A run is under way: what it reads still may change under it.            *)
Live == step \notin {"idle", "judge"}

(* A value read from a checkout is HEAD's, or the checkout now differs     *)
(* from HEAD where it was read.                                            *)
Vouched(read, now, committed) == read \in {Nothing, committed} \/ now # committed

Tracks ==
    /\ seen.governance \in {Nothing, govHead}
    /\ seen.product \in {Nothing, head}
    /\ Vouched(seen.code, govWork, GovTree[govHead])
    /\ Vouched(seen.evidence, govWork, GovTree[govHead])
    /\ Vouched(seen.pinned, work.profile, Tree[head].profile)
    /\ Vouched(seen.bound, work.profile, Tree[head].profile)
    /\ Vouched(seen.declaration, work.declaration, Tree[head].declaration)
    /\ Vouched(seen.source, work.source, Tree[head].source)

(* The answer about the Governance checkout, once it is given.             *)
GovernanceVouched ==
    step = "status" /\ seen.govClean =>
        seen.code = GovTree[seen.governance] /\ seen.evidence = GovTree[seen.governance]

(* The fields a step finds filled in.                                      *)
ReadInOrder ==
    /\ seen.code # Nothing
    /\ step # "governance" => seen.governance # Nothing
    /\ step \notin {"governance", "product"} => seen.product # Nothing
    /\ step \notin {"governance", "product", "pin"} =>
           seen.pinned # Nothing
    /\ step \notin {"governance", "product", "pin", "binding"} =>
           seen.bound # Nothing
    /\ step \notin {"governance", "product", "pin", "binding", "declaration"} =>
           seen.declaration # Nothing
    /\ step \in {"observe", "ancestry", "govstatus", "status"} =>
           seen.evidence # Nothing
    /\ step \in {"ancestry", "govstatus", "status"} => seen.source # Nothing

Reported ==
    step = "judge" /\ produced /\ seen.govClean /\ seen.clean => MeasuredIsNamed

Running == Live => Tracks /\ ReadInOrder /\ GovernanceVouched

Ended == step = "idle" \/ verdict = "none"

IInv == TypeOK /\ Running /\ Reported /\ Ended /\ CitedIsCommitted

-----------------------------------------------------------------------------

(* A report of which nothing is read yet is well typed.                    *)
LEMMA BlankType == Blank \in Reading
    BY DEF Blank, Reading, Ancestry

(* The recorded values keep their types: the reads write what the          *)
(* checkouts hold, and the judge writes a verdict.                         *)
LEMMA TypeStep == TypeOK /\ [Next]_vars => TypeOK'
<1> SUFFICES ASSUME TypeOK, [Next]_vars
             PROVE  TypeOK'
    OBVIOUS
<1> USE FormAssumption, CommitAssumption, UnreadAssumption
<1>1. CASE Start
    <2>1. [Blank EXCEPT !.code = govWork] \in Reading
        BY BlankType DEF TypeOK, Reading
    <2>2. QED BY <1>1, <2>1 DEF TypeOK, Start, world, Step, Verdict
<1>2. CASE NameGovernance
    BY <1>2 DEF TypeOK, Reading, NameGovernance, Read, world, Step
<1>3. CASE NameProduct
    BY <1>3 DEF TypeOK, Reading, NameProduct, Read, world, Step
<1>4. CASE EstablishProvenance
    BY <1>4 DEF TypeOK, Reading, EstablishProvenance, Read, world, Step, Files
<1>5. CASE ReadBinding
    BY <1>5 DEF TypeOK, Reading, ReadBinding, Read, world, Step, Files
<1>6. CASE ReadDeclaration
    BY <1>6 DEF TypeOK, Reading, ReadDeclaration, Read, world, Step, Files
<1>7. CASE SnapshotEvidence
    BY <1>7 DEF TypeOK, Reading, SnapshotEvidence, Read, world, Step
<1>8. CASE Observe
    BY <1>8 DEF TypeOK, Reading, Observe, Read, world, Step, Files
<1>9. CASE AskAncestry
    BY <1>9 DEF TypeOK, Reading, AskAncestry, Ancestor, Ancestry, Read, world, Step
<1>10. CASE GovernanceStatus
    <2>1. PICK b \in BOOLEAN : seen' = [seen EXCEPT !.govClean = b]
        BY <1>10, Zenon DEF GovernanceStatus, Read
    <2>2. QED BY <1>10, <2>1 DEF TypeOK, Reading, GovernanceStatus, Read, world, Step
<1>11. CASE ProductStatus
    <2>1. PICK b \in BOOLEAN : seen' = [seen EXCEPT !.clean = b]
        BY <1>11, Zenon DEF ProductStatus
    <2>2. QED BY <1>11, <2>1 DEF TypeOK, Reading, ProductStatus, world, Step
<1>12. CASE Refuse
    BY <1>12 DEF TypeOK, Refuse, End, world, Step, Verdict
<1>13. CASE Judge
    BY <1>13 DEF TypeOK, Judge, End, world, Step, Verdict
<1>14. ASSUME NEW g \in GovCommit, NEW p \in Commit, NEW d \in Declaration,
              HandBuild(g, p, d)
       PROVE  TypeOK'
    <2>1. /\ Tree[p].profile \in Profile
          /\ Tree[p].source \in Source
          /\ GovTree[g] \in Held
        BY DEF Files
    <2>2. QED
        BY <1>14, <2>1 DEF TypeOK, HandBuild, Reading, world, Step, Verdict, Ancestry
<1>15. ASSUME NEW value \in Profile, Edit("profile", value)
       PROVE  TypeOK'
    BY <1>15 DEF TypeOK, Edit, Files
<1>16. ASSUME NEW value \in Declaration \cup {Unreadable}, Edit("declaration", value)
       PROVE  TypeOK'
    BY <1>16 DEF TypeOK, Edit, Files
<1>17. ASSUME NEW value \in Source, Edit("source", value)
       PROVE  TypeOK'
    BY <1>17 DEF TypeOK, Edit, Files
<1>18. ASSUME NEW h \in Held, EditGovernance(h)
       PROVE  TypeOK'
    BY <1>18 DEF TypeOK, EditGovernance
<1>19. ASSUME NEW c \in Commit, Move(c)
       PROVE  TypeOK'
    BY <1>19 DEF TypeOK, Move
<1>20. ASSUME NEW g \in GovCommit, MoveGovernance(g)
       PROVE  TypeOK'
    BY <1>20 DEF TypeOK, MoveGovernance
<1>21. CASE Deepen
    BY <1>21 DEF TypeOK, Deepen
<1>22. CASE UNCHANGED vars
    BY <1>22 DEF TypeOK, vars, world
<1>23. QED
    BY <1>1, <1>2, <1>3, <1>4, <1>5, <1>6, <1>7, <1>8, <1>9, <1>10, <1>11,
       <1>12, <1>13, <1>14, <1>15, <1>16, <1>17, <1>18, <1>19, <1>20, <1>21,
       <1>22 DEF Next

(* Every state of a run is of its type.                                    *)
THEOREM TypeCorrect == Spec => []TypeOK
<1>1. Init => TypeOK
    BY CommitAssumption, BlankType DEF Init, TypeOK, Step, Verdict
<1>2. QED
    BY <1>1, TypeStep, PTL DEF Spec
-----------------------------------------------------------------------------

(* The step of a read, from any state of a run to a later one.             *)
ReadStep ==
    \/ Start \/ NameGovernance \/ NameProduct \/ EstablishProvenance
    \/ ReadBinding \/ ReadDeclaration \/ SnapshotEvidence \/ Observe
    \/ AskAncestry \/ GovernanceStatus

(* A read takes HEAD's value or vouches for a difference that is there;    *)
(* the status of the Governance checkout turns what is vouched for into    *)
(* what is committed.                                                      *)
LEMMA ReadKeeps ==
    ASSUME IInv, TypeOK', ReadStep
    PROVE  IInv'
<1> USE FormAssumption, CommitAssumption, UnreadAssumption
<1>1. /\ Live' /\ UNCHANGED world
      /\ verdict' = "none"
    BY DEF IInv, Ended, ReadStep, Live, Start, NameGovernance, NameProduct,
           EstablishProvenance, ReadBinding, ReadDeclaration, SnapshotEvidence,
           Observe, AskAncestry, GovernanceStatus, Read, world
<1>2. Tracks' /\ ReadInOrder' /\ GovernanceVouched'
  <2>1. CASE Start
    <3>1. seen' = [Blank EXCEPT !.code = govWork] /\ step' = "governance"
        BY <2>1 DEF Start
    <3>2. QED
        BY <3>1, <1>1 DEF Tracks, ReadInOrder, GovernanceVouched, Vouched, Blank,
                          world, IInv, TypeOK
  <2> USE DEF Live, Running, Tracks, ReadInOrder, GovernanceVouched, Vouched, Read,
              world, IInv, TypeOK, Reading
  <2>2. CASE NameGovernance
    BY <2>2, <1>1 DEF NameGovernance
  <2>3. CASE NameProduct
    BY <2>3, <1>1 DEF NameProduct
  <2>4. CASE EstablishProvenance
    BY <2>4, <1>1 DEF EstablishProvenance, Files
  <2>5. CASE ReadBinding
    BY <2>5, <1>1 DEF ReadBinding, Files
  <2>6. CASE ReadDeclaration
    BY <2>6, <1>1 DEF ReadDeclaration, Files
  <2>7. CASE SnapshotEvidence
    BY <2>7, <1>1 DEF SnapshotEvidence
  <2>8. CASE Observe
    BY <2>8, <1>1 DEF Observe, Files
  <2>9. CASE AskAncestry
    BY <2>9, <1>1 DEF AskAncestry
  <2>10. CASE GovernanceStatus
    BY <2>10, <1>1 DEF GovernanceStatus
  <2>11. QED
    BY <2>1, <2>2, <2>3, <2>4, <2>5, <2>6, <2>7, <2>8, <2>9, <2>10 DEF ReadStep
<1>3. QED
    BY <1>1, <1>2 DEF IInv, Running, Reported, Live, Ended, CitedIsCommitted
(* A clean product and the vouched Governance checkout make the report one *)
(* about what its two revisions hold.                                      *)
LEMMA StatusKeeps ==
    ASSUME IInv, TypeOK', ProductStatus
    PROVE  IInv'
<1> USE FormAssumption, CommitAssumption, UnreadAssumption
<1>1. /\ step = "status" /\ step' = "judge" /\ UNCHANGED <<world, verdict>>
      /\ Tracks /\ ReadInOrder /\ GovernanceVouched
      /\ verdict = "none"
    BY DEF ProductStatus, IInv, Running, Live, Ended
<1>2. PICK b \in BOOLEAN : /\ seen' = [seen EXCEPT !.clean = b]
                           /\ b => work = Tree[head]
    BY Zenon DEF ProductStatus
<1>3. seen'.clean => work = Tree[head]
    BY <1>2 DEF IInv, TypeOK, Reading
<1>4. seen.governance = govHead /\ seen.product = head
    BY <1>1 DEF Tracks, ReadInOrder
<1>5. ASSUME seen'.govClean, seen'.clean
      PROVE  MeasuredIsNamed'
  <2>1. /\ seen.pinned = Tree[head].profile
        /\ seen.bound = Tree[head].profile
        /\ seen.declaration = Tree[head].declaration
        /\ seen.source = Tree[head].source
    BY <1>1, <1>3, <1>5 DEF Tracks, Vouched, ReadInOrder
  <2>2. seen.govClean
    BY <1>2, <1>5 DEF IInv, TypeOK, Reading
  <2>3. /\ seen.code = GovTree[seen.governance]
        /\ seen.evidence = GovTree[seen.governance]
    BY <1>1, <2>2 DEF GovernanceVouched
  <2>4. QED
    BY <1>2, <1>4, <2>1, <2>3 DEF MeasuredIsNamed, IInv, TypeOK, Reading
<1>6. QED
    BY <1>1, <1>5 DEF IInv, Running, Live, Reported, Ended, CitedIsCommitted

(* Judging cites only a report of run(), which is about committed bytes.   *)
LEMMA JudgeKeeps ==
    ASSUME IInv, TypeOK', Judge
    PROVE  IInv'
<1>1. step = "judge" /\ step' = "idle" /\ UNCHANGED <<seen, produced>>
    BY DEF Judge, End
<1>2. verdict' = "citable" => Citable(seen)
    BY Zenon DEF Judge, End
<1>3. Citable(seen) => MeasuredIsNamed
    BY <1>1 DEF Citable, WellFormed, IInv, Reported
<1>4. MeasuredIsNamed => MeasuredIsNamed'
    BY <1>1 DEF MeasuredIsNamed
<1>5. QED
    BY <1>1, <1>2, <1>3, <1>4
       DEF IInv, Running, Live, Reported, Ended, CitedIsCommitted

(* What developers do during a run, with Restores off.                     *)
EditStep ==
    \/ \E value \in Profile : Edit("profile", value)
    \/ \E value \in Declaration \cup {Unreadable} : Edit("declaration", value)
    \/ \E value \in Source : Edit("source", value)
    \/ \E h \in Held : EditGovernance(h)
    \/ \E c \in Commit : Move(c)
    \/ \E g \in GovCommit : MoveGovernance(g)
    \/ Deepen

(* An edit during a run only adds to what differs from HEAD.               *)
LEMMA EditKeeps ==
    ASSUME ~Restores, IInv, TypeOK', EditStep
    PROVE  IInv'
<1>1. UNCHANGED <<step, seen, produced, verdict>>
    BY DEF EditStep, Edit, EditGovernance, Move, MoveGovernance, Deepen
<1>2. ASSUME Live PROVE Tracks'
  <2>1. step # "idle"
    BY <1>2 DEF Live
  <2>2. Tracks
    BY <1>2 DEF IInv, Running
  <2> USE <1>1, <2>1, <2>2 DEF Tracks, Vouched, IInv, TypeOK, Files
  <2>3. ASSUME NEW value \in Profile, Edit("profile", value) PROVE Tracks'
    BY <2>3 DEF Edit
  <2>4. ASSUME NEW value \in Declaration \cup {Unreadable},
               Edit("declaration", value)
        PROVE  Tracks'
    BY <2>4 DEF Edit
  <2>5. ASSUME NEW value \in Source, Edit("source", value) PROVE Tracks'
    BY <2>5 DEF Edit
  <2>6. ASSUME NEW h \in Held, EditGovernance(h) PROVE Tracks'
    BY <2>6 DEF EditGovernance
  <2>7. CASE Deepen
    BY <2>7 DEF Deepen
  <2>8. QED
    BY <2>1, <2>3, <2>4, <2>5, <2>6, <2>7 DEF EditStep, Move, MoveGovernance
<1>3. ASSUME Live PROVE ReadInOrder' /\ GovernanceVouched'
    BY <1>1, <1>3 DEF IInv, Running, ReadInOrder, GovernanceVouched
<1>4. MeasuredIsNamed <=> MeasuredIsNamed'
    BY <1>1 DEF MeasuredIsNamed
<1>5. QED
    BY <1>1, <1>2, <1>3, <1>4
       DEF IInv, Running, Live, Reported, Ended, CitedIsCommitted

(* Every step keeps the invariant, one lemma or one line per kind of step. *)
LEMMA InvariantStep ==
    ASSUME ~Restores, IInv, [Next]_vars
    PROVE  IInv'
<1>1. TypeOK'
    BY TypeStep DEF IInv
<1>2. CASE ReadStep
    BY <1>1, <1>2, ReadKeeps
<1>3. CASE ProductStatus
    BY <1>1, <1>3, StatusKeeps
<1>4. CASE Refuse
    BY <1>1, <1>4 DEF Refuse, End, IInv, Running, Live, Reported, Ended,
                      CitedIsCommitted
<1>5. CASE Judge
    BY <1>1, <1>5, JudgeKeeps
<1>6. ASSUME NEW g \in GovCommit, NEW p \in Commit, NEW d \in Declaration,
             HandBuild(g, p, d)
      PROVE  IInv'
    BY <1>1, <1>6 DEF HandBuild, IInv, Running, Live, Reported, Ended,
                      CitedIsCommitted
<1>7. CASE EditStep
    BY <1>1, <1>7, EditKeeps
<1>8. CASE UNCHANGED vars
    BY <1>1, <1>8 DEF vars, world, IInv, Running, Live, Tracks, ReadInOrder,
                      GovernanceVouched, Reported, Ended, CitedIsCommitted,
                      MeasuredIsNamed
<1>9. QED
    BY <1>2, <1>3, <1>4, <1>5, <1>6, <1>7, <1>8 DEF Next, ReadStep, EditStep

(* The inductive invariant holds throughout.                               *)
LEMMA Invariance == ~Restores => (Spec => []IInv)
<1> SUFFICES ASSUME ~Restores PROVE Spec => []IInv
    OBVIOUS
<1>1. Init => IInv
    <2> SUFFICES ASSUME Init PROVE IInv
        OBVIOUS
    <2>1. TypeOK
        BY CommitAssumption, BlankType DEF Init, TypeOK, Step, Verdict
    <2>2. QED
        BY <2>1 DEF Init, IInv, Running, Live, Reported, Ended, CitedIsCommitted
<1>2. IInv /\ [Next]_vars => IInv'
    BY InvariantStep
<1>3. QED
    BY <1>1, <1>2, PTL DEF Spec

(* With HEAD still and no edit taken back during a run, whatever edits are *)
(* made around its reads, a cited report is about committed bytes.         *)
THEOREM CitedAreCommitted == ~Restores => (Spec => []CitedIsCommitted)
<1>1. IInv => CitedIsCommitted
    BY DEF IInv
<1>2. QED
    BY <1>1, Invariance, PTL

-----------------------------------------------------------------------------

(* What the run asked of the pieces it read.                               *)
Asked ==
    /\ seen.pinned # Nothing => seen.pinned.pin = seen.governance
    /\ seen.declaration # Nothing => BoundContract(seen.bound, seen.declaration)
    /\ seen.ancestor = "yes" =>
           /\ <<seen.declaration.predecessor, seen.product>> \in Before
           /\ seen.declaration.predecessor # seen.product

(* The pieces a step is ahead of.                                          *)
NotYet ==
    /\ step \in {"governance", "product", "pin"} => seen.pinned = Nothing
    /\ step \in {"governance", "product", "pin", "binding", "declaration"} =>
           seen.declaration = Nothing
    /\ step \notin {"govstatus", "status"} => seen.ancestor # "yes"

AInv ==
    /\ Live => Asked /\ NotYet
    /\ step = "judge" /\ produced =>
           Asked /\ seen.pinned # Nothing /\ seen.declaration # Nothing
    /\ CitedIsAgreed

(* Citing a report about committed bytes makes what was asked of the       *)
(* pieces true of the commits.                                             *)
LEMMA JudgeAgrees ==
    ASSUME IInv, AInv, Judge
    PROVE  AInv'
<1>1. step = "judge" /\ step' = "idle" /\ UNCHANGED <<seen, produced>>
    BY DEF Judge, End
<1>2. ASSUME verdict' = "citable"
      PROVE  /\ Asked /\ MeasuredIsNamed /\ Conforms(seen)
             /\ seen.pinned # Nothing /\ seen.declaration # Nothing
  <2>1. Citable(seen)
    BY <1>2, Zenon DEF Judge, End
  <2>2. QED
    BY <1>1, <2>1 DEF AInv, IInv, Reported, Citable, WellFormed
<1>3. ASSUME verdict' = "citable" PROVE CitedIsAgreed'
  <2> DEFINE files == Tree[seen.product]
  <2>1. /\ files.profile = seen.pinned /\ files.profile = seen.bound
        /\ files.declaration = seen.declaration
    BY <1>2, <1>3 DEF MeasuredIsNamed
  <2>2. QED
    BY <1>1, <1>2, <1>3, <2>1 DEF CitedIsAgreed, Asked, Conforms
<1>4. QED
    BY <1>1, <1>3 DEF AInv, Live, CitedIsAgreed

(* Each read asks its question of what it reads.                           *)
LEMMA ReadAsks ==
    ASSUME IInv, AInv, ReadStep
    PROVE  AInv'
<1> USE FormAssumption, CommitAssumption, UnreadAssumption
<1>1. step' \notin {"idle", "judge"} /\ verdict' = "none"
    BY DEF IInv, Ended, ReadStep, Live, Start, NameGovernance, NameProduct,
           EstablishProvenance, ReadBinding, ReadDeclaration, SnapshotEvidence,
           Observe, AskAncestry, GovernanceStatus, Read
<1>2. Asked' /\ NotYet'
  <2>1. CASE Start
    <3>1. seen' = [Blank EXCEPT !.code = govWork]
        BY <2>1 DEF Start
    <3>2. QED
        BY <3>1 DEF Asked, NotYet, Blank
  <2> USE DEF Asked, NotYet, AInv, Live, Read, IInv, TypeOK, Reading
  <2>2. CASE NameGovernance
    BY <2>2 DEF NameGovernance
  <2>3. CASE NameProduct
    BY <2>3 DEF NameProduct
  <2>4. CASE EstablishProvenance
    BY <2>4 DEF EstablishProvenance, Pinned
  <2>5. CASE ReadBinding
    BY <2>5 DEF ReadBinding
  <2>6. CASE ReadDeclaration
    BY <2>6 DEF ReadDeclaration
  <2>7. CASE SnapshotEvidence
    BY <2>7 DEF SnapshotEvidence
  <2>8. CASE Observe
    BY <2>8 DEF Observe
  <2>9. CASE AskAncestry
    BY <2>9 DEF AskAncestry, Ancestor
  <2>10. CASE GovernanceStatus
    BY <2>10 DEF GovernanceStatus
  <2>11. QED
    BY <2>1, <2>2, <2>3, <2>4, <2>5, <2>6, <2>7, <2>8, <2>9, <2>10 DEF ReadStep
<1>3. QED
    BY <1>1, <1>2 DEF AInv, Live, CitedIsAgreed

(* The last answer takes nothing back.                                     *)
LEMMA StatusAgrees ==
    ASSUME IInv, AInv, ProductStatus
    PROVE  AInv'
<1>1. /\ step = "status" /\ step' = "judge" /\ verdict' = "none"
      /\ Asked /\ ReadInOrder
    BY DEF ProductStatus, IInv, AInv, Running, Live, Ended
<1>2. PICK b \in BOOLEAN : seen' = [seen EXCEPT !.clean = b]
    BY Zenon DEF ProductStatus
<1>3. Asked' /\ seen'.pinned # Nothing /\ seen'.declaration # Nothing
    BY <1>1, <1>2 DEF Asked, ReadInOrder, IInv, TypeOK, Reading
<1>4. QED
    BY <1>1, <1>3 DEF AInv, Live, CitedIsAgreed

(* Every step keeps what was asked, and the agreement of a cited report.   *)
LEMMA AgreementStep ==
    ASSUME IInv, AInv, [Next]_vars
    PROVE  AInv'
<1>1. CASE ReadStep
    BY <1>1, ReadAsks
<1>2. CASE ProductStatus
    BY <1>2, StatusAgrees
<1>3. CASE Refuse
    BY <1>3 DEF Refuse, End, AInv, Live, CitedIsAgreed
<1>4. CASE Judge
    BY <1>4, JudgeAgrees
<1>5. ASSUME NEW g \in GovCommit, NEW p \in Commit, NEW d \in Declaration,
             HandBuild(g, p, d)
      PROVE  AInv'
    BY <1>5 DEF HandBuild, AInv, Live, CitedIsAgreed
<1>6. CASE EditStep \/ UNCHANGED vars
  <2>1. UNCHANGED <<step, seen, produced, verdict>>
    BY <1>6 DEF EditStep, Edit, EditGovernance, Move, MoveGovernance, Deepen,
                vars
  <2>2. QED
    BY <2>1 DEF AInv, Live, Asked, NotYet, CitedIsAgreed
<1>7. QED
    BY <1>1, <1>2, <1>3, <1>4, <1>5, <1>6 DEF Next, ReadStep, EditStep

(* Under the same premise, what a cited report claims of the agreement of  *)
(* the two repositories is true of the commits it names.                   *)
THEOREM CitedAreAgreed == ~Restores => (Spec => []CitedIsAgreed)
<1> SUFFICES ASSUME ~Restores PROVE Spec => []CitedIsAgreed
    OBVIOUS
<1>1. Init => AInv
    BY DEF Init, AInv, Live, CitedIsAgreed
<1>2. IInv /\ AInv /\ [Next]_vars => AInv'
    BY AgreementStep
<1>3. AInv => CitedIsAgreed
    BY DEF AInv
<1>4. QED
    BY <1>1, <1>2, <1>3, Invariance, PTL DEF Spec

-----------------------------------------------------------------------------
(* The audit                                                               *)

(* When a report is judged, HEAD is still where the run found it.          *)
HeadsAreStill ==
    step = "judge" /\ produced => seen.governance = govHead /\ seen.product = head

LEMMA HeadsStep ==
    ASSUME ~Restores, IInv, HeadsAreStill, [Next]_vars
    PROVE  HeadsAreStill'
<1>1. CASE ReadStep
    BY <1>1 DEF IInv, Ended, ReadStep, Start, NameGovernance, NameProduct,
           EstablishProvenance, ReadBinding, ReadDeclaration, SnapshotEvidence,
           Observe, AskAncestry, GovernanceStatus, Read, HeadsAreStill
<1>2. CASE ProductStatus
  <2>1. PICK b \in BOOLEAN : seen' = [seen EXCEPT !.clean = b]
    BY <1>2, Zenon DEF ProductStatus
  <2>2. seen.governance = govHead /\ seen.product = head /\ UNCHANGED world
    BY <1>2 DEF ProductStatus, IInv, Running, Live, Tracks, ReadInOrder
  <2> QED BY <2>1, <2>2 DEF HeadsAreStill, world, IInv, TypeOK, Reading
<1>3. CASE Refuse \/ Judge
    BY <1>3 DEF Refuse, Judge, End, HeadsAreStill
<1>4. ASSUME NEW g \in GovCommit, NEW p \in Commit, NEW d \in Declaration,
             HandBuild(g, p, d)
      PROVE  HeadsAreStill'
    BY <1>4 DEF HandBuild, HeadsAreStill
<1>5. CASE EditStep
    BY <1>5 DEF EditStep, Edit, EditGovernance, Move, MoveGovernance, Deepen,
                HeadsAreStill
<1>6. CASE UNCHANGED vars
    BY <1>6 DEF vars, world, HeadsAreStill
<1>7. QED
    BY <1>1, <1>2, <1>3, <1>4, <1>5, <1>6 DEF Next, ReadStep, EditStep

(* What is cited deserves it: the report is about the bytes of the two     *)
(* commits, and what was asked of the report was asked of them.            *)
LEMMA CitedDeserve ==
    ASSUME IInv, AInv, HeadsAreStill, step = "judge", Citable(seen)
    PROVE  <<govHead, head>> \in Deserving
<1> DEFINE files == Tree[head]
           held == GovTree[govHead]
<1>1. /\ MeasuredIsNamed /\ Asked /\ Conforms(seen)
      /\ seen.pinned # Nothing /\ seen.declaration # Nothing
      /\ seen.governance = govHead /\ seen.product = head
    BY DEF Citable, WellFormed, IInv, Reported, AInv, HeadsAreStill
<1>2. /\ seen.code = held /\ seen.evidence = held
      /\ seen.pinned = files.profile /\ seen.bound = files.profile
      /\ seen.declaration = files.declaration /\ seen.source = files.source
    BY <1>1 DEF MeasuredIsNamed
<1>3. files.declaration \in Declaration \cup {Unreadable}
    BY CommitAssumption DEF IInv, TypeOK, Files
<1>4. files.declaration \in Declaration
    BY <1>1, <1>2, <1>3 DEF Conforms
<1>5. files.declaration.applicable => IsV2(files.declaration)
    BY <1>2, <1>4, FormAssumption DEF Citable, IsV2, Contract
<1>6. QED
    BY <1>1, <1>2, <1>4, <1>5 DEF Deserving, Asked, Conforms, IInv, TypeOK

(* The judge looks, a new report withdraws, and no other step is seen but  *)
(* the moves of HEAD.                                                      *)
LEMMA StepImplements ==
    ASSUME IInv, AInv, HeadsAreStill, [Next]_vars, TypeOK'
    PROVE  [Audit!Next]_(Audit!vars)
<1>1. ASSUME UNCHANGED <<head, govHead>>, Cited' = {}
      PROVE  Audit!Next
    BY <1>1 DEF Audit!Next, Audit!Withdraw
<1>2. CASE ReadStep \/ ProductStatus \/ Refuse
    <2>1. UNCHANGED world /\ verdict' # "citable"
        BY <1>2 DEF IInv, Ended, ReadStep, Start, NameGovernance, NameProduct,
               EstablishProvenance, ReadBinding, ReadDeclaration, SnapshotEvidence,
               Observe, AskAncestry, GovernanceStatus, Read, ProductStatus, Refuse, End
    <2> QED BY <1>1, <2>1 DEF Cited, world
<1>3. ASSUME NEW g \in GovCommit, NEW p \in Commit, NEW d \in Declaration,
             HandBuild(g, p, d)
      PROVE  Audit!Next
    BY <1>1, <1>3 DEF HandBuild, Cited, world
<1>4. CASE Judge
    <2>1. /\ step = "judge" /\ verdict = "none"
          /\ UNCHANGED <<head, govHead, seen, produced>>
        BY <1>4 DEF Judge, End, IInv, Ended, world
    <2>2. CASE verdict' # "citable"
        BY <1>1, <2>1, <2>2 DEF Cited
    <2>3. CASE verdict' = "citable"
        <3>1. Citable(seen)
            BY <1>4, <2>3, Zenon DEF Judge, End
        <3>2. <<govHead, head>> \in Deserving
            BY <2>1, <3>1, CitedDeserve
        <3>3. seen.governance = govHead /\ seen.product = head
            BY <2>1, <3>1 DEF Citable, HeadsAreStill
        <3>4. Cited = {} /\ Cited' = {<<govHead, head>>}
            BY <2>1, <2>3, <3>3 DEF Cited
        <3> QED BY <2>1, <3>2, <3>4 DEF Audit!Next, Audit!Cite
    <2> QED BY <2>2, <2>3
<1>5. CASE EditStep
    <2>1. Cited' = Cited /\ (head' = head \/ govHead' = govHead)
        BY <1>5 DEF EditStep, Edit, EditGovernance, Move, MoveGovernance, Deepen, Cited
    <2>2. head' \in Commit /\ govHead' \in GovCommit
        BY DEF TypeOK
    <2> QED BY <2>1, <2>2 DEF Audit!Next, Audit!Move, Audit!MoveGovernance
<1>6. CASE UNCHANGED vars
    BY <1>6 DEF vars, world, Cited, Audit!vars
<1>7. QED
    BY <1>2, <1>3, <1>4, <1>5, <1>6 DEF Next, ReadStep, EditStep

(* With HEAD still and no edit taken back during a run, the many reads of  *)
(* a run are one look at two commits, for all products and Governances.    *)
THEOREM RunImplementsAudit == ~Restores => (Spec => ImplementsAudit)
<1> SUFFICES ASSUME ~Restores PROVE Spec => ImplementsAudit
    OBVIOUS
<1>1. Init => Audit!Init /\ AInv /\ HeadsAreStill
    BY DEF Init, Audit!Init, Cited, AInv, Live, CitedIsAgreed, HeadsAreStill
<1>2. IInv /\ AInv /\ [Next]_vars => AInv'
    BY AgreementStep
<1>3. IInv /\ HeadsAreStill /\ [Next]_vars => HeadsAreStill'
    BY HeadsStep
<1>4. IInv /\ IInv' /\ AInv /\ HeadsAreStill /\ [Next]_vars
          => [Audit!Next]_(Audit!vars)
    BY StepImplements DEF IInv
<1>5. QED
    BY <1>1, <1>2, <1>3, <1>4, Invariance, PTL
       DEF Spec, ImplementsAudit, Audit!Spec

-----------------------------------------------------------------------------
(* The evaluation                                                          *)

(* What is under Governance: sources that the constants know.              *)
EvaluationTypeOK ==
    /\ DOMAIN sources = Path /\ \A p \in Path : sources[p] \in Texts[p]
    /\ checkout \in Checkout
    /\ declaration.outcome = "present" => declaration.role \in Role

LEMMA EvaluationStaysTyped ==
    /\ EvaluationInit => EvaluationTypeOK
    /\ EvaluationTypeOK /\ [EvaluationNext]_evaluationVars => EvaluationTypeOK'
<1>1. EvaluationInit => EvaluationTypeOK
  BY EvaluationAssumption DEF EvaluationInit, EvaluationTypeOK
<1>2. EvaluationTypeOK /\ [EvaluationNext]_evaluationVars => EvaluationTypeOK'
  <2> SUFFICES ASSUME EvaluationTypeOK, [EvaluationNext]_evaluationVars
               PROVE  EvaluationTypeOK'
    OBVIOUS
  <2>1. ASSUME NEW p \in Path, NEW f \in Texts[p], EditSource(p, f)
        PROVE  EvaluationTypeOK'
    BY <2>1 DEF EditSource, EvaluationTypeOK
  <2>2. ASSUME NEW c, NEW b, NEW a, NEW r \in Role, NEW n, Declare(c, b, a, r, n)
        PROVE  EvaluationTypeOK'
    <3>1. Written(c, b, a, r, n).role = r
      BY DEF Written
    <3> QED BY <2>2, <3>1 DEF Declare, EvaluationTypeOK
  <2>3. ASSUME NEW o \in {"missing", "unreadable"}, Spoil(o) PROVE EvaluationTypeOK'
    <3>1. declaration'.outcome = o
      BY <2>3 DEF Spoil
    <3> QED BY <2>3, <3>1 DEF Spoil, EvaluationTypeOK
  <2>4. ASSUME NEW out \in Checkout, ObserveCheckout(out) PROVE EvaluationTypeOK'
    BY <2>4 DEF ObserveCheckout, EvaluationTypeOK
  <2>5. CASE PassDay \/ UNCHANGED evaluationVars
    BY <2>5 DEF PassDay, evaluationVars, EvaluationTypeOK
  <2> QED BY <2>1, <2>2, <2>3, <2>4, <2>5 DEF EvaluationNext
<1> QED BY <1>1, <1>2

(* Two sources with the same identity facts bind the same names.           *)
LEMMA FactsTell ==
    ASSUME NEW src, NEW other, IdentityFacts(src) = IdentityFacts(other),
           NEW p \in Path, NEW k
    PROVE  UNION {s.bindings : s \in Said(src, <<p, k>>)}
               = UNION {s.bindings : s \in Said(other, <<p, k>>)}
<1> DEFINE key == <<p, k>>
           Bound(x) == UNION {s.bindings : s \in Said(x, key)}
<1>1. Keys(src) = Keys(other)
  <2>1. DOMAIN IdentityFacts(src) = Keys(src) /\ DOMAIN IdentityFacts(other) = Keys(other)
    BY DEF IdentityFacts
  <2> QED BY <2>1
<1>2. CASE key \in Keys(src)
  <2>1. ASSUME NEW x, key \in Keys(x) PROVE IdentityFacts(x)[key].bindings = Bound(x)
    BY <2>1 DEF IdentityFacts
  <2> HIDE DEF Bound, key
  <2> QED BY <1>1, <1>2, <2>1 DEF Bound, key
<1>3. CASE key \notin Keys(src)
  <2>1. ASSUME NEW x, key \notin Keys(x) PROVE Said(x, key) = {}
    BY <2>1 DEF Said, Keys
  <2> QED BY <1>1, <1>3, <2>1
<1> QED BY <1>2, <1>3

(* Under the second canonicalization a product that passes before and      *)
(* after an edit binds the same Kernel names to the same local ones, for   *)
(* any sources and any Kernel: SourceSurface in engine.py.                 *)
THEOREM NoSilentEdit == EvaluationSpec => EditsAreDeclared
<1> DEFINE Kept ==
        declaration.outcome = "present" /\ declaration.applicable
        /\ declaration.contract = "v2" /\ declaration.algorithm = "surface-v2"
        /\ declaration' = declaration /\ Conforming /\ Conforming'
            => \A p \in Path, k \in DOMAIN declaration.role :
                   UNION {s.bindings : s \in Said(sources', <<p, k>>)}
                       = UNION {s.bindings : s \in Said(sources, <<p, k>>)}
<1>1. Kept
  <2> SUFFICES ASSUME declaration.applicable, declaration.contract = "v2",
                      declaration.algorithm = "surface-v2", declaration' = declaration,
                      Conforming, Conforming'
               PROVE  \A p \in Path, k \in DOMAIN declaration.role :
                          UNION {s.bindings : s \in Said(sources', <<p, k>>)}
                              = UNION {s.bindings : s \in Said(sources, <<p, k>>)}
    OBVIOUS
  <2>1. /\ IdentityFacts(sources) = declaration.digest
        /\ IdentityFacts(sources') = declaration.digest
    BY DEF Conforming, Evaluate, DeclarationHolds, SurfaceHolds, Digest
  <2>2. ASSUME NEW p \in Path, NEW k
        PROVE  UNION {s.bindings : s \in Said(sources', <<p, k>>)}
                   = UNION {s.bindings : s \in Said(sources, <<p, k>>)}
    <3>1. IdentityFacts(sources') = IdentityFacts(sources)
      BY <2>1
    <3> HIDE DEF Conforming
    <3> QED BY <3>1, FactsTell
  <2> QED BY Zenon, <2>2
<1>2. [EvaluationNext]_evaluationVars => [Kept]_evaluationVars
  BY <1>1
<1> QED BY <1>2, PTL DEF EvaluationSpec, EditsAreDeclared

(* Every statement of source f has one in source g that says the same of   *)
(* the same module, and another for every name it binds.                   *)
Covers(f, g) ==
    /\ f.readable = g.readable /\ f.all = g.all /\ f.reads = g.reads
    /\ f.mentions = g.mentions
    /\ \A s \in f.statements :
           /\ \E t \in g.statements :
                  t.module = s.module /\ t.plain = s.plain /\ t.star = s.star
           /\ \A b \in s.bindings : \E t \in g.statements :
                  /\ t.module = s.module /\ t.plain = s.plain /\ t.star = s.star
                  /\ b \in t.bindings

Similar(src, other) ==
    \A p \in Path : Covers(src[p], other[p]) /\ Covers(other[p], src[p])

LEMMA ImportsCover ==
    ASSUME NEW f, NEW g, DOMAIN f = {"readable", "statements", "all", "reads", "mentions"},
           DOMAIN g = {"readable", "statements", "all", "reads", "mentions"},
           Imported(f) = Imported(g),
           [f EXCEPT !.statements = {}] = [g EXCEPT !.statements = {}]
    PROVE  Covers(f, g)
<1> DEFINE Triple(s) == <<s.module, s.plain, s.star>>
           Of(s, b) == <<s.module, s.plain, s.star, b>>
<1>1. \A s \in f.statements : Triple(s) \in Imported(f)
  BY DEF Imported
<1>2. \A s \in f.statements : \A b \in s.bindings : Of(s, b) \in Imported(f)
  BY DEF Imported
<1>3. \A x \in Imported(g) : \E t \in g.statements :
          x = Triple(t) \/ \E b \in t.bindings : x = Of(t, b)
  BY DEF Imported
<1>4. ASSUME NEW s \in f.statements
      PROVE  \E t \in g.statements :
                 t.module = s.module /\ t.plain = s.plain /\ t.star = s.star
  <2>1. PICK t \in g.statements : Triple(s) = Triple(t) \/ \E b \in t.bindings : Triple(s) = Of(t, b)
    BY <1>1, <1>3
  <2>2. \A b : Triple(s) # Of(t, b)
    OBVIOUS
  <2>3. Triple(s) = Triple(t)
    BY <2>1, <2>2
  <2> QED BY <2>3
<1>5. ASSUME NEW s \in f.statements, NEW b \in s.bindings
      PROVE  \E t \in g.statements :
                 /\ t.module = s.module /\ t.plain = s.plain /\ t.star = s.star
                 /\ b \in t.bindings
  <2>1. PICK t \in g.statements : Of(s, b) = Triple(t) \/ \E c \in t.bindings : Of(s, b) = Of(t, c)
    BY <1>2, <1>3
  <2>2. Of(s, b) # Triple(t)
    OBVIOUS
  <2>3. PICK c \in t.bindings : Of(s, b) = Of(t, c)
    BY <2>1, <2>2
  <2> QED BY <2>3
<1>6. /\ f.readable = g.readable /\ f.all = g.all /\ f.reads = g.reads
      /\ f.mentions = g.mentions
  <2>1. ASSUME NEW x \in {"readable", "all", "reads", "mentions"}
        PROVE  f[x] = g[x]
    <3>1. [f EXCEPT !.statements = {}][x] = f[x] /\ [g EXCEPT !.statements = {}][x] = g[x]
      OBVIOUS
    <3> QED BY <3>1
  <2> QED BY <2>1
<1> QED BY <1>4, <1>5, <1>6 DEF Covers

(* What is folded over the statements is the same.                         *)
LEMMA SimilarFold ==
    ASSUME NEW src, NEW other, Similar(src, other)
    PROVE  /\ Keys(src) \subseteq Keys(other)
           /\ Observed(src) \subseteq Observed(other)
           /\ \A p \in Path : \A k :
                  /\ UNION {s.bindings : s \in Said(src, <<p, k>>)}
                        \subseteq UNION {s.bindings : s \in Said(other, <<p, k>>)}
                  /\ UNION {Locals(s) : s \in Said(src, <<p, k>>)}
                        \subseteq UNION {Locals(s) : s \in Said(other, <<p, k>>)}
                  /\ (\E s \in Said(src, <<p, k>>) : s.star)
                        => \E s \in Said(other, <<p, k>>) : s.star
<1>1. Keys(src) \subseteq Keys(other)
  BY DEF Keys, Similar, Covers
<1>2. Observed(src) \subseteq Observed(other)
  BY <1>1 DEF Observed
<1>3. ASSUME NEW p \in Path, NEW k, NEW s \in Said(src, <<p, k>>), NEW b \in s.bindings
      PROVE  \E t \in Said(other, <<p, k>>) : b \in t.bindings
  BY DEF Said, Similar, Covers
<1>4. ASSUME NEW p \in Path, NEW k, NEW s \in Said(src, <<p, k>>), s.star
      PROVE  \E t \in Said(other, <<p, k>>) : t.star
  BY <1>4 DEF Said, Similar, Covers
<1>5. ASSUME NEW p \in Path, NEW k
      PROVE  UNION {Locals(s) : s \in Said(src, <<p, k>>)}
                 \subseteq UNION {Locals(s) : s \in Said(other, <<p, k>>)}
  <2> SUFFICES ASSUME NEW s \in Said(src, <<p, k>>), NEW x \in Locals(s)
               PROVE  \E t \in Said(other, <<p, k>>) : x \in Locals(t)
    OBVIOUS
  <2>1. PICK b \in s.bindings : x = b[2]
    BY DEF Locals
  <2>2. PICK t \in Said(other, <<p, k>>) : b \in t.bindings
    BY <1>3
  <2> QED BY <2>1, <2>2 DEF Locals
<1> QED BY <1>1, <1>2, <1>3, <1>4, <1>5

LEMMA SimilarFacts ==
    ASSUME NEW src, NEW other, Similar(src, other)
    PROVE  /\ Keys(src) = Keys(other) /\ Observed(src) = Observed(other)
           /\ \A a : Digest(a, src) = Digest(a, other)
           /\ \A k, v2 : Uses(src, k, v2) = Uses(other, k, v2)
<1>1. Similar(other, src)
  BY DEF Similar
<1>2. Keys(src) = Keys(other) /\ Observed(src) = Observed(other)
  <2>1. Keys(src) \subseteq Keys(other) /\ Keys(other) \subseteq Keys(src)
    BY <1>1, SimilarFold
  <2>2. Keys(src) = Keys(other)
    BY <2>1
  <2> QED BY <2>2 DEF Observed
<1> DEFINE Bound(x, key) == UNION {s.bindings : s \in Said(x, key)}
           Local(x, key) == UNION {Locals(s) : s \in Said(x, key)}
           Star(x, key) == \E s \in Said(x, key) : s.star
<1>3. ASSUME NEW p \in Path, NEW k
      PROVE  /\ Bound(src, <<p, k>>) = Bound(other, <<p, k>>)
             /\ Local(src, <<p, k>>) = Local(other, <<p, k>>)
             /\ Star(src, <<p, k>>) = Star(other, <<p, k>>)
  <2>1. Bound(src, <<p, k>>) = Bound(other, <<p, k>>)
    BY <1>1, SimilarFold
  <2>2. Local(src, <<p, k>>) = Local(other, <<p, k>>)
    BY <1>1, SimilarFold
  <2>3. Star(src, <<p, k>>) = Star(other, <<p, k>>)
    BY <1>1, SimilarFold
  <2> QED BY <2>1, <2>2, <2>3
<1>4. \A key \in Keys(src) : \E p \in Path : \E k : key = <<p, k>>
  BY DEF Keys
<1>5. Facts(src) = Facts(other)
  <2>1. \A x : Facts(x) = [key \in Keys(x) |-> [symbols |-> Local(x, key), star |-> Star(x, key)]]
    BY DEF Facts
  <2> HIDE DEF Local, Star
  <2> QED BY <1>2, <1>3, <1>4, <2>1
<1>6. IdentityFacts(src) = IdentityFacts(other)
  <2>1. \A x : IdentityFacts(x) =
                   [key \in Keys(x) |-> [bindings |-> Bound(x, key), star |-> Star(x, key)]]
    BY DEF IdentityFacts
  <2> HIDE DEF Bound, Star
  <2> QED BY <1>2, <1>3, <1>4, <2>1
<1>7. ASSUME NEW k, NEW v2 PROVE Uses(src, k, v2) = Uses(other, k, v2)
  <2>1. \A x : Uses(x, k, v2) =
            UNION {{<<p, IF v2 THEN b[1] ELSE b[2]>> : b \in Bound(x, <<p, k>>)} : p \in Path}
    BY DEF Uses
  <2> HIDE DEF Bound
  <2>2. UNION {{<<p, IF v2 THEN b[1] ELSE b[2]>> : b \in Bound(src, <<p, k>>)} : p \in Path}
          = UNION {{<<p, IF v2 THEN b[1] ELSE b[2]>> : b \in Bound(other, <<p, k>>)} : p \in Path}
    <3> DEFINE In(x, p) == {<<p, IF v2 THEN b[1] ELSE b[2]>> : b \in Bound(x, <<p, k>>)}
    <3>1. \A p \in Path : In(src, p) = In(other, p)
      BY <1>3
    <3> HIDE DEF In
    <3>2. UNION {In(src, p) : p \in Path} = UNION {In(other, p) : p \in Path}
      BY <3>1
    <3> QED BY <3>2 DEF In
  <2> QED BY <2>1, <2>2
<1> QED BY <1>2, <1>5, <1>6, <1>7 DEF Digest

(* A source that covers another one stands wherever the other does.        *)
LEMMA CoveredHolds ==
    ASSUME NEW f, NEW g, NEW cat, NEW v2, Covers(f, g), Covers(g, f), SourceHolds(f, cat, v2)
    PROVE  SourceHolds(g, cat, v2)
<1>1. /\ g.readable /\ g.all = f.all /\ g.reads = f.reads
      /\ \A s \in f.statements : StatementHolds(f, s, cat, v2)
      /\ v2 /\ f.statements # {} => \A r \in f.reads : ReadHolds(f, r, cat)
  BY DEF SourceHolds, Covers
<1>2. ASSUME NEW t \in g.statements
      PROVE  /\ \E s \in f.statements :
                    s.module = t.module /\ s.plain = t.plain /\ s.star = t.star
             /\ \A b \in t.bindings : \E s \in f.statements :
                    /\ s.module = t.module /\ s.plain = t.plain /\ s.star = t.star
                    /\ b \in s.bindings
  BY DEF Covers
<1>3. ASSUME NEW t \in g.statements PROVE StatementHolds(g, t, cat, v2)
  <2>1. PICK s \in f.statements :
            s.module = t.module /\ s.plain = t.plain /\ s.star = t.star
    BY <1>2
  <2>2. StatementHolds(f, s, cat, v2)
    BY <1>1
  <2>3. ~IsPrivate(t.module) /\ cat # NoCatalogue /\ ~t.star
    BY <2>1, <2>2 DEF StatementHolds
  <2>4. ASSUME NEW n \in Names(t)
        PROVE  \E u \in f.statements : u.module = t.module /\ n \in Names(u)
    <3>1. ~t.plain /\ \E b \in t.bindings : n = b[1]
      BY DEF Names
    <3>2. PICK b \in t.bindings : n = b[1]
      BY <3>1
    <3>3. PICK u \in f.statements :
              u.module = t.module /\ u.plain = t.plain /\ b \in u.bindings
      BY <1>2
    <3>4. n \in Names(u)
      BY <3>1, <3>2, <3>3 DEF Names
    <3> QED BY <3>3, <3>4
  <2>5. ASSUME t.module = Root PROVE RootFacadeHolds(t, cat)
    <3>1. cat.rootExports # {}
      BY <2>1, <2>2, <2>5 DEF StatementHolds, RootFacadeHolds
    <3>2. ASSUME NEW n \in Names(t) PROVE n \in cat.rootExports \/ <<n>> \in cat.supported
      <4>1. PICK u \in f.statements : u.module = t.module /\ n \in Names(u)
        BY <2>4
      <4>2. RootFacadeHolds(u, cat)
        BY <1>1, <2>5, <4>1 DEF StatementHolds
      <4> QED BY <4>1, <4>2 DEF RootFacadeHolds
    <3> QED BY <3>1, <3>2 DEF RootFacadeHolds
  <2>6. ASSUME t.module # Root PROVE ModuleHolds(t, cat, v2)
    <3>1. ModuleHolds(s, cat, v2)
      BY <2>1, <2>2, <2>6 DEF StatementHolds
    <3>2. t.module \in Known(cat)
      BY <2>1, <3>1 DEF ModuleHolds
    <3>3. ASSUME v2, NEW n \in Names(t)
          PROVE  t.module \in DOMAIN cat.exports /\ n \in cat.exports[t.module]
      <4>1. PICK u \in f.statements : u.module = t.module /\ n \in Names(u)
        BY <2>4
      <4>2. ModuleHolds(u, cat, v2)
        BY <1>1, <2>6, <4>1 DEF StatementHolds
      <4>3. Exports(cat, u.module, Names(u))
        BY <3>3, <4>1, <4>2 DEF ModuleHolds
      <4> QED BY <4>1, <4>3 DEF Exports
    <3> QED BY <3>2, <3>3 DEF ModuleHolds, Exports
  <2>7. f.all # NoAll => Locals(t) \cap f.all = {}
    <3> SUFFICES ASSUME f.all # NoAll, NEW x \in Locals(t) PROVE x \notin f.all
      OBVIOUS
    <3>1. PICK b \in t.bindings : x = b[2]
      BY DEF Locals
    <3>2. PICK u \in f.statements : b \in u.bindings
      BY <1>2
    <3>3. x \in Locals(u)
      BY <3>1, <3>2 DEF Locals
    <3>4. StatementHolds(f, u, cat, v2)
      BY <1>1
    <3> QED BY <3>3, <3>4 DEF StatementHolds
  <2>8. IF t.module = Root THEN RootFacadeHolds(t, cat) ELSE ModuleHolds(t, cat, v2)
    BY <2>5, <2>6
  <2> QED BY <1>1, <2>3, <2>7, <2>8 DEF StatementHolds
<1>4. ASSUME NEW local, NEW k \in Aliased(g, cat, local) PROVE k \in Aliased(f, cat, local)
  <2> DEFINE Plain(x) == {IF local = RootName THEN Root ELSE s.module :
                              s \in {t \in x.statements : t.plain /\ local \in Locals(t)}}
             FromRoot(x) == {c \in UNION {t.bindings :
                                 t \in {u \in x.statements : u.module = Root /\ ~u.plain}} :
                                     c[2] = local /\ <<c[1]>> \in Known(cat)}
  <2>1. \A x : Aliased(x, cat, local) = Plain(x) \cup {<<b[1]>> : b \in FromRoot(x)}
    BY DEF Aliased
  <2>2. ASSUME k \in Plain(g) PROVE k \in Plain(f)
    <3>1. PICK t \in g.statements :
              /\ t.plain /\ local \in Locals(t)
              /\ k = IF local = RootName THEN Root ELSE t.module
      BY <2>2
    <3>2. PICK b \in t.bindings : local = b[2]
      BY <3>1 DEF Locals
    <3>3. PICK u \in f.statements : u.module = t.module /\ u.plain = t.plain /\ b \in u.bindings
      BY <1>2
    <3>4. local \in Locals(u)
      BY <3>2, <3>3 DEF Locals
    <3> QED BY <3>1, <3>3, <3>4
  <2>3. ASSUME NEW b \in FromRoot(g) PROVE b \in FromRoot(f)
    <3>1. /\ b[2] = local /\ <<b[1]>> \in Known(cat)
          /\ \E t \in g.statements : t.module = Root /\ ~t.plain /\ b \in t.bindings
      OBVIOUS
    <3>2. PICK t \in g.statements : t.module = Root /\ ~t.plain /\ b \in t.bindings
      BY <3>1
    <3>3. PICK u \in f.statements : u.module = t.module /\ u.plain = t.plain /\ b \in u.bindings
      BY <1>2, <3>2
    <3> QED BY <3>1, <3>2, <3>3
  <2> HIDE DEF Plain, FromRoot
  <2> QED BY <2>1, <2>2, <2>3
<1>5. ASSUME v2, g.statements # {}, NEW r \in g.reads PROVE ReadHolds(g, r, cat)
  <2>1. f.statements # {}
    BY <1>2, <1>5
  <2>2. ReadHolds(f, r, cat)
    BY <1>1, <1>5, <2>1
  <2> QED BY <1>4, <2>2 DEF ReadHolds
<1> QED BY <1>1, <1>3, <1>5 DEF SourceHolds

LEMMA SimilarHolds ==
    ASSUME NEW src, NEW other, Similar(src, other), NEW d, d.outcome = "present" => d.role \in Role,
           NEW out, NEW date, Evaluate(d, src, out, date)
    PROVE  Evaluate(d, other, out, date)
<1>1. /\ Keys(src) = Keys(other) /\ Observed(src) = Observed(other)
      /\ \A a : Digest(a, src) = Digest(a, other)
      /\ \A k, v2 : Uses(src, k, v2) = Uses(other, k, v2)
  BY SimilarFacts
<1>2. \A p \in Path : SourceHolds(other[p], out.catalogue, d.contract = "v2")
  <2> DEFINE v == d.contract = "v2"
  <2>1. \A p \in Path : SourceHolds(src[p], out.catalogue, v)
    BY DEF Evaluate
  <2> HIDE DEF v
  <2>2. \A p \in Path : SourceHolds(other[p], out.catalogue, v)
    BY <2>1, CoveredHolds DEF Similar
  <2> QED BY <2>2 DEF v
<1>3. SurfaceHolds(d, src) => SurfaceHolds(d, other)
  BY <1>1 DEF SurfaceHolds
<1>4. RequiredHolds(d, out.catalogue, src) => RequiredHolds(d, out.catalogue, other)
  <2>1. \A k \in InRole(d, "required") : Proof[k] \in Path
    BY EvaluationAssumption DEF Evaluate, InRole
  <2>2. \A p \in Path : src[p].mentions = other[p].mentions
    BY DEF Similar, Covers
  <2> QED BY <1>1, <2>1, <2>2 DEF RequiredHolds
<1>5. ProhibitedHolds(d, src) => ProhibitedHolds(d, other)
  BY <1>1 DEF ProhibitedHolds
<1>6. TransitionalHolds(d, src, date) => TransitionalHolds(d, other, date)
  <2> DEFINE v == d.contract = "v2"
  <2>1. \A k : Uses(src, k, v) = Uses(other, k, v)
    BY <1>1
  <2> HIDE DEF v
  <2> SUFFICES ASSUME TransitionalHolds(d, src, date),
                      NEW k \in InRole(d, "transitional")
               PROVE  date <= d.expiry /\ Uses(other, k, v) = d.baseline[k]
    BY DEF TransitionalHolds, v
  <2>2. date <= d.expiry /\ Uses(src, k, v) = d.baseline[k]
    BY DEF TransitionalHolds, v
  <2> QED BY <2>1, <2>2
<1>7. DeclarationHolds(d, src, out, date) => DeclarationHolds(d, other, out, date)
  BY <1>1, <1>3, <1>4, <1>5, <1>6 DEF DeclarationHolds
<1> QED BY <1>2, <1>7 DEF Evaluate

(* Splitting an import in two, or joining two, changes nothing that the    *)
(* evaluation finds, whatever the product imports.                         *)
THEOREM FormattingIsFree == EvaluationSpec => ReformattingMovesNothing
<1> DEFINE Still == Reformatted => Conforming' = Conforming
<1>1. EvaluationTypeOK /\ EvaluationTypeOK' => Still
  <2> SUFFICES ASSUME EvaluationTypeOK, EvaluationTypeOK', Reformatted
               PROVE  Conforming' = Conforming
    OBVIOUS
  <2>1. ASSUME NEW p \in Path
        PROVE  Covers(sources[p], sources'[p]) /\ Covers(sources'[p], sources[p])
    <3>1. /\ DOMAIN sources[p] = {"readable", "statements", "all", "reads", "mentions"}
          /\ DOMAIN sources'[p] = {"readable", "statements", "all", "reads", "mentions"}
      BY EvaluationAssumption DEF EvaluationTypeOK
    <3>2. /\ Imported(sources'[p]) = Imported(sources[p])
          /\ [sources'[p] EXCEPT !.statements = {}] = [sources[p] EXCEPT !.statements = {}]
      BY DEF Reformatted
    <3>3. Covers(sources[p], sources'[p])
      BY <3>1, <3>2, ImportsCover
    <3>4. Covers(sources'[p], sources[p])
      BY <3>1, <3>2, ImportsCover
    <3> QED BY <3>3, <3>4
  <2>2. Similar(sources, sources') /\ Similar(sources', sources)
    BY <2>1 DEF Similar
  <2>3. UNCHANGED <<declaration, checkout, day>>
    BY DEF Reformatted
  <2>4. declaration.outcome = "present" => declaration.role \in Role
    BY DEF EvaluationTypeOK
  <2>5. Evaluate(declaration, sources, checkout, day) =>
            Evaluate(declaration, sources', checkout, day)
    BY <2>2, <2>4, SimilarHolds
  <2>6. Evaluate(declaration, sources', checkout, day) =>
            Evaluate(declaration, sources, checkout, day)
    BY <2>2, <2>4, SimilarHolds
  <2>7. Conforming' <=> Evaluate(declaration, sources', checkout, day)
    BY <2>3 DEF Conforming
  <2>8. Conforming <=> Evaluate(declaration, sources, checkout, day)
    BY DEF Conforming
  <2>9. Conforming \in BOOLEAN /\ Conforming' \in BOOLEAN
    BY DEF Conforming, Evaluate
  <2> QED BY <2>5, <2>6, <2>7, <2>8, <2>9
<1>2. EvaluationTypeOK /\ EvaluationTypeOK' /\ [EvaluationNext]_evaluationVars
          => [Still]_evaluationVars
  BY <1>1
<1> QED
  BY <1>2, EvaluationStaysTyped, PTL DEF EvaluationSpec, ReformattingMovesNothing

(* What passes under the second contract is accounted for, whatever the    *)
(* product, its declaration and the Kernel have become: evaluate in        *)
(* engine.py.                                                              *)
THEOREM WhatPassesIsAccounted == EvaluationSpec => []ConformingIsAccounted
<1>1. EvaluationTypeOK => ConformingIsAccounted
  <2> SUFFICES ASSUME EvaluationTypeOK, Conforming, declaration.applicable,
                      declaration.contract = "v2"
               PROVE  ConformingIsAccounted
    BY DEF ConformingIsAccounted
  <2> DEFINE d == declaration
             cat == checkout.catalogue
             pins == checkout.pins
  <2>1. /\ d.outcome = "present" /\ d.role \in Role
        /\ \A p \in Path : \A s \in sources[p].statements :
               /\ StatementHolds(sources[p], s, cat, TRUE)
               /\ s.module \in Seq(STRING)
    BY EvaluationAssumption DEF Conforming, Evaluate, EvaluationTypeOK, SourceHolds
  <2>2. /\ PinsHold(d, pins) /\ CatalogueHolds(d, cat) /\ RequiredHolds(d, cat, sources)
        /\ ProhibitedHolds(d, sources) /\ TransitionalHolds(d, sources, day)
    BY DEF Conforming, Evaluate, DeclarationHolds
  <2>3. Cardinality({s.version : s \in pins}) = 1
    <3> DEFINE versions == {s.version : s \in pins}
               places == {s.place : s \in pins}
    <3>1. Cardinality(places) >= 2 /\ Cardinality(versions) <= 1
      BY <2>2 DEF PinsHold
    <3>2. IsFiniteSet(pins)
      BY EvaluationAssumption DEF EvaluationTypeOK
    <3>3. IsFiniteSet(versions)
      <4> DEFINE version == [s \in pins |-> s.version]
      <4>1. version \in Surjection(pins, versions)
        BY DEF Surjection
      <4> HIDE DEF version, versions, pins
      <4> QED BY <3>2, <4>1, FS_Surjection
    <3>4. pins # {}
      <4> SUFFICES ASSUME pins = {} PROVE FALSE
        OBVIOUS
      <4>1. places = {}
        OBVIOUS
      <4> HIDE DEF places
      <4> QED BY <3>1, <4>1, FS_EmptySet
    <3>5. versions # {}
      BY <3>4
    <3> HIDE DEF versions, pins
    <3>6. Cardinality(versions) \in Nat /\ Cardinality(versions) # 0
      BY <3>3, <3>5, FS_CardinalityType, FS_EmptySet
    <3> QED BY <3>1, <3>6 DEF versions, pins
  <2>4. ASSUME NEW p \in Path, NEW s \in sources[p].statements
        PROVE  /\ Publishes(d.binding, s.module)
               /\ d.role[s.module] \in {"required", "transitional"}
               /\ \A n \in 0 .. Len(s.module) :
                      LET top == SubSeq(s.module, 1, n)
                      IN  top \in DOMAIN d.role => d.role[top] # "prohibited"
               /\ d.role[s.module] = "transitional" =>
                      /\ day <= d.expiry
                      /\ \A b \in s.bindings : <<p, b[1]>> \in d.baseline[s.module]
    <3> DEFINE k == s.module
    <3>1. k \in Observed(sources) /\ k \in Seq(STRING)
      <4>1. <<p, k>> \in Keys(sources)
        BY DEF Keys
      <4>2. k \in Observed(sources)
        BY <4>1 DEF Observed
      <4>3. k \in Seq(STRING)
        BY <2>1
      <4> QED BY <4>2, <4>3
    <3>2. StatementHolds(sources[p], s, cat, TRUE)
      BY <2>1
    <3>3. Publishes(cat, k)
      BY <3>2 DEF StatementHolds, RootFacadeHolds, ModuleHolds, Publishes
    <3>4. Publishes(d.binding, k)
      <4>1. /\ d.binding.supported = cat.supported /\ d.binding.internal = cat.internal
            /\ d.binding.rootExports = cat.rootExports
        BY <2>2 DEF CatalogueHolds, Binding
      <4> QED BY <3>3, <4>1 DEF Publishes, Known
    <3>5. ASSUME NEW n \in 0 .. Len(k), SubSeq(k, 1, n) \in DOMAIN d.role,
                 d.role[SubSeq(k, 1, n)] = "prohibited"
          PROVE  FALSE
      <4> DEFINE top == SubSeq(k, 1, n)
      <4>1. Len(top) = n
        BY <3>1
      <4>2. Below(k, top)
        BY <4>1 DEF Below
      <4>3. top \in InRole(d, "prohibited")
        BY <3>5 DEF InRole
      <4> QED BY <2>2, <3>1, <4>2, <4>3 DEF ProhibitedHolds
    <3>6. d.role[k] # "prohibited"
      <4>1. Len(k) \in 0 .. Len(k) /\ SubSeq(k, 1, Len(k)) = k
        BY <3>1
      <4>2. k \in DOMAIN d.role
        BY <2>2, <3>1 DEF RequiredHolds
      <4> QED BY <3>5, <4>1, <4>2
    <3>7. d.role[k] \in {"required", "transitional"}
      <4>1. k \in DOMAIN d.role /\ d.role[k] # "none"
        BY <2>2, <3>1 DEF RequiredHolds
      <4>2. d.role[k] \in {"none", "required", "transitional", "prohibited"}
        BY <2>1, <4>1, EvaluationAssumption
      <4> QED BY <3>6, <4>1, <4>2
    <3>8. ASSUME d.role[k] = "transitional"
          PROVE  /\ day <= d.expiry
                 /\ \A b \in s.bindings : <<p, b[1]>> \in d.baseline[k]
      <4>1. k \in InRole(d, "transitional")
        BY <2>2, <3>1, <3>8 DEF RequiredHolds, InRole
      <4>2. day <= d.expiry /\ Uses(sources, k, TRUE) = d.baseline[k]
        BY <2>2, <4>1 DEF TransitionalHolds
      <4>3. \A b \in s.bindings : <<p, b[1]>> \in Uses(sources, k, TRUE)
        <5> SUFFICES ASSUME NEW b \in s.bindings
                     PROVE  <<p, b[1]>> \in Uses(sources, k, TRUE)
          OBVIOUS
        <5>1. b \in UNION {t.bindings : t \in Said(sources, <<p, k>>)}
          BY DEF Said
        <5> QED BY <5>1 DEF Uses
      <4> QED BY <4>2, <4>3
    <3> QED BY <3>4, <3>5, <3>7, <3>8
  <2> QED BY <2>3, <2>4 DEF ConformingIsAccounted
<1> QED BY <1>1, EvaluationStaysTyped, PTL DEF EvaluationSpec

=============================================================================
