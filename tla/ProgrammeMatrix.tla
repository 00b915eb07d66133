---------------------------- MODULE ProgrammeMatrix ----------------------------
(***************************************************************************)
(* A programme matrix and the decision record it points at, in the         *)
(* Governance repository.  Pull requests amend a control, the cutover      *)
(* gate, a cohort, the place of a capability, a decision, the status or    *)
(* the record, and are merged when programme_control accepts the checkout  *)
(* they leave.                                                             *)
(*                                                                         *)
(* A matrix is what the rules read of it.  Its lists of rows are functions *)
(* and relations, so a duplicate identifier, which every list refuses, is  *)
(* not an input.                                                           *)
(***************************************************************************)
EXTENDS ControlCycles, FiniteSets

CONSTANTS
    Control,      \* control identifiers
    Cohort,       \* cohort identifiers
    Component,    \* capabilities, which are the components of cohorts
    Decision,     \* decision identifiers
    Requires,     \* Requires[k]: the components that k says it needs
    Blocks,       \* Blocks[d]: the controls and cohorts that d blocks
    ControlState, \* the control states amended to, "none" for no row
    First         \* the matrices the programme may begin with

State ==
    {"none", "pending-approval", "blocked", "not-started", "in-progress", "verified",
     "superseded"}

(* What the rules read of a matrix.                                        *)
Matrix ==
    [state : [Control -> State], depends : [Control -> SUBSET Control],
     evidenced : SUBSET Control, gate : SUBSET Control,
     sequence : [Cohort -> Nat], started : SUBSET Cohort,
     follows : [Cohort -> SUBSET Cohort],
     carriers : [Component -> SUBSET Cohort], rostered : SUBSET Component,
     scope : SUBSET Component, open : SUBSET Decision, resolved : SUBSET Decision,
     status : {"proposed", "active"}]

ASSUME MatrixAssumption ==
    /\ IsFiniteSet(Cohort) /\ IsFiniteSet(Component)
    /\ Requires \in [Component -> SUBSET Component]
    /\ Blocks \in [Decision -> SUBSET (Control \cup Cohort)]
    /\ ControlState \subseteq State

VARIABLES
    matrix,    \* the matrix on main
    told       \* the controls its decision record says are verified

matrixVars == <<matrix, told>>

-----------------------------------------------------------------------------
(* The verifier                                                            *)

Listed(m) == {c \in Control : m.state[c] # "none"}

Live(m) == {c \in Listed(m) : m.state[c] # "superseded"}

VerifiedIn(m) == {c \in Control : m.state[c] = "verified"}

(* A bug of the control rules: a dependent of a superseded control passes. *)
ControlsHoldUnpointed(m) ==
    /\ Listed(m) # {}
    /\ \A c \in Listed(m) :
           /\ m.state[c] \in {"verified", "superseded"} => c \in m.evidenced
           /\ m.state[c] = "blocked" => m.depends[c] # {}
           /\ m.depends[c] \subseteq Listed(m) \ {c}
    /\ Stuck([c \in Listed(m) |-> m.depends[c]]) = {}

ControlsHold(m) ==
    /\ Listed(m) # {}
    /\ \A c \in Listed(m) :
           /\ m.state[c] \in {"verified", "superseded"} => c \in m.evidenced
           /\ m.state[c] = "blocked" => m.depends[c] # {}
           /\ m.depends[c] \subseteq Listed(m) \ {c}
           /\ c \in Live(m) => m.depends[c] \subseteq Live(m)
    /\ Stuck([c \in Listed(m) |-> m.depends[c]]) = {}

GateHolds(m) == m.gate # {} /\ m.gate \subseteq Live(m)

InCohorts(m) == {k \in Component : m.carriers[k] # {}}

(* A bug of the ordering: what k needs is looked for, and not where it is. *)
ComponentsHoldUnordered(m) ==
    /\ \A h \in Cohort : \E k \in Component : h \in m.carriers[k]
    /\ \A k \in InCohorts(m) :
           /\ Cardinality(m.carriers[k]) = 1
           /\ Requires[k] \subseteq InCohorts(m) \ {k}

ComponentsHold(m) ==
    /\ \A h \in Cohort : \E k \in Component : h \in m.carriers[k]
    /\ \A k \in InCohorts(m) :
           /\ Cardinality(m.carriers[k]) = 1
           /\ Requires[k] \subseteq InCohorts(m) \ {k}
           /\ \A r \in Requires[k] : \A s \in m.carriers[r], h \in m.carriers[k] :
                  m.sequence[s] <= m.sequence[h]

CohortsHold(m) ==
    /\ {m.sequence[h] : h \in Cohort} = 1 .. Cardinality(Cohort)
    /\ \A h \in Cohort : \A g \in m.follows[h] : m.sequence[g] < m.sequence[h]
    /\ m.started # {} => m.gate \subseteq VerifiedIn(m)

RosterHolds(m) ==
    /\ InCohorts(m) \cup m.rostered = m.scope
    /\ InCohorts(m) \cap m.rostered = {}

DecisionsHold(m) ==
    /\ m.open \cap m.resolved = {}
    /\ \A d \in m.open : Blocks[d] # {} /\ Blocks[d] \subseteq Listed(m) \cup Cohort

StatusHolds(m) == m.status = "proposed" => VerifiedIn(m) = {}

MatrixHolds(m) ==
    /\ RosterHolds(m) /\ ComponentsHold(m) /\ CohortsHold(m) /\ GateHolds(m)
    /\ DecisionsHold(m) /\ StatusHolds(m) /\ ControlsHold(m)

(* The governing decision says nothing of a control that the matrix does   *)
(* not: read only when the matrix has no error.                            *)
VerifyRepository(m, said) == MatrixHolds(m) /\ said \subseteq VerifiedIn(m)

(* A programme enters the branch through the same check.                   *)
ASSUME FirstAssumption == \A m \in First : m \in Matrix /\ MatrixHolds(m)

-----------------------------------------------------------------------------
(* Amendments                                                              *)

MatrixInit ==
    /\ matrix \in First
    /\ told = {}

(* A pull request leaves m and a decision that says so; it is merged when  *)
(* the required check accepts what it leaves.                              *)
Merged(m, said) ==
    /\ <<m, said>> # <<matrix, told>>
    /\ VerifyRepository(m, said)
    /\ matrix' = m /\ told' = said

With(set, e, in) == IF in THEN set \cup {e} ELSE set \ {e}

AmendControl(c, state, deps, evidenced, gated) ==
    Merged([matrix EXCEPT !.state[c] = state, !.depends[c] = deps,
                          !.evidenced = With(@, c, evidenced),
                          !.gate = With(@, c, gated)], told)

AmendCohort(h, starts, after) ==
    Merged([matrix EXCEPT !.started = With(@, h, starts), !.follows[h] = after], told)

Reorder(sequence) == Merged([matrix EXCEPT !.sequence = sequence], told)

(* Capability k is carried by other cohorts, rostered, or out of scope.    *)
AmendPlace(k, carriers, rostered, scoped) ==
    Merged([matrix EXCEPT !.carriers[k] = carriers,
                          !.rostered = With(@, k, rostered),
                          !.scope = With(@, k, scoped)], told)

AmendDecision(d, open, resolved) ==
    Merged([matrix EXCEPT !.open = With(@, d, open),
                          !.resolved = With(@, d, resolved)], told)

AmendStatus(status) == Merged([matrix EXCEPT !.status = status], told)

AmendRecord(said) == Merged(matrix, said)

MatrixNext ==
    \/ \E c \in Control, s \in ControlState, e, g \in BOOLEAN :
           \E d \in SUBSET (Control \ {c}) : AmendControl(c, s, d, e, g)
    \/ \E h \in Cohort, s \in BOOLEAN, f \in SUBSET Cohort : AmendCohort(h, s, f)
    \/ \E q \in [Cohort -> 1 .. Cardinality(Cohort)] : Reorder(q)
    \/ \E k \in Component, h \in SUBSET Cohort, r, s \in BOOLEAN : AmendPlace(k, h, r, s)
    \/ \E d \in Decision, o, r \in BOOLEAN : AmendDecision(d, o, r)
    \/ \E s \in {"proposed", "active"} : AmendStatus(s)
    \/ \E s \in SUBSET Control : AmendRecord(s)

MatrixSpec == MatrixInit /\ [][MatrixNext]_matrixVars

-----------------------------------------------------------------------------
(* Properties                                                              *)

(* However controls are superseded, re-pointed and moved in and out of the *)
(* gate, no control of the gate waits, itself or through others, for one   *)
(* that will never be verified: the cutover can still start.               *)
TheGateCanOpen ==
    \A S \in SUBSET Control :
        (\A c \in S : c \notin Live(matrix) \/ matrix.depends[c] \cap S # {})
            => matrix.gate \cap S = {}

(* What a capability needs, and what that needs in turn, is switched in    *)
(* the same cohort or in an earlier one.                                   *)
RequirementsComeFirst ==
    \A h \in Cohort :
        LET upto == {k \in Component :
                        \E g \in matrix.carriers[k] : matrix.sequence[g] <= matrix.sequence[h]}
            needed[n \in 0 .. Cardinality(Component)] ==
                IF n = 0 THEN upto
                ELSE needed[n - 1] \cup UNION {Requires[k] : k \in needed[n - 1]}
        IN  needed[Cardinality(Component)] = upto

=============================================================================
