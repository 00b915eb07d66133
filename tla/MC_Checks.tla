------------------------------- MODULE MC_Checks -------------------------------
(* The checks of a change: a programme matrix verified after each merge,   *)
(* its search for cycles, the scope derived for a product's connectors,    *)
(* and the aggregation of the gates.  They share no variable; the initial  *)
(* state picks the one that moves.                                         *)
EXTENDS ProgrammeMatrix, GateAggregate, MC_ScopeDerivation

VARIABLE subject   \* the component that moves

(* Two controls, two cohorts, three capabilities of which one needs        *)
(* another.                                                                *)
MCRequires == [k1 |-> {"k2"}, k2 |-> {}, k3 |-> {}]

MCBlocks == [d |-> {"c2"}]

MCFirst ==
    {[state |-> [c1 |-> "in-progress", c2 |-> "none"],
      depends |-> [c1 |-> {}, c2 |-> {}], evidenced |-> {}, gate |-> {"c1"},
      sequence |-> [h1 |-> 1, h2 |-> 2], started |-> {},
      follows |-> [h1 |-> {}, h2 |-> {"h1"}],
      carriers |-> [k1 |-> {"h2"}, k2 |-> {"h1"}, k3 |-> {}], rostered |-> {},
      scope |-> {"k1", "k2"}, open |-> {}, resolved |-> {}, status |-> "proposed"]}

checksVars == <<searchVars, matrixVars, gateVars, scopeVars, subject>>

(* What a component is that does not move.                                 *)
SearchIdle == needs = [n \in Node |-> {}]

ScopeIdle == traits = [s \in Source |-> {}] /\ importers = [s \in Source |-> {}]

ChecksInit ==
    /\ \/ subject = "search" /\ ScopeIdle
       \/ subject \in {"matrix", "gates"} /\ SearchIdle /\ ScopeIdle
       \/ subject = "scope" /\ SearchIdle
    /\ SearchInit /\ MatrixInit /\ GateInit /\ ScopeInit

Searches ==
    /\ subject = "search"
    /\ SearchNext
    /\ UNCHANGED <<matrixVars, gateVars, scopeVars, subject>>

Amends ==
    /\ subject = "matrix"
    /\ MatrixNext
    /\ UNCHANGED <<searchVars, gateVars, scopeVars, subject>>

Aggregates ==
    /\ subject = "gates"
    /\ GateNext
    /\ UNCHANGED <<searchVars, matrixVars, scopeVars, subject>>

Derives ==
    /\ subject = "scope"
    /\ ScopeNext
    /\ UNCHANGED <<searchVars, matrixVars, gateVars, subject>>

ChecksNext == Searches \/ Amends \/ Aggregates \/ Derives

ChecksSpec ==
    /\ ChecksInit /\ [][ChecksNext]_checksVars
    /\ WF_checksVars(Derives)

(* Both loops that derive a scope come to an end, whatever the imports are *)
(* (Terminates of ScopeDerivation, for the part of the run where the scope *)
(* is what moves).                                                         *)
ScopeTerminates == subject = "scope" => Terminates

=============================================================================
