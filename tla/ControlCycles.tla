----------------------------- MODULE ControlCycles -----------------------------
(***************************************************************************)
(* _cycle_nodes of programme_control: the depth-first search that names    *)
(* the controls of a programme which are on a dependency cycle, or can     *)
(* only follow one.  A visit that is open is a frame of the stack; the     *)
(* order of controls and of the dependencies of one is left open.          *)
(***************************************************************************)
EXTENDS Naturals, Sequences

CONSTANT Node   \* the controls of a programme

VARIABLES
    needs,     \* needs[n]: the known controls n depends on, fixed
    todo,      \* the controls the outer loop has not come to
    stack,     \* the controls being visited, the innermost last
    left,      \* left[n]: the dependencies the visit of n has not come to
    visited,   \* the controls whose visit has ended
    cycle      \* the controls named so far

searchVars == <<needs, todo, stack, left, visited, cycle>>

(* The sets none of whose members can come first, and all they contain.    *)
Waiting(deps, S) == \A n \in S : deps[n] \cap S # {}

Stuck(deps) == UNION {S \in SUBSET DOMAIN deps : Waiting(deps, S)}

SearchInit ==
    /\ needs \in [Node -> SUBSET Node]
    /\ todo = Node
    /\ stack = <<>>
    /\ left = [n \in Node |-> {}]
    /\ visited = {} /\ cycle = {}

Active == {stack[k] : k \in DOMAIN stack}

Top == stack[Len(stack)]

(* visit(n) of a control that is neither open nor done.                    *)
Opens(n, others) ==
    /\ n \notin Active \cup visited
    /\ stack' = Append(stack, n)
    /\ left' = [others EXCEPT ![n] = needs[n]]

(* The outer loop comes to n.                                              *)
Visit(n) ==
    /\ stack = <<>> /\ n \in todo
    /\ todo' = todo \ {n}
    /\ \/ Opens(n, left)
       \/ n \in visited /\ UNCHANGED <<stack, left>>
    /\ UNCHANGED <<needs, visited, cycle>>

(* The innermost visit comes to dependency d, which is new,                *)
Descend(d) ==
    /\ stack # <<>> /\ d \in left[Top]
    /\ Opens(d, [left EXCEPT ![Top] = @ \ {d}])
    /\ UNCHANGED <<needs, todo, visited, cycle>>

(* or is being visited,                                                    *)
CloseCycle(d) ==
    /\ stack # <<>> /\ d \in left[Top] \cap Active
    /\ left' = [left EXCEPT ![Top] = @ \ {d}]
    /\ cycle' = cycle \cup {d, Top}
    /\ UNCHANGED <<needs, todo, stack, visited>>

(* A bug of the search: what was visited before says nothing about n.      *)
MeetAgainUnread(d) ==
    /\ stack # <<>> /\ d \in left[Top] \cap visited
    /\ left' = [left EXCEPT ![Top] = @ \ {d}]
    /\ UNCHANGED <<needs, todo, stack, visited, cycle>>

(* or was visited before.                                                  *)
MeetAgain(d) ==
    /\ stack # <<>> /\ d \in left[Top] \cap visited
    /\ left' = [left EXCEPT ![Top] = @ \ {d}]
    /\ cycle' = IF d \in cycle THEN cycle \cup {Top} ELSE cycle
    /\ UNCHANGED <<needs, todo, stack, visited>>

(* A visit ends; the one that called it looks at what it found.            *)
Return ==
    /\ stack # <<>> /\ left[Top] = {}
    /\ stack' = SubSeq(stack, 1, Len(stack) - 1)
    /\ visited' = visited \cup {Top}
    /\ cycle' = IF Top \in cycle /\ stack' # <<>>
                THEN cycle \cup {stack'[Len(stack')]} ELSE cycle
    /\ UNCHANGED <<needs, todo, left>>

Searched == stack = <<>> /\ todo = {}

SearchNext ==
    \/ \E n \in Node : Visit(n)
    \/ \E d \in Node : Descend(d) \/ CloseCycle(d) \/ MeetAgain(d)
    \/ Return

SearchSpec == SearchInit /\ [][SearchNext]_searchVars

-----------------------------------------------------------------------------
(* Properties                                                              *)

(* The search names exactly the controls that wait for a cycle, in         *)
(* whatever order a matrix lists controls and dependencies: it is silent   *)
(* only of a graph whose controls can all be done in some order.           *)
NamesTheStuck == Searched => cycle = Stuck(needs)

=============================================================================
