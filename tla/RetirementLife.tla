---------------------------- MODULE RetirementLife ----------------------------
(***************************************************************************)
(* What the ledger of a product promises about compatibility retirements,  *)
(* each with one life: enrolled under a legacy authority or already under  *)
(* its module, taken over by the target that was named, drained, and       *)
(* closed for ever, its object gone or retained as a product record.       *)
(*                                                                         *)
(* There are no profiles here, no rows and no history.  A commit takes any *)
(* number of retirements one step on; no relation has two retirements.     *)
(***************************************************************************)
CONSTANT Id

VARIABLE life   \* life[id]: its stage and, once enrolled, relation and transition

Unknown == [stage |-> "unknown"]

Known(x) == x.stage # "unknown"

Init == life = [id \in Id |-> Unknown]

Enrols(x, y) == ~Known(x) /\ y.stage \in {"legacy", "draining", "drained"}

(* The target takes over from the authority that was current.              *)
Activates(x, y) ==
    /\ x.stage = "legacy" /\ y.stage \in {"draining", "drained"}
    /\ y.relation = x.relation
    /\ y.transition.displaced = x.transition.current
    /\ y.transition.current = x.transition.target

(* From here on nothing but the stage changes.                             *)
Proceeds(x, y) ==
    /\ <<x.stage, y.stage>> \in {<<"draining", "drained">>, <<"draining", "retained">>,
                                 <<"drained", "retained">>, <<"drained", "gone">>}
    /\ y.relation = x.relation
    /\ y.transition = x.transition

Moves(x, y) == Enrols(x, y) \/ Activates(x, y) \/ Proceeds(x, y)

Distinct(l) ==
    \A id, other \in Id :
        Known(l[id]) /\ Known(l[other]) /\ l[id].relation = l[other].relation
            => id = other

Next ==
    /\ \A id \in Id : life'[id] = life[id] \/ Moves(life[id], life'[id])
    /\ Distinct(life')

Spec == Init /\ [][Next]_life

=============================================================================
