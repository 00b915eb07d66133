---------------------------- MODULE MC_Activation ----------------------------
(* Two artifacts, two backup roots, two policy versions that differ in the *)
(* first artifact only.                                                    *)
EXTENDS Activation, TLC

CONSTANTS new, newer, v1, v2

MCDesired == [v \in {v1, v2} |-> [t \in 1 .. N |->
                 IF v = v2 /\ t = 1 THEN newer ELSE new]]

RootSymmetry == Permutations(Root)

=============================================================================
