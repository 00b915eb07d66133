----------------------------- MODULE MC_KernelRun -----------------------------
EXTENDS KernelRun, TLC

CONSTANTS c1, c2, c3, g1, g2, held1, held2, good, bad

PinOld == [pin |-> g1, binds |-> "v2"]
PinNew == [pin |-> g2, binds |-> "none"]

MCProfile == {PinOld, PinNew}

Exempt == [contract |-> "v1", applicable |-> FALSE, predecessor |-> c1]
Legacy == [contract |-> "v1", applicable |-> TRUE, predecessor |-> c1]
Anchored == [contract |-> "v2", applicable |-> TRUE, predecessor |-> c1]

Rebased == [contract |-> "v2", applicable |-> TRUE, predecessor |-> c2]

MCDeclaration == {Legacy, Exempt, Anchored, Rebased}

MCTree ==
    (c1 :> [profile |-> PinNew, declaration |-> Exempt, source |-> good]) @@
    (c2 :> [profile |-> PinOld, declaration |-> Anchored, source |-> good]) @@
    (c3 :> [profile |-> PinOld, declaration |-> Rebased, source |-> good])

MCGovTree == (g1 :> held1) @@ (g2 :> held2)

MCBefore == {<<c1, c2>>, <<c1, c3>>}

MCPassing == {m \in {held1, held2} \X {held1, held2} \X MCDeclaration \X {good, bad} :
                m[4] = good}

=============================================================================
