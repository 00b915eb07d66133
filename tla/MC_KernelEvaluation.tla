-------------------------- MODULE MC_KernelEvaluation --------------------------
(* One source and the test that is the proof of what it imports, three     *)
(* modules of the Kernel, two releases.                                    *)
EXTENDS KernelEvaluation, TLC

CONSTANTS file, test

DB == <<"db">>
MODELS == <<"db", "models">>
TX == <<"_tx">>
Modules == {Root, DB, MODELS}

From(k, names) == [module |-> k, bindings |-> names, plain |-> FALSE, star |-> FALSE]

Import(k, local) ==
    [module |-> k, bindings |-> {<<"itself", local>>}, plain |-> TRUE, star |-> FALSE]

Says(statements, all, reads) ==
    [readable |-> TRUE, statements |-> statements, all |-> all, reads |-> reads,
     mentions |-> {k \in {Root, DB} : \E s \in statements : s.module = k}]

Plainly(statements) == Says(statements, NoAll, {})

Attribute(names) == [local |-> RootName, names |-> names, nested |-> FALSE]

A == <<"A", "A">>
B == <<"B", "B">>

MCText ==
    {Plainly({}),
     Plainly({From(DB, {A, B})}),
     Plainly({From(DB, {A}), From(DB, {B})}),
     Plainly({From(DB, {B})}),
     Plainly({From(DB, {<<"A", "B">>})}),
     Plainly({From(Root, {<<"db", "db">>})}),
     Plainly({From(MODELS, {<<"M", "M">>})}),
     Plainly({[From(DB, {}) EXCEPT !.star = TRUE]}),
     Says({From(DB, {A})}, {"A"}, {}),
     Says({Import(Root, RootName)}, NoAll, {Attribute(<<"db", "A">>)}),
     Says({Import(DB, RootName)}, NoAll, {Attribute(<<"db", "_x">>)}),
     Plainly({From(TX, {<<"T", "T">>})}),
     [Plainly({}) EXCEPT !.readable = FALSE]}

MCTest == [Plainly({}) EXCEPT !.mentions = Modules]

MCTexts == [p \in Path |-> IF p = file THEN MCText ELSE {MCTest}]

MCStart ==
    {[p \in Path |-> IF p = file THEN Plainly({From(DB, {A, B})}) ELSE MCTest]}

Catalogue(v) ==
    [version |-> v, artifact |-> v, supported |-> IF v = 1 THEN {DB} ELSE {DB, MODELS},
     internal |-> {TX}, rootExports |-> {"P"},
     exports |-> (DB :> {"A", "B"}) @@ (MODELS :> {"M"})]

Pins(toml, lock) ==
    {[place |-> "toml", version |-> toml], [place |-> "lock", version |-> lock]}

MCCheckout ==
    {[catalogue |-> Catalogue(2), pins |-> Pins(2, 2), ancestry |-> "strict"],
     [catalogue |-> Catalogue(1), pins |-> Pins(1, 2), ancestry |-> "strict"],
     [catalogue |-> Catalogue(2), pins |-> {}, ancestry |-> "strict"],
     [catalogue |-> NoCatalogue, pins |-> Pins(2, 2), ancestry |-> "unknown"]}

Classified(root, db, models) == (Root :> root) @@ (DB :> db) @@ (MODELS :> models)

MCRole ==
    {Classified("none", "none", "none"), Classified("none", "required", "none"),
     Classified("none", "transitional", "none"), Classified("none", "prohibited", "none"),
     Classified("none", "prohibited", "required"),
     Classified("required", "prohibited", "none"),
     Classified("required", "required", "none")}

MCFloor == [k \in Modules |-> 1]

MCProof == [k \in Modules |-> test]

=============================================================================
