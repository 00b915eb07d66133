---------------------------- MODULE KernelEvaluation ----------------------------
(***************************************************************************)
(* evaluate of kernel_adoption_control: what a product imports of the      *)
(* Kernel, held against what it declares, what it pins and what the Kernel *)
(* publishes.  The product changes under its declaration: sources are      *)
(* edited, the declaration is rewritten or lost, another Kernel is locked, *)
(* days pass.                                                              *)
(*                                                                         *)
(* A module is the sequence of its names below dotmac_kernel, which is the *)
(* empty sequence.  A source is what the parse tree says of the Kernel; a  *)
(* digest is what it is taken over.                                        *)
(***************************************************************************)
EXTENDS Naturals, Sequences, FiniteSets

CONSTANTS
    Path,         \* the measured sources
    Texts,        \* Texts[p]: what source p may say
    Checkout,     \* what the runner observes beside the sources
    Role,         \* the classifications a product may choose between
    Floor,        \* Floor[k]: the floor stated for k when it is required
    Proof,        \* Proof[k]: the source offered as its proof
    PrivateName,  \* names with a leading underscore
    NoCatalogue,  \* the run was given no surface catalogue
    NoAll,        \* a source without __all__
    First,        \* the sources a product begins with
    MaxDay        \* bound: the last day of a run

Root == <<>>

(* The name a plain import binds when it gives none.                       *)
RootName == "dotmac_kernel"

ASSUME EvaluationAssumption ==
    /\ \A p \in Path : \A f \in Texts[p] :
           /\ DOMAIN f = {"readable", "statements", "all", "reads", "mentions"}
           /\ f.readable \/ f.statements = {}
           /\ \A s \in f.statements : s.module \in Seq(STRING)
    /\ \A src \in First : DOMAIN src = Path /\ \A p \in Path : src[p] \in Texts[p]
    /\ \A out \in Checkout : IsFiniteSet(out.pins)
    /\ Role \subseteq [DOMAIN Floor -> {"none", "required", "transitional", "prohibited"}]
    /\ DOMAIN Proof = DOMAIN Floor
    /\ \A k \in DOMAIN Proof : Proof[k] \in Path
    /\ MaxDay \in Nat

VARIABLES
    sources,      \* sources[p]: what the parse tree of p says
    declaration,  \* .dotmac/kernel-adoption.json
    checkout,     \* the catalogue, the pin sites and the ancestry observed
    day           \* the date of the run

evaluationVars == <<sources, declaration, checkout, day>>

-----------------------------------------------------------------------------
(* Surfaces                                                                *)

Locals(s) == {b[2] : b \in s.bindings}

(* A plain import names no export.                                         *)
Names(s) == IF s.plain THEN {} ELSE {b[1] : b \in s.bindings}

Known(cat) == cat.supported \cup cat.internal

Publishes(cat, k) == IF k = Root THEN cat.rootExports # {} ELSE k \in Known(cat)

IsPrivate(k) == \E n \in DOMAIN k : k[n] \in PrivateName

RootFacadeHolds(s, cat) ==
    /\ cat.rootExports # {}
    /\ \A n \in Names(s) : n \in cat.rootExports \/ <<n>> \in cat.supported

(* Exports were observed of some modules of a release only.                *)
Exports(cat, k, names) == k \in DOMAIN cat.exports /\ names \subseteq cat.exports[k]

ModuleHolds(s, cat, v2) ==
    /\ s.module \in Known(cat)
    /\ v2 /\ Names(s) # {} => Exports(cat, s.module, Names(s))

StatementHolds(f, s, cat, v2) ==
    /\ ~IsPrivate(s.module)
    /\ cat # NoCatalogue
    /\ IF s.module = Root THEN RootFacadeHolds(s, cat) ELSE ModuleHolds(s, cat, v2)
    /\ ~s.star
    /\ f.all # NoAll => Locals(s) \cap f.all = {}

(* The modules that a name of the source stands for.                       *)
Aliased(f, cat, local) ==
    {IF local = RootName THEN Root ELSE s.module :
        s \in {t \in f.statements : t.plain /\ local \in Locals(t)}}
    \cup {<<b[1]>> : b \in {c \in UNION {t.bindings :
              t \in {u \in f.statements : u.module = Root /\ ~u.plain}} :
                  c[2] = local /\ <<c[1]>> \in Known(cat)}}

(* A path of attributes, from module k: submodules first, then one name.   *)
Resolves(k, names, cat) ==
    LET below(n) == k \o SubSeq(names, 1, n)
        deep == CHOOSE n \in 0 .. Len(names) :
                    /\ \A j \in 1 .. n : below(j) \in Known(cat)
                    /\ n = Len(names) \/ below(n + 1) \notin Known(cat)
        left == Len(names) - deep
        found == IF left = 0 THEN {} ELSE {names[deep + 1]}
    IN  \/ left = 0
        \/ /\ left = 1
           /\ IF below(deep) = Root THEN found \subseteq cat.rootExports
              ELSE Exports(cat, below(deep), found)

ReadHolds(f, r, cat) ==
    \A k \in Aliased(f, cat, r.local) : ~r.nested /\ Resolves(k, r.names, cat)

SourceHolds(f, cat, v2) ==
    /\ f.readable
    /\ \A s \in f.statements : StatementHolds(f, s, cat, v2)
    /\ v2 /\ f.statements # {} => \A r \in f.reads : ReadHolds(f, r, cat)

-----------------------------------------------------------------------------
(* Facts of the source surface, one for each source and module             *)

Keys(src) == UNION {{<<p, s.module>> : s \in src[p].statements} : p \in Path}

Said(src, key) == {s \in src[key[1]].statements : s.module = key[2]}

Observed(src) == {key[2] : key \in Keys(src)}

Facts(src) ==
    [key \in Keys(src) |-> [symbols |-> UNION {Locals(s) : s \in Said(src, key)},
                            star    |-> \E s \in Said(src, key) : s.star]]

(* A bug of the accumulator: a later statement replaces an earlier one.    *)
IdentityFactsReplaced(src) ==
    [key \in Keys(src) |-> [bindings |-> (CHOOSE s \in Said(src, key) : TRUE).bindings,
                            star     |-> \E s \in Said(src, key) : s.star]]

IdentityFacts(src) ==
    [key \in Keys(src) |-> [bindings |-> UNION {s.bindings : s \in Said(src, key)},
                            star     |-> \E s \in Said(src, key) : s.star]]

Digest(algorithm, src) ==
    IF algorithm = "surface-v1" THEN Facts(src) ELSE IdentityFacts(src)

(* What is used of module k: in the Kernel's names, or in local ones.      *)
Uses(src, k, v2) ==
    UNION {{<<p, IF v2 THEN b[1] ELSE b[2]>> :
               b \in UNION {s.bindings : s \in Said(src, <<p, k>>)}} : p \in Path}

-----------------------------------------------------------------------------
(* Arms                                                                    *)

PinsHold(d, pins) ==
    /\ IF d.applicable THEN Cardinality({s.place : s \in pins}) >= 2 ELSE pins = {}
    /\ Cardinality({s.version : s \in pins}) <= 1

(* A bug of the coordinate: what is declared is compared as local names.   *)
SurfaceHoldsLocally(d, src) ==
    /\ Keys(src) # {}
    /\ LET locals(digest) ==
               IF d.algorithm = "surface-v1" THEN digest
               ELSE [key \in DOMAIN digest |-> {b[2] : b \in digest[key].bindings}]
       IN  locals(Digest(d.algorithm, src)) = locals(d.digest)

SurfaceHolds(d, src) == Keys(src) # {} /\ Digest(d.algorithm, src) = d.digest

(* What a binding states of a catalogue: its exports are no part of it.    *)
Binding(cat) ==
    [version |-> cat.version, artifact |-> cat.artifact, supported |-> cat.supported,
     internal |-> cat.internal, rootExports |-> cat.rootExports]

CatalogueHolds(d, cat) ==
    /\ cat # NoCatalogue
    /\ Known(cat) # {}
    /\ d.binding = Binding(cat)

InRole(d, role) == {k \in DOMAIN d.role : d.role[k] = role}

RequiredHolds(d, cat, src) ==
    /\ \A k \in InRole(d, "required") :
           /\ cat # NoCatalogue => Publishes(cat, k) /\ Floor[k] <= cat.version
           /\ k \in Observed(src)
           /\ k \in src[Proof[k]].mentions
    /\ \A k \in Observed(src) : k \in DOMAIN d.role /\ d.role[k] # "none"

Below(k, top) == Len(top) <= Len(k) /\ SubSeq(k, 1, Len(top)) = top

(* A bug of the prohibition: what is below a prohibited module passes.     *)
ProhibitedHoldsExactly(d, src) == Observed(src) \cap InRole(d, "prohibited") = {}

ProhibitedHolds(d, src) ==
    \A k \in Observed(src), top \in InRole(d, "prohibited") : ~Below(k, top)

TransitionalHolds(d, src, date) ==
    \A k \in InRole(d, "transitional") :
        /\ date <= d.expiry
        /\ Uses(src, k, d.contract = "v2") = d.baseline[k]

(* A v1 declaration states a catalogue, a floor and a proof that nothing   *)
(* reads.                                                                  *)
DeclarationHolds(d, src, out, date) ==
    /\ d.contract = "v2" => d.declaredAt <= date /\ out.ancestry = "strict"
    /\ ~d.applicable => Keys(src) = {}
    /\ d.applicable /\ d.contract = "v2" =>
           /\ SurfaceHolds(d, src)
           /\ CatalogueHolds(d, out.catalogue)
           /\ RequiredHolds(d, out.catalogue, src)
           /\ InRole(d, "transitional") # {} => d.declaredAt <= d.expiry
    /\ d.applicable => ProhibitedHolds(d, src) /\ TransitionalHolds(d, src, date)

(* The report has no error.                                                *)
Evaluate(d, src, out, date) ==
    /\ d.outcome = "present"
    /\ \A p \in Path : SourceHolds(src[p], out.catalogue, d.contract = "v2")
    /\ PinsHold(d, out.pins)
    /\ DeclarationHolds(d, src, out, date)

-----------------------------------------------------------------------------
(* The product                                                             *)

Written(contract, applicable, algorithm, role, notice) ==
    [outcome |-> "present", contract |-> contract, applicable |-> applicable,
     declaredAt |-> day, algorithm |-> algorithm, digest |-> Digest(algorithm, sources),
     binding |-> Binding(checkout.catalogue), role |-> role, expiry |-> day + notice,
     baseline |-> [k \in DOMAIN role |-> Uses(sources, k, contract = "v2")]]

EvaluationInit ==
    /\ sources \in First
    /\ checkout \in Checkout
    /\ day = 0
    /\ declaration = [outcome |-> "missing"]

EditSource(p, f) ==
    /\ sources' = [sources EXCEPT ![p] = f]
    /\ UNCHANGED <<declaration, checkout, day>>

(* A declaration is written for the product as it is, with a               *)
(* classification that the author chooses.                                 *)
Declare(contract, applicable, algorithm, role, notice) ==
    /\ checkout.catalogue # NoCatalogue
    /\ declaration' = Written(contract, applicable, algorithm, role, notice)
    /\ UNCHANGED <<sources, checkout, day>>

(* It is deleted, emptied, left half written or broken.                    *)
Spoil(outcome) ==
    /\ declaration.outcome = "present"
    /\ declaration' = [outcome |-> outcome]
    /\ UNCHANGED <<sources, checkout, day>>

ObserveCheckout(out) ==
    /\ checkout' = out
    /\ UNCHANGED <<sources, declaration, day>>

PassDay ==
    /\ day < MaxDay
    /\ day' = day + 1
    /\ UNCHANGED <<sources, declaration, checkout>>

EvaluationNext ==
    \/ \E p \in Path : \E f \in Texts[p] : EditSource(p, f)
    \/ \E c \in {"v1", "v2"}, a \in {"surface-v1", "surface-v2"}, r \in Role :
           Declare(c, TRUE, a, r, 0)
    \/ \E c \in {"v1", "v2"}, r \in Role :
           (\A k \in DOMAIN r : r[k] = "none") /\ Declare(c, FALSE, "surface-v2", r, 0)
    \/ \E o \in {"missing", "unreadable"} : Spoil(o)
    \/ \E out \in Checkout : ObserveCheckout(out)
    \/ PassDay

EvaluationSpec == EvaluationInit /\ [][EvaluationNext]_evaluationVars

-----------------------------------------------------------------------------
(* Properties                                                              *)

Conforming == Evaluate(declaration, sources, checkout, day)

(* What passes is accounted for: under the second contract each imported   *)
(* module is published by the Kernel the declaration is bound to and was   *)
(* classified, is not prohibited nor below what is, and a transition is    *)
(* not overdue and no larger than on the day it was declared.              *)
ConformingIsAccounted ==
    Conforming /\ declaration.applicable /\ declaration.contract = "v2" =>
        /\ Cardinality({s.version : s \in checkout.pins}) = 1
        /\ \A p \in Path : \A s \in sources[p].statements :
               /\ Publishes(declaration.binding, s.module)
               /\ declaration.role[s.module] \in {"required", "transitional"}
               /\ \A n \in 0 .. Len(s.module) :
                      LET top == SubSeq(s.module, 1, n)
                      IN  top \in DOMAIN declaration.role =>
                              declaration.role[top] # "prohibited"
               /\ declaration.role[s.module] = "transitional" =>
                      /\ day <= declaration.expiry
                      /\ \A b \in s.bindings :
                             <<p, b[1]>> \in declaration.baseline[s.module]

(* The imports of a source, without the statements that make them.         *)
Imported(f) ==
    UNION {{<<s.module, s.plain, s.star>>} \cup
           {<<s.module, s.plain, s.star, b>> : b \in s.bindings} : s \in f.statements}

Reformatted ==
    /\ UNCHANGED <<declaration, checkout, day>>
    /\ \A p \in Path :
           /\ Imported(sources'[p]) = Imported(sources[p])
           /\ [sources'[p] EXCEPT !.statements = {}] = [sources[p] EXCEPT !.statements = {}]

(* Splitting an import in two, or joining two, is no change.               *)
ReformattingMovesNothing == [][Reformatted => Conforming' = Conforming]_evaluationVars

(* Under the second canonicalization a product that passes before and      *)
(* after an edit binds the same Kernel names to the same local ones: what  *)
(* an edit changes of that, a new declaration says.                        *)
EditsAreDeclared ==
    [][declaration.outcome = "present" /\ declaration.applicable
       /\ declaration.contract = "v2" /\ declaration.algorithm = "surface-v2"
       /\ declaration' = declaration /\ Conforming /\ Conforming'
            => \A p \in Path, k \in DOMAIN declaration.role :
                   UNION {s.bindings : s \in Said(sources', <<p, k>>)}
                       = UNION {s.bindings : s \in Said(sources, <<p, k>>)}]_evaluationVars

(* ADR 0042, 2: "an import the product itself classifies prohibited" is    *)
(* what Governance reports, whatever statement makes it.                   *)
ProhibitedIsNotReached ==
    Conforming /\ declaration.applicable =>
        \A p \in Path : \A s \in sources[p].statements : \A n \in Names(s) :
            LET k == Append(s.module, n)
            IN  k \in InRole(declaration, "prohibited") => k \notin Known(checkout.catalogue)

=============================================================================
