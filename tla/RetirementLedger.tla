--------------------------- MODULE RetirementLedger ---------------------------
(***************************************************************************)
(* The life of compatibility retirements on a product's default branch.    *)
(* The branch is a sequence of conformance profiles; a commit is accepted  *)
(* when the standards engine has no finding against its profile: the       *)
(* parser of retirement.py, the transitions of engine.py against the       *)
(* trusted base, which is the tip the commit is made on, and the declared  *)
(* authorities.  The engine sees two profiles at a time; what it promises  *)
(* is about the whole branch.                                              *)
(*                                                                         *)
(* An authority stands for itself and its canonical writer; a record for   *)
(* immutable bytes that resolve at the coordinates a profile gives.        *)
(***************************************************************************)
EXTENDS Naturals, Sequences

CONSTANTS
    Id,            \* retirement ids
    Relation,      \* compatibility relations
    Authority,     \* authority ids
    Record,        \* activation records
    Disposition,   \* what may become of a relation
    Gate,          \* gates a product may request
    Declarations,  \* sets of authorities a profile may declare
    NoRow,         \* the profile has no active retirement of that id
    MaxCommits     \* bound on the length of the branch

Commit == 1 .. MaxCommits

Legacy == [state : {"legacy_active"}, current : Authority, target : Authority]
Module == [state : {"module_active"}, current : Authority,
           displaced : Authority, historical : Commit, activation : Record]

Row == [relation : Relation, transition : Legacy \cup Module,
        disposition : Disposition, source : {"draining", "drained"}, gate : Gate]

(* What closes a retirement: the product record that retains the relation, *)
(* or an observation of the upgraded target, which shows it gone or not.   *)
Closure == {"retained", "gone", "not gone"}

Entry == [id : Id, relation : Relation, transition : Module, closure : Closure]

Profile == [active : [Id -> Row \cup {NoRow}], history : Seq(Entry),
            declared : SUBSET Authority]

ASSUME MarkAssumption == NoRow \notin Row
ASSUME DeclarationsAssumption == Declarations \subseteq SUBSET Authority
ASSUME VocabularyAssumption ==
    /\ Disposition \subseteq {"delete", "migrate_to_module", "temporary_projection",
                              "retain_product_record"}
    /\ Gate \subseteq {"none", "pre_drop", "post_upgrade"}
ASSUME MaxCommitsAssumption == MaxCommits \in Nat \ {0}

VARIABLE main   \* main[k]: the profile of commit k

Tip == main[Len(main)]

Entries(p) == {p.history[k] : k \in DOMAIN p.history}
Active(p)  == {id \in Id : p.active[id] # NoRow}
Closed(p)  == {e.id : e \in Entries(p)}

-----------------------------------------------------------------------------
(* The parser: one profile                                                 *)

IsModule(row) == row.transition.state = "module_active"

(* _retirement: what one active row must satisfy.                          *)
RowWellFormed(row) ==
    /\ row.source = "drained" \/ row.gate # "none" => IsModule(row)
    /\ IsModule(row) => row.transition.displaced # row.transition.current

(* parse_retirements: identities are unique, and reserved once closed.     *)
ProfileWellFormed(p) ==
    /\ \A id \in Active(p) : RowWellFormed(p.active[id])
    /\ \A id, other \in Active(p) :
           p.active[id].relation = p.active[other].relation => id = other
    /\ \A j, k \in DOMAIN p.history :
           \/ p.history[j].id = p.history[k].id
           \/ p.history[j].relation = p.history[k].relation
           => j = k
    /\ \A e \in Entries(p), id \in Active(p) :
           id # e.id /\ p.active[id].relation # e.relation

(* _retirement_contracts: the current authority is declared.               *)
AuthoritiesDeclared(p) ==
    \A id \in Active(p) : p.active[id].transition.current \in p.declared

-----------------------------------------------------------------------------
(* The transitions: a profile against the base it was made on              *)

(* validate_module_active: the displaced authority is in the profile of    *)
(* the historical commit.                                                  *)
HistoricallyBound(p, branch) ==
    \A id \in Active(p) :
        IsModule(p.active[id]) =>
            LET t == p.active[id].transition
            IN  /\ t.historical \in DOMAIN branch
                /\ t.displaced \in branch[t.historical].declared

(* A bug of the comparison: the entries of the ledger are only counted.    *)
HistoryIsCounted(p, base) == Len(base.history) <= Len(p.history)

HistoryIsExtended(p, base) ==
    /\ Len(base.history) <= Len(p.history)
    /\ \A k \in DOMAIN base.history : p.history[k] = base.history[k]

Appended(p, base) ==
    {p.history[k] : k \in DOMAIN p.history \ DOMAIN base.history}

NewIdentitiesAreFresh(p, base) ==
    \A id \in Active(p) \ Active(base) :
        /\ id \notin Closed(base)
        /\ \A old \in Active(base) : p.active[id].relation # base.active[old].relation
        /\ \A e \in Entries(base) : p.active[id].relation # e.relation

AppendedWereActive(p, base) == \A e \in Appended(p, base) : e.id \in Active(base)

(* A bug of the closure: the gate that was asked for stands for the drain. *)
ClosesUndrained(e, id, row) ==
    /\ e.id = id
    /\ e.relation = row.relation
    /\ IsModule(row)
    /\ e.transition = row.transition
    /\ \/ /\ row.disposition = "retain_product_record"
          /\ e.closure = "retained"
       \/ /\ row.disposition # "retain_product_record"
          /\ row.gate = "post_upgrade"
          /\ e.closure = "gone"

(* The entry that closes a row keeps its transition and its disposition;   *)
(* a deletion needs a drained row that asked for the last gate.            *)
Closes(e, id, row) ==
    /\ e.id = id
    /\ e.relation = row.relation
    /\ IsModule(row)
    /\ e.transition = row.transition
    /\ \/ /\ row.disposition = "retain_product_record"
          /\ e.closure = "retained"
       \/ /\ row.disposition # "retain_product_record"
          /\ row.source = "drained"
          /\ row.gate = "post_upgrade"
          /\ e.closure = "gone"

(* A bug of the binding: any commit may be named as the historical one.    *)
ActivatesAnywhere(before, after, commit) ==
    /\ after.displaced = before.current
    /\ after.current = before.target

(* The activation of a legacy row displaces exactly its authority, in the  *)
(* profile of the base, for its target.                                    *)
Activates(before, after, commit) ==
    /\ after.displaced = before.current
    /\ after.historical = commit
    /\ after.current = before.target

TransitionFollows(before, after, commit) ==
    \/ after = before
    \/ /\ before.state = "legacy_active"
       /\ after.state = "module_active"
       /\ Activates(before, after, commit)

(* A bug of the comparison: the source state is compared by nobody.        *)
SameRelationFollows(before, after, commit) ==
    /\ after.relation = before.relation
    /\ TransitionFollows(before.transition, after.transition, commit)

RowFollows(before, after, commit) ==
    /\ after.relation = before.relation
    /\ TransitionFollows(before.transition, after.transition, commit)
    /\ before.source = "drained" => after.source = "drained"

(* A bug of the comparison: rows that are gone are not looked at.          *)
KeptRowsFollow(p, base, commit) ==
    \A id \in Active(base) \cap Active(p) :
        RowFollows(base.active[id], p.active[id], commit)

RowsFollow(p, base, commit) ==
    \A id \in Active(base) :
        IF id \in Active(p)
        THEN RowFollows(base.active[id], p.active[id], commit)
        ELSE \E e \in Appended(p, base) : Closes(e, id, base.active[id])

TransitionsHold(p, branch) ==
    LET commit == Len(branch)
        base == branch[commit]
    IN  /\ HistoryIsExtended(p, base)
        /\ HistoricallyBound(p, branch)
        /\ NewIdentitiesAreFresh(p, base)
        /\ AppendedWereActive(p, base)
        /\ RowsFollow(p, base, commit)

-----------------------------------------------------------------------------
(* The branch                                                              *)

Empty(d) == [active |-> [id \in Id |-> NoRow], history |-> <<>>, declared |-> d]

(* A product adopts profile version 11 with an empty ledger.               *)
Init == \E d \in Declarations : main = <<Empty(d)>>

Accept(p) ==
    /\ Len(main) < MaxCommits
    /\ ProfileWellFormed(p)
    /\ AuthoritiesDeclared(p)
    /\ TransitionsHold(p, main)
    /\ main' = Append(main, p)

Tipped(rows, ledger, d) == [active |-> rows, history |-> ledger, declared |-> d]

(* A pull request writes one row, drops one without a word, closes one, or *)
(* rewrites or cuts the ledger; it declares the authorities it likes.      *)
WriteRow(id, row, d) ==
    Accept(Tipped([Tip.active EXCEPT ![id] = row], Tip.history, d))

DropRow(id, d) ==
    Accept(Tipped([Tip.active EXCEPT ![id] = NoRow], Tip.history, d))

CloseRow(e, d) ==
    Accept(Tipped([Tip.active EXCEPT ![e.id] = NoRow], Append(Tip.history, e), d))

(* The ledger cut at some entry, or with some entry replaced.              *)
Rewritten(ledger) ==
    {SubSeq(ledger, 1, k) : k \in 0 .. Len(ledger)}
        \cup {[ledger EXCEPT ![k] = e] : k \in DOMAIN ledger, e \in Entry}

RewriteLedger(d) ==
    \E ledger \in Rewritten(Tip.history) : Accept(Tipped(Tip.active, ledger, d))

Next ==
    \E d \in Declarations :
        \/ \E id \in Id, row \in Row : WriteRow(id, row, d)
        \/ \E id \in Id : DropRow(id, d)
        \/ \E e \in Entry : CloseRow(e, d)
        \/ RewriteLedger(d)

Spec == Init /\ [][Next]_main

-----------------------------------------------------------------------------
(* Properties                                                              *)

(* The branch is a non-empty sequence of profiles within its bound.        *)
TypeOK ==
    /\ main \in Seq(Profile)
    /\ Len(main) \in Commit

OneWay(earlier, later) ==
    \A id \in Active(earlier) \cap Active(later) :
        LET before == earlier.active[id]
            after == later.active[id]
        IN  /\ after.relation = before.relation
            /\ IsModule(before) => after.transition = before.transition
            /\ before.source = "drained" => after.source = "drained"

(* Between any two commits of the branch, a retirement active in both      *)
(* names the same relation, never leaves module authority nor changes how  *)
(* it got there, and never goes back from drained to draining.             *)
RetirementsAreOneWay ==
    \A j, k \in DOMAIN main : j < k => OneWay(main[j], main[k])

Kept(earlier, later) ==
    /\ Entries(earlier) \subseteq Entries(later)
    /\ \A id \in Active(earlier) \ Active(later) :
           \E e \in Entries(later) :
               e.id = id /\ e.relation = earlier.active[id].relation

(* A retirement enrolled once is, in every later commit, still active or   *)
(* in the ledger under its relation; an entry of the ledger stays.         *)
NothingVanishes == \A j, k \in DOMAIN main : j < k => Kept(main[j], main[k])

Names(p) ==
    {<<id, p.active[id].relation>> : id \in Active(p)}
        \cup {<<e.id, e.relation>> : e \in Entries(p)}

(* An id and the relation it names belong to each other for ever: no other *)
(* commit gives the id another relation or the relation another id, active *)
(* or closed.                                                              *)
IdentitiesAreReserved ==
    \A j, k \in DOMAIN main : \A m \in Names(main[j]), n \in Names(main[k]) :
        m[1] = n[1] <=> m[2] = n[2]

WasLegacy(id, p) == id \in Active(p) /\ ~IsModule(p.active[id])

Told(id, t, branch) ==
    /\ t.historical \in DOMAIN branch
    /\ t.displaced \in branch[t.historical].declared
    /\ \A j \in DOMAIN branch : WasLegacy(id, branch[j]) =>
           /\ t.displaced = branch[j].active[id].transition.current
           /\ t.current = branch[j].active[id].transition.target
           /\ j <= t.historical
           /\ WasLegacy(id, branch[t.historical])

(* What the ledger says of a closed retirement is what the branch did: the *)
(* displaced authority was declared at the commit it names; if the branch  *)
(* ever had the retirement under a legacy authority, that is the displaced *)
(* one, the commit is the last that had it, and its target took over.      *)
LedgerTellsTheBranch == \A e \in Entries(Tip) : Told(e.id, e.transition, main)

-----------------------------------------------------------------------------
(* The life of one retirement, as the profile of a commit shows it         *)

LifeOf(p, id) ==
    IF id \in Active(p)
    THEN LET row == p.active[id]
         IN  [stage |-> IF IsModule(row) THEN row.source ELSE "legacy",
              relation |-> row.relation, transition |-> row.transition]
    ELSE IF id \in Closed(p)
    THEN LET e == CHOOSE x \in Entries(p) : x.id = id
         IN  [stage |-> e.closure, relation |-> e.relation, transition |-> e.transition]
    ELSE [stage |-> "unknown"]

Life == INSTANCE RetirementLife WITH life <- [id \in Id |-> LifeOf(Tip, id)]

(* The commits of the branch take retirements through their lives, one     *)
(* step at a time and never back: what the parser asks of one profile and  *)
(* the engine of two is together enough for that; neither knows of stages, *)
(* and no relation ever has a second life.                                 *)
ImplementsLife == Life!Spec

-----------------------------------------------------------------------------
(* What docs/adr/0017 says and the engine does not do.                     *)

(* docs/adr/0017, line 409: "relabelling it does not discharge a prior     *)
(* deletion claim".                                                        *)
RelabellingDischargesNothing ==
    \A e \in Entries(Tip) : e.closure = "retained" =>
        \A j \in DOMAIN main : e.id \in Active(main[j]) =>
            main[j].active[e.id].disposition = "retain_product_record"

=============================================================================
