--------------------------- MODULE RetirementProofs ---------------------------
(***************************************************************************)
(* Proofs about RetirementLedger, for every set of ids, relations,         *)
(* authorities, declarations and records, and for branches of any length;  *)
(* and about TeardownEvidence, for every set of targets and edges and any  *)
(* number of revisions and observations.                                   *)
(***************************************************************************)
EXTENDS RetirementLedger, TeardownEvidence, WellFoundedInduction, TLAPS

(* A retirement that is still legacy was so under the same authorities.    *)
Steady(earlier, later) ==
    \A id \in Active(earlier) \cap Active(later) :
        ~IsModule(later.active[id])
            => later.active[id].transition = earlier.active[id].transition

(* What two commits of the branch are to one another, in either order of   *)
(* adjacency: the engine compares neighbours, this relates all.            *)
Succeeds(earlier, later) ==
    /\ OneWay(earlier, later)
    /\ Kept(earlier, later)
    /\ Steady(earlier, later)

History == \A j, k \in DOMAIN main : j < k => Succeeds(main[j], main[k])

Parsed == \A k \in DOMAIN main : ProfileWellFormed(main[k])

(* The ledger copies its account of a retirement from the active row, so   *)
(* the rows must already tell the truth.                                   *)
RowsTellTheBranch ==
    \A id \in Active(Tip) :
        IsModule(Tip.active[id]) => Told(id, Tip.active[id].transition, main)

IInv ==
    /\ TypeOK
    /\ Parsed
    /\ History
    /\ RowsTellTheBranch
    /\ LedgerTellsTheBranch

(* A commit of a well-typed profile, whatever pull request made it.        *)
Commits == \E p \in Profile : Accept(p)

-----------------------------------------------------------------------------
(* Every kind of pull request is a commit of a well-typed profile          *)

LEMMA TipTyped == TypeOK => Tip \in Profile /\ Len(main) \in Nat \ {0}
  <1> SUFFICES ASSUME TypeOK PROVE Tip \in Profile /\ Len(main) \in Nat \ {0}
    OBVIOUS
  <1>1. main \in Seq(Profile) /\ Len(main) \in 1 .. MaxCommits
    BY DEF TypeOK, Commit
  <1>2. Len(main) \in Nat \ {0} /\ Len(main) \in DOMAIN main
    BY <1>1, MaxCommitsAssumption
  <1>3. QED
    BY <1>1, <1>2 DEF Tip

LEMMA TippedTyped ==
  ASSUME NEW rows \in [Id -> Row \cup {NoRow}], NEW ledger \in Seq(Entry),
         NEW d \in Declarations
  PROVE  Tipped(rows, ledger, d) \in Profile
  BY DeclarationsAssumption DEF Tipped, Profile

LEMMA RewrittenTyped ==
  ASSUME NEW ledger \in Seq(Entry), NEW cut \in Rewritten(ledger)
  PROVE  cut \in Seq(Entry)
  <1>1. ASSUME NEW k \in 0 .. Len(ledger) PROVE SubSeq(ledger, 1, k) \in Seq(Entry)
    OBVIOUS
  <1>2. ASSUME NEW k \in DOMAIN ledger, NEW e \in Entry
        PROVE  [ledger EXCEPT ![k] = e] \in Seq(Entry)
    OBVIOUS
  <1>3. QED
    BY <1>1, <1>2 DEF Rewritten

LEMMA EveryActionCommits == TypeOK /\ Next => Commits
  <1> SUFFICES ASSUME TypeOK, Next PROVE Commits
    OBVIOUS
  <1>0. Tip.active \in [Id -> Row \cup {NoRow}] /\ Tip.history \in Seq(Entry)
    BY TipTyped DEF Profile
  <1>1. PICK d \in Declarations :
            \/ \E id \in Id, row \in Row : WriteRow(id, row, d)
            \/ \E id \in Id : DropRow(id, d)
            \/ \E e \in Entry : CloseRow(e, d)
            \/ RewriteLedger(d)
    BY DEF Next
  <1>2. ASSUME NEW id \in Id, NEW row \in Row \cup {NoRow}
        PROVE  [Tip.active EXCEPT ![id] = row] \in [Id -> Row \cup {NoRow}]
    BY <1>0
  <1>3. ASSUME NEW id \in Id, NEW row \in Row, WriteRow(id, row, d) PROVE Commits
    BY <1>0, <1>2, <1>3, TippedTyped DEF WriteRow, Commits
  <1>4. ASSUME NEW id \in Id, DropRow(id, d) PROVE Commits
    BY <1>0, <1>2, <1>4, TippedTyped DEF DropRow, Commits
  <1>5. ASSUME NEW e \in Entry, CloseRow(e, d) PROVE Commits
    <2>1. e.id \in Id /\ Append(Tip.history, e) \in Seq(Entry)
      BY <1>0, <1>5 DEF Entry
    <2>2. QED
      BY <1>2, <1>5, <2>1, TippedTyped DEF CloseRow, Commits
  <1>6. ASSUME RewriteLedger(d) PROVE Commits
    BY <1>0, <1>6, RewrittenTyped, TippedTyped DEF RewriteLedger, Commits
  <1>7. QED
    BY <1>1, <1>3, <1>4, <1>5, <1>6

-----------------------------------------------------------------------------
(* One comparison                                                          *)

(* The ledger of an accepted profile is that of its base and the entries   *)
(* appended to it.                                                         *)
LEMMA LedgerSplits ==
  ASSUME NEW p \in Profile, NEW base \in Profile, HistoryIsExtended(p, base)
  PROVE  Entries(p) = Entries(base) \cup Appended(p, base)
  <1>1. DOMAIN base.history \subseteq DOMAIN p.history
    BY DEF HistoryIsExtended, Profile
  <1>2. QED
    BY <1>1 DEF HistoryIsExtended, Entries, Appended

(* What the engine compares makes an accepted profile succeed its base.    *)
LEMMA AcceptedSucceeds ==
  ASSUME NEW p \in Profile, NEW base \in Profile, NEW commit,
         HistoryIsExtended(p, base), RowsFollow(p, base, commit)
  PROVE  Succeeds(base, p)
  <1>1. OneWay(base, p)
    BY DEF RowsFollow, RowFollows, TransitionFollows, OneWay, IsModule, Active
  <1>2. Kept(base, p)
    BY LedgerSplits DEF RowsFollow, Kept, Closes, Active
  <1>3. Steady(base, p)
    BY DEF RowsFollow, RowFollows, TransitionFollows, Steady, IsModule, Active
  <1>4. QED
    BY <1>1, <1>2, <1>3 DEF Succeeds

(* A retirement does not come back: active before and after, it was active *)
(* in between.                                                             *)
LEMMA NoGap ==
  ASSUME NEW x, NEW y, NEW z, Kept(x, y), Kept(y, z), ProfileWellFormed(z),
         NEW id \in Active(x), id \in Active(z)
  PROVE  id \in Active(y)
  BY DEF Kept, ProfileWellFormed

LEMMA SucceedsTransitive ==
  ASSUME NEW x, NEW y, NEW z, Succeeds(x, y), Succeeds(y, z), ProfileWellFormed(z)
  PROVE  Succeeds(x, z)
  <1>0. \A id \in Active(x) \cap Active(z) : id \in Active(y)
    BY NoGap DEF Succeeds
  <1>1. OneWay(x, z)
    BY <1>0 DEF Succeeds, OneWay, IsModule
  <1>2. Kept(x, z)
    <2>1. Entries(x) \subseteq Entries(y) /\ Entries(y) \subseteq Entries(z)
      BY DEF Succeeds, Kept
    <2>2. ASSUME NEW id \in Active(x), id \notin Active(z)
          PROVE  \E e \in Entries(z) : e.id = id /\ e.relation = x.active[id].relation
      <3>1. CASE id \in Active(y)
        <4>1. y.active[id].relation = x.active[id].relation
          BY <3>1 DEF Succeeds, OneWay
        <4>2. QED
          BY <2>2, <3>1, <4>1 DEF Succeeds, Kept
      <3>2. CASE id \notin Active(y)
        BY <2>1, <3>2 DEF Succeeds, Kept
      <3>3. QED
        BY <3>1, <3>2
    <2>3. QED
      BY <2>1, <2>2 DEF Kept
  <1>3. Steady(x, z)
    BY <1>0 DEF Succeeds, OneWay, Steady, IsModule
  <1>4. QED
    BY <1>1, <1>2, <1>3 DEF Succeeds

(* The names of a profile stay names of its successors ...                 *)
LEMMA NamesStay ==
  ASSUME NEW x, NEW y, Succeeds(x, y)
  PROVE  Names(x) \subseteq Names(y)
  <1>1. ASSUME NEW id \in Active(x)
        PROVE  <<id, x.active[id].relation>> \in Names(y)
    <2>1. CASE id \in Active(y)
      BY <2>1 DEF Succeeds, OneWay, Names
    <2>2. CASE id \notin Active(y)
      BY <2>2 DEF Succeeds, Kept, Names
    <2>3. QED
      BY <2>1, <2>2
  <1>2. ASSUME NEW e \in Entries(x) PROVE <<e.id, e.relation>> \in Names(y)
    BY DEF Succeeds, Kept, Names
  <1>3. QED
    BY <1>1, <1>2 DEF Names

(* ... and within one profile an id and a relation belong together.        *)
LEMMA NamesMatch ==
  ASSUME NEW p, ProfileWellFormed(p), NEW m \in Names(p), NEW n \in Names(p)
  PROVE  m[1] = n[1] <=> m[2] = n[2]
  <1>1. ASSUME NEW e \in Entries(p), NEW f \in Entries(p)
        PROVE  e.id = f.id <=> e.relation = f.relation
    BY DEF ProfileWellFormed, Entries
  <1>2. ASSUME NEW id \in Active(p), NEW other \in Active(p)
        PROVE  id = other <=> p.active[id].relation = p.active[other].relation
    BY DEF ProfileWellFormed
  <1>3. ASSUME NEW e \in Entries(p), NEW id \in Active(p)
        PROVE  id # e.id /\ p.active[id].relation # e.relation
    BY DEF ProfileWellFormed
  <1>4. QED
    BY <1>1, <1>2, <1>3 DEF Names

-----------------------------------------------------------------------------
(* One commit                                                              *)

LEMMA CommitTyped ==
  ASSUME TypeOK, NEW p \in Profile, Accept(p)
  PROVE  /\ TypeOK'
         /\ Len(main') = Len(main) + 1
         /\ main'[Len(main) + 1] = p
         /\ \A k \in DOMAIN main : main'[k] = main[k]
         /\ DOMAIN main = 1 .. Len(main)
         /\ DOMAIN main' = DOMAIN main \cup {Len(main) + 1}
         /\ Tip' = p
  <1>1. main \in Seq(Profile) /\ Len(main) \in Nat /\ main' = Append(main, p)
    BY DEF TypeOK, Accept, Commit
  <1>2. main' \in Seq(Profile) /\ Len(main') = Len(main) + 1
    BY <1>1
  <1>3. Len(main') \in Commit
    BY <1>1, <1>2, MaxCommitsAssumption DEF Accept, Commit
  <1>4. main'[Len(main) + 1] = p /\ \A k \in 1 .. Len(main) : main'[k] = main[k]
    BY <1>1
  <1>5. /\ DOMAIN main = 1 .. Len(main)
        /\ DOMAIN main' = DOMAIN main \cup {Len(main) + 1}
    BY <1>1, <1>2
  <1>6. QED
    BY <1>2, <1>3, <1>4, <1>5 DEF TypeOK, Tip

(* An accepted profile succeeds every commit before it.                    *)
LEMMA SucceedsAll ==
  ASSUME IInv, NEW p \in Profile, Accept(p), NEW j \in DOMAIN main
  PROVE  Succeeds(main[j], p)
  <1>0. TypeOK /\ Tip \in Profile /\ Len(main) \in Nat \ {0} /\ main \in Seq(Profile)
    BY TipTyped DEF IInv, TypeOK
  <1>1. Succeeds(Tip, p)
    BY <1>0, AcceptedSucceeds DEF Accept, TransitionsHold, Tip
  <1>2. CASE j = Len(main)
    BY <1>1, <1>2 DEF Tip
  <1>3. CASE j # Len(main)
    <2>1. j < Len(main) /\ Len(main) \in DOMAIN main
      BY <1>0, <1>3
    <2>2. Succeeds(main[j], Tip)
      BY <2>1 DEF IInv, History, Tip
    <2>3. ProfileWellFormed(p)
      BY DEF Accept
    <2>4. QED
      BY <1>1, <2>2, <2>3, SucceedsTransitive
  <1>4. QED
    BY <1>2, <1>3

LEMMA HistoryStep ==
  ASSUME IInv, NEW p \in Profile, Accept(p)
  PROVE  Parsed' /\ History'
  <1>0. TypeOK /\ Len(main) \in Nat
    BY TipTyped DEF IInv
  <1>1. Parsed'
    BY <1>0, CommitTyped DEF IInv, Parsed, Accept
  <1>2. ASSUME NEW j \in DOMAIN main', NEW k \in DOMAIN main', j < k
        PROVE  Succeeds(main'[j], main'[k])
    <2>0. j \in DOMAIN main
      BY <1>0, <1>2, CommitTyped
    <2>1. CASE k \in DOMAIN main
      BY <1>0, <1>2, <2>0, <2>1, CommitTyped DEF IInv, History
    <2>2. CASE k = Len(main) + 1
      BY <1>0, <2>0, <2>2, CommitTyped, SucceedsAll
    <2>3. QED
      BY <1>0, <2>1, <2>2, CommitTyped
  <1>3. QED
    BY <1>1, <1>2 DEF History

(* A truth about a retirement that is no longer legacy outlives a commit.  *)
LEMMA ToldStays ==
  ASSUME TypeOK, NEW p \in Profile, Accept(p), NEW id, NEW t,
         Told(id, t, main), ~WasLegacy(id, p)
  PROVE  Told(id, t, main')
  BY CommitTyped DEF Told

(* The rows of an accepted profile tell the truth: a row activated by this *)
(* commit was legacy at the tip, and had been the same ever since.         *)
LEMMA RowsStep ==
  ASSUME IInv, NEW p \in Profile, Accept(p)
  PROVE  RowsTellTheBranch'
  <1>0. /\ TypeOK /\ Tip \in Profile /\ Len(main) \in Nat \ {0}
        /\ Len(main) \in DOMAIN main
    BY TipTyped DEF IInv, TypeOK
  <1> SUFFICES ASSUME NEW id \in Active(p), IsModule(p.active[id])
               PROVE  Told(id, p.active[id].transition, main')
    BY <1>0, CommitTyped DEF RowsTellTheBranch
  <1> DEFINE t == p.active[id].transition
             n == Len(main)
  <1>1. ~WasLegacy(id, p)
    BY DEF WasLegacy
  <1>2. t.historical \in DOMAIN main /\ t.displaced \in main[t.historical].declared
    BY DEF Accept, TransitionsHold, HistoricallyBound
  <1>3. CASE id \notin Active(Tip)
    <2>1. ASSUME NEW j \in DOMAIN main PROVE id \notin Active(main[j])
      <3>1. CASE j = n
        BY <1>3, <3>1 DEF Tip
      <3>2. CASE j # n
        <4>1. Kept(main[j], Tip)
          BY <1>0, <3>2 DEF IInv, TypeOK, History, Succeeds, Tip
        <4>2. Kept(Tip, p)
          BY <1>0, SucceedsAll DEF Succeeds, Tip
        <4>3. QED
          BY <1>3, <4>1, <4>2, NoGap DEF Accept
      <3>3. QED
        BY <3>1, <3>2
    <2>2. Told(id, t, main)
      BY <1>2, <2>1 DEF Told, WasLegacy
    <2>3. QED
      BY <1>0, <1>1, <2>2, ToldStays
  <1>4. CASE id \in Active(Tip) /\ IsModule(Tip.active[id])
    <2>1. Told(id, Tip.active[id].transition, main)
      BY <1>4 DEF IInv, RowsTellTheBranch
    <2>2. OneWay(Tip, p)
      BY <1>0, SucceedsAll DEF Succeeds, Tip
    <2>3. t = Tip.active[id].transition
      BY <1>4, <2>2 DEF OneWay
    <2>4. QED
      BY <1>0, <1>1, <2>1, <2>3, ToldStays
  <1>5. CASE id \in Active(Tip) /\ ~IsModule(Tip.active[id])
    <2> DEFINE b == Tip.active[id].transition
    <2>1. RowFollows(Tip.active[id], p.active[id], n)
      BY <1>5 DEF Accept, TransitionsHold, RowsFollow, Tip
    <2>2. t.displaced = b.current /\ t.current = b.target /\ t.historical = n
      BY <1>5, <2>1 DEF RowFollows, TransitionFollows, Activates, IsModule
    <2>3. ASSUME NEW j \in DOMAIN main, WasLegacy(id, main[j])
          PROVE  main[j].active[id].transition = b
      <3>1. CASE j = n
        BY <3>1 DEF Tip
      <3>2. CASE j # n
        <4>1. Steady(main[j], Tip)
          BY <1>0, <3>2 DEF IInv, TypeOK, History, Succeeds, Tip
        <4>2. QED
          BY <1>5, <2>3, <4>1 DEF Steady, WasLegacy
      <3>3. QED
        BY <3>1, <3>2
    <2>4. WasLegacy(id, main[n])
      BY <1>5 DEF WasLegacy, Tip
    <2>5. \A j \in DOMAIN main : j <= n
      BY <1>0 DEF TypeOK
    <2>6. Told(id, t, main)
      BY <1>2, <2>2, <2>3, <2>4, <2>5 DEF Told
    <2>7. QED
      BY <1>0, <1>1, <2>6, ToldStays
  <1>6. QED
    BY <1>3, <1>4, <1>5

(* So does the ledger: an entry appended by this commit is the one that    *)
(* closes its row, as no two entries have the same id.                     *)
LEMMA LedgerStep ==
  ASSUME IInv, NEW p \in Profile, Accept(p)
  PROVE  LedgerTellsTheBranch'
  <1>0. /\ TypeOK /\ Tip \in Profile /\ Tip = main[Len(main)]
        /\ ProfileWellFormed(p)
        /\ HistoryIsExtended(p, Tip) /\ AppendedWereActive(p, Tip)
        /\ RowsFollow(p, Tip, Len(main))
    BY TipTyped DEF IInv, Accept, TransitionsHold, Tip
  <1> SUFFICES ASSUME NEW e \in Entries(p) PROVE Told(e.id, e.transition, main')
    BY <1>0, CommitTyped DEF LedgerTellsTheBranch
  <1>1. e.id \notin Active(p)
    BY <1>0 DEF ProfileWellFormed
  <1>2. ~WasLegacy(e.id, p)
    BY <1>1 DEF WasLegacy
  <1>3. CASE e \in Entries(Tip)
    BY <1>0, <1>2, <1>3, ToldStays DEF IInv, LedgerTellsTheBranch
  <1>4. CASE e \in Appended(p, Tip)
    <2>1. e.id \in Active(Tip)
      BY <1>0, <1>4 DEF AppendedWereActive
    <2>2. PICK f \in Appended(p, Tip) : Closes(f, e.id, Tip.active[e.id])
      BY <1>0, <1>1, <2>1 DEF RowsFollow
    <2>3. f = e
      BY <1>0, <2>2, LedgerSplits DEF Closes, ProfileWellFormed, Entries
    <2>4. IsModule(Tip.active[e.id]) /\ e.transition = Tip.active[e.id].transition
      BY <2>2, <2>3 DEF Closes
    <2>5. Told(e.id, e.transition, main)
      BY <2>1, <2>4 DEF IInv, RowsTellTheBranch
    <2>6. QED
      BY <1>0, <1>2, <2>5, ToldStays
  <1>5. QED
    BY <1>0, <1>3, <1>4, LedgerSplits

-----------------------------------------------------------------------------
(* The branch                                                              *)

LEMMA InitHolds == Init => IInv
  <1> SUFFICES ASSUME NEW d \in Declarations, main = <<Empty(d)>> PROVE IInv
    BY DEF Init
  <1>1. Empty(d) \in Profile
    BY DeclarationsAssumption DEF Empty, Profile
  <1>2. main \in Seq(Profile) /\ Len(main) = 1 /\ DOMAIN main = {1} /\ main[1] = Empty(d)
    BY <1>1
  <1>3. Active(Empty(d)) = {} /\ Entries(Empty(d)) = {} /\ DOMAIN Empty(d).history = {}
    BY DEF Empty, Active, Entries
  <1>4. TypeOK
    BY <1>2, MaxCommitsAssumption DEF TypeOK, Commit
  <1>5. Parsed
    BY <1>2, <1>3 DEF Parsed, ProfileWellFormed
  <1>6. History
    BY <1>2 DEF History
  <1>7. RowsTellTheBranch /\ LedgerTellsTheBranch
    BY <1>2, <1>3 DEF RowsTellTheBranch, LedgerTellsTheBranch, Tip
  <1>8. QED
    BY <1>4, <1>5, <1>6, <1>7 DEF IInv

LEMMA Inductive == Spec => []IInv
  <1>1. IInv /\ [Next]_main => IInv'
    <2>1. CASE IInv /\ Next
      <3>1. PICK p \in Profile : Accept(p)
        BY <2>1, EveryActionCommits DEF IInv, Commits
      <3>2. QED
        BY <2>1, <3>1, CommitTyped, HistoryStep, RowsStep, LedgerStep DEF IInv
    <2>2. CASE IInv /\ UNCHANGED main
      BY <2>2 DEF IInv, TypeOK, Parsed, History, RowsTellTheBranch,
                  LedgerTellsTheBranch, Tip
    <2>3. QED
      BY <2>1, <2>2
  <1>2. QED
    BY <1>1, InitHolds, PTL DEF Spec

(* On a branch of any length a retirement never changes its relation,      *)
(* never leaves module authority, and never goes back to draining.         *)
THEOREM OneWayOnTheBranch == Spec => []RetirementsAreOneWay
  <1>1. IInv => RetirementsAreOneWay
    BY DEF IInv, History, Succeeds, RetirementsAreOneWay
  <1>2. QED
    BY <1>1, Inductive, PTL

(* A retirement enrolled in some commit is accounted for in all later ones.*)
THEOREM NothingLost == Spec => []NothingVanishes
  <1>1. IInv => NothingVanishes
    BY DEF IInv, History, Succeeds, NothingVanishes
  <1>2. QED
    BY <1>1, Inductive, PTL

(* No two commits disagree on which id names which relation.               *)
THEOREM NamesReserved == Spec => []IdentitiesAreReserved
  <1>1. ASSUME IInv, NEW j \in DOMAIN main, NEW k \in DOMAIN main,
               NEW m \in Names(main[j]), NEW n \in Names(main[k])
        PROVE  m[1] = n[1] <=> m[2] = n[2]
    <2>0. j \in Nat /\ k \in Nat /\ (j < k => Succeeds(main[j], main[k]))
            /\ (k < j => Succeeds(main[k], main[j]))
            /\ ProfileWellFormed(main[j]) /\ ProfileWellFormed(main[k])
      BY <1>1 DEF IInv, TypeOK, History, Parsed
    <2>1. CASE j < k
      BY <2>0, <2>1, NamesStay, NamesMatch
    <2>2. CASE k < j
      BY <2>0, <2>2, NamesStay, NamesMatch
    <2>3. CASE j = k
      BY <2>0, <2>3, NamesMatch
    <2>4. QED
      BY <2>0, <2>1, <2>2, <2>3
  <1>2. IInv => IdentitiesAreReserved
    BY <1>1 DEF IdentitiesAreReserved
  <1>3. QED
    BY <1>2, Inductive, PTL

(* What the ledger says of each closed retirement is what happened.        *)
THEOREM LedgerIsTrue == Spec => []LedgerTellsTheBranch
  <1>1. IInv => LedgerTellsTheBranch
    BY DEF IInv
  <1>2. QED
    BY <1>1, Inductive, PTL

-----------------------------------------------------------------------------
(* The life of a retirement                                                *)

LEMMA RowTyped ==
  ASSUME NEW p \in Profile, NEW id \in Active(p)
  PROVE  /\ p.active[id] \in Row
         /\ p.active[id].source \in {"draining", "drained"}
         /\ p.active[id].transition.state \in {"legacy_active", "module_active"}
  <1>1. p.active \in [Id -> Row \cup {NoRow}] /\ id \in Id /\ p.active[id] # NoRow
    BY DEF Profile, Active
  <1>2. p.active[id] \in Row
    BY <1>1
  <1>3. p.active[id].transition \in Legacy \cup Module
    BY <1>2 DEF Row
  <1>4. QED
    BY <1>2, <1>3 DEF Row, Legacy, Module

LEMMA EntryTyped ==
  ASSUME NEW p \in Profile, NEW e \in Entries(p)
  PROVE  e \in Entry /\ e.id \in Id /\ e.closure \in Closure
  <1>1. p.history \in Seq(Entry)
    BY DEF Profile
  <1>2. e \in Entry
    BY <1>1 DEF Entries
  <1>3. QED
    BY <1>2 DEF Entry

(* In a parsed profile an entry is the only account of its retirement.     *)
LEMMA EntryTells ==
  ASSUME NEW p \in Profile, ProfileWellFormed(p), NEW e \in Entries(p)
  PROVE  /\ e.id \notin Active(p) /\ e.id \in Closed(p)
         /\ LifeOf(p, e.id) = [stage |-> e.closure, relation |-> e.relation,
                               transition |-> e.transition]
  <1>1. e.id \notin Active(p) /\ e.id \in Closed(p)
    BY DEF ProfileWellFormed, Closed
  <1>2. ASSUME NEW x \in Entries(p), x.id = e.id PROVE x = e
    BY <1>2 DEF ProfileWellFormed, Entries
  <1>3. (CHOOSE x \in Entries(p) : x.id = e.id) = e
    BY <1>2
  <1>4. QED
    BY <1>1, <1>3 DEF LifeOf

LEMMA RowTells ==
  ASSUME NEW p, NEW id \in Active(p)
  PROVE  LifeOf(p, id) =
             [stage |-> IF IsModule(p.active[id]) THEN p.active[id].source ELSE "legacy",
              relation |-> p.active[id].relation,
              transition |-> p.active[id].transition]
  BY DEF LifeOf

(* A row that stays keeps its place in the life of its retirement, or goes *)
(* one step on: the engine compares the transition and the source apart,   *)
(* and the parser ties a drained source to module authority.               *)
LEMMA RowMoves ==
  ASSUME NEW p \in Profile, NEW base \in Profile, NEW commit,
         ProfileWellFormed(base),
         NEW id \in Active(base), id \in Active(p),
         RowFollows(base.active[id], p.active[id], commit)
  PROVE  \/ LifeOf(p, id) = LifeOf(base, id)
         \/ Life!Moves(LifeOf(base, id), LifeOf(p, id))
  <1> DEFINE before == base.active[id]
             after == p.active[id]
  <1>0. /\ before.source \in {"draining", "drained"}
        /\ after.source \in {"draining", "drained"}
        /\ after.relation = before.relation
        /\ before.source = "drained" => after.source = "drained"
        /\ before.source = "drained" => IsModule(before)
    BY RowTyped DEF RowFollows, ProfileWellFormed, RowWellFormed
  <1>1. CASE after.transition = before.transition
    <2>1. IsModule(after) <=> IsModule(before)
      BY <1>1 DEF IsModule
    <2>2. CASE ~IsModule(before)
      BY <1>0, <1>1, <2>1, <2>2, RowTells
    <2>3. CASE IsModule(before) /\ after.source = before.source
      BY <1>0, <1>1, <2>1, <2>3, RowTells
    <2>4. CASE IsModule(before) /\ after.source # before.source
      <3>1. before.source = "draining" /\ after.source = "drained"
        BY <1>0, <2>4
      <3>2. /\ LifeOf(base, id) = [stage |-> "draining", relation |-> before.relation,
                                   transition |-> before.transition]
            /\ LifeOf(p, id) = [stage |-> "drained", relation |-> before.relation,
                                transition |-> before.transition]
        BY <1>0, <1>1, <2>1, <2>4, <3>1, RowTells
      <3>3. Life!Proceeds(LifeOf(base, id), LifeOf(p, id))
        BY <3>2 DEF Life!Proceeds
      <3>4. QED
        BY <3>3 DEF Life!Moves
    <2>5. QED
      BY <2>2, <2>3, <2>4
  <1>2. CASE after.transition # before.transition
    <2>1. /\ before.transition.state = "legacy_active"
          /\ after.transition.state = "module_active"
          /\ after.transition.displaced = before.transition.current
          /\ after.transition.current = before.transition.target
      BY <1>2 DEF RowFollows, TransitionFollows, Activates
    <2>2. /\ LifeOf(base, id) = [stage |-> "legacy", relation |-> before.relation,
                                 transition |-> before.transition]
          /\ LifeOf(p, id) = [stage |-> after.source, relation |-> before.relation,
                              transition |-> after.transition]
      BY <1>0, <2>1, RowTells DEF IsModule
    <2>3. Life!Activates(LifeOf(base, id), LifeOf(p, id))
      BY <1>0, <2>1, <2>2 DEF Life!Activates
    <2>4. QED
      BY <2>3 DEF Life!Moves
  <1>3. QED
    BY <1>1, <1>2

(* What an accepted profile does to the life of one retirement.            *)
LEMMA LifeMoves ==
  ASSUME NEW p \in Profile, NEW base \in Profile, NEW commit,
         ProfileWellFormed(p), ProfileWellFormed(base),
         HistoryIsExtended(p, base), AppendedWereActive(p, base),
         RowsFollow(p, base, commit), NEW id \in Id
  PROVE  \/ LifeOf(p, id) = LifeOf(base, id)
         \/ Life!Moves(LifeOf(base, id), LifeOf(p, id))
  <1>0. Entries(p) = Entries(base) \cup Appended(p, base)
    BY LedgerSplits
  <1>1. CASE id \in Active(base) /\ id \in Active(p)
    BY <1>1, RowMoves DEF RowsFollow
  <1>2. CASE id \in Active(base) /\ id \notin Active(p)
    <2> DEFINE row == base.active[id]
    <2>1. PICK e \in Appended(p, base) : Closes(e, id, row)
      BY <1>2 DEF RowsFollow
    <2>2. LifeOf(p, id) = [stage |-> e.closure, relation |-> e.relation,
                           transition |-> e.transition]
      BY <1>0, <2>1, EntryTells DEF Closes
    <2>3. LifeOf(base, id) = [stage |-> row.source, relation |-> row.relation,
                              transition |-> row.transition]
      BY <1>2, <2>1, RowTells DEF Closes
    <2>4. /\ <<row.source, e.closure>> \in {<<"draining", "retained">>,
                                            <<"drained", "retained">>,
                                            <<"drained", "gone">>}
          /\ e.relation = row.relation /\ e.transition = row.transition
      BY <1>2, <2>1, RowTyped DEF Closes
    <2>5. Life!Proceeds(LifeOf(base, id), LifeOf(p, id))
      BY <2>2, <2>3, <2>4 DEF Life!Proceeds
    <2>6. QED
      BY <2>5 DEF Life!Moves
  <1>3. CASE id \in Closed(base)
    <2>1. PICK e \in Entries(base) : e.id = id
      BY <1>3 DEF Closed
    <2>2. e \in Entries(p)
      BY <1>0
    <2>3. LifeOf(p, e.id) = LifeOf(base, e.id)
      BY <2>2, EntryTells
    <2>4. QED
      BY <2>1, <2>3
  <1>4. CASE id \notin Active(base) /\ id \notin Closed(base)
    <2>1. LifeOf(base, id) = [stage |-> "unknown"]
      BY <1>4 DEF LifeOf
    <2>2. id \notin Closed(p)
      BY <1>0, <1>4 DEF AppendedWereActive, Closed
    <2>3. CASE id \notin Active(p)
      BY <2>1, <2>2, <2>3 DEF LifeOf
    <2>4. CASE id \in Active(p)
      <3>1. LifeOf(p, id).stage \in {"legacy", "draining", "drained"}
        BY <2>4, RowTells, RowTyped
      <3>2. QED
        BY <2>1, <3>1 DEF Life!Moves, Life!Enrols, Life!Known
    <2>5. QED
      BY <2>3, <2>4
  <1>5. QED
    BY <1>1, <1>2, <1>3, <1>4

(* The lives in a parsed profile have relations of their own.              *)
LEMMA LivesDistinct ==
  ASSUME NEW p \in Profile, ProfileWellFormed(p), NEW id \in Id, NEW other \in Id,
         Life!Known(LifeOf(p, id)), Life!Known(LifeOf(p, other)),
         LifeOf(p, id).relation = LifeOf(p, other).relation
  PROVE  id = other
  <1>1. ASSUME NEW any \in Id, Life!Known(LifeOf(p, any))
        PROVE  <<any, LifeOf(p, any).relation>> \in Names(p)
    <2>1. CASE any \in Active(p)
      BY <2>1, RowTells DEF Names
    <2>2. CASE any \in Closed(p)
      <3>1. PICK e \in Entries(p) : e.id = any
        BY <2>2 DEF Closed
      <3>2. LifeOf(p, e.id) = [stage |-> e.closure, relation |-> e.relation,
                               transition |-> e.transition]
        BY EntryTells
      <3>3. LifeOf(p, any).relation = e.relation
        BY <3>1, <3>2
      <3>4. QED
        BY <3>1, <3>3 DEF Names
    <2>3. any \in Active(p) \cup Closed(p)
      BY <1>1 DEF LifeOf, Life!Known
    <2>4. QED
      BY <2>1, <2>2, <2>3
  <1> DEFINE m == <<id, LifeOf(p, id).relation>>
             n == <<other, LifeOf(p, other).relation>>
  <1>2. m \in Names(p) /\ n \in Names(p)
    BY <1>1
  <1>3. m[1] = n[1] <=> m[2] = n[2]
    BY <1>2, NamesMatch
  <1>4. QED
    BY <1>3

(* Every commit takes each retirement at most one step through its life.   *)
LEMMA CommitMoves ==
  ASSUME IInv, NEW p \in Profile, Accept(p)
  PROVE  Life!Next
  <1>1. /\ TypeOK /\ Tip \in Profile /\ ProfileWellFormed(p) /\ ProfileWellFormed(Tip)
        /\ HistoryIsExtended(p, Tip) /\ AppendedWereActive(p, Tip)
        /\ RowsFollow(p, Tip, Len(main))
    <2>1. Len(main) \in DOMAIN main
      BY TipTyped DEF IInv, TypeOK
    <2>2. QED
      BY <2>1, TipTyped DEF IInv, Parsed, Accept, TransitionsHold, Tip
  <1>2. Tip' = p
    BY <1>1, CommitTyped
  <1>3. ASSUME NEW id \in Id
        PROVE  \/ LifeOf(Tip, id)' = LifeOf(Tip, id)
               \/ Life!Moves(LifeOf(Tip, id), LifeOf(Tip, id)')
    <2>1. LifeOf(Tip, id)' = LifeOf(p, id)
      BY <1>2 DEF LifeOf, Active, Closed, Entries, IsModule
    <2>2. QED
      BY <1>1, <2>1, LifeMoves
  <1>4. ASSUME NEW id \in Id, NEW other \in Id,
               Life!Known(LifeOf(Tip, id)'), Life!Known(LifeOf(Tip, other)'),
               LifeOf(Tip, id)'.relation = LifeOf(Tip, other)'.relation
        PROVE  id = other
    <2>1. LifeOf(Tip, id)' = LifeOf(p, id) /\ LifeOf(Tip, other)' = LifeOf(p, other)
      BY <1>2 DEF LifeOf, Active, Closed, Entries, IsModule
    <2>2. QED
      BY <1>1, <1>4, <2>1, LivesDistinct
  <1>5. QED
    BY <1>3, <1>4 DEF Life!Next, Life!Distinct

(* The branch implements the life of each retirement: enrolled, taken over *)
(* by the target it named, drained, closed, at most one step a commit, in  *)
(* that order and never back, each relation with one retirement for ever.  *)
THEOREM LedgerImplementsLife == Spec => ImplementsLife
  <1>1. Init => Life!Init
    <2> SUFFICES ASSUME NEW d \in Declarations, main = <<Empty(d)>> PROVE Life!Init
      BY DEF Init
    <2>1. Tip = Empty(d)
      BY DEF Tip
    <2>2. Active(Empty(d)) = {} /\ Closed(Empty(d)) = {}
      BY DEF Empty, Active, Entries, Closed
    <2>3. \A id \in Id : LifeOf(Tip, id) = [stage |-> "unknown"]
      BY <2>1, <2>2 DEF LifeOf
    <2>4. QED
      BY <2>3 DEF Life!Init, Life!Unknown
  <1>2. IInv /\ [Next]_main => [Life!Next]_([id \in Id |-> LifeOf(Tip, id)])
    <2>1. CASE IInv /\ Next
      <3>1. PICK p \in Profile : Accept(p)
        BY <2>1, EveryActionCommits DEF IInv, Commits
      <3>2. QED
        BY <2>1, <3>1, CommitMoves
    <2>2. CASE UNCHANGED main
      BY <2>2 DEF LifeOf, Tip, Active, Closed, Entries, IsModule
    <2>3. QED
      BY <2>1, <2>2
  <1>3. QED
    BY <1>1, <1>2, Inductive, PTL DEF Spec, ImplementsLife, Life!Spec

-----------------------------------------------------------------------------
(* The evidence of teardowns                                               *)

LEMMA LeastNat ==
  ASSUME NEW T \in SUBSET Nat, T # {}
  PROVE  \E x \in T : \A y \in T : x <= y
  <1>1. IsWellFoundedOn(OpToRel(<, Nat), Nat)
    BY NatLessThanWellFounded
  <1>2. PICK x \in T : \A y \in T : ~(<<y, x>> \in OpToRel(<, Nat))
    BY <1>1, WFMin
  <1>3. \A y \in T : ~(y < x)
    BY <1>2 DEF OpToRel
  <1>4. QED
    BY <1>3

LEMMA GreatestNat ==
  ASSUME NEW n \in Nat, NEW T \in SUBSET (0 .. n), T # {}
  PROVE  \E x \in T : \A y \in T : y <= x
  <1> DEFINE U == {u \in 0 .. n : n - u \in T}
  <1>1. U \in SUBSET Nat /\ U # {}
    <2>1. PICK x \in T : TRUE
      OBVIOUS
    <2>2. n - x \in 0 .. n /\ n - (n - x) = x
      BY <2>1
    <2>3. n - x \in U
      BY <2>2
    <2>4. U \subseteq Nat
      OBVIOUS
    <2> HIDE DEF U
    <2> QED BY <2>3, <2>4
  <1>2. PICK u \in U : \A v \in U : u <= v
    <2> HIDE DEF U
    <2> QED BY <1>1, LeastNat
  <1>3. PICK x \in T : x = n - u
    OBVIOUS
  <1>4. \A y \in T : n - y \in U
    <2> SUFFICES ASSUME NEW y \in T PROVE n - y \in U
      OBVIOUS
    <2> n - y \in 0 .. n /\ n - (n - y) = y
      OBVIOUS
    <2> QED OBVIOUS
  <1>5. \A y \in T : y <= x
    <2> SUFFICES ASSUME NEW y \in T PROVE y <= x
      OBVIOUS
    <2>1. u <= n - y /\ u \in 0 .. n
      <3> HIDE DEF U
      <3> QED BY <1>1, <1>2, <1>4 DEF U
    <2> QED BY <1>3, <2>1
  <1>6. QED
    BY <1>5

(* j is the last observation of the target of k that is before k.          *)
IsBefore(l, k, j) ==
    /\ j \in 0 .. k - 1
    /\ \A i \in 1 .. k - 1 : l[i].target = l[k].target => i <= j

(* An observation tells what happened, and what came before it.            *)
TellsTheTry(l, k) ==
    LET o == l[k]
    IN  /\ o.end # "pre_drop" => IsBefore(l, k, o.before)
        /\ o.measured = (o.end # "fence_acquisition")
        /\ o.edges = Seen(o.end, o.found)
        /\ IF o.end \in Stage \cup {"committed"}
           THEN /\ o.passed = Passes(o.revision, o.end, o.found, o.left)
                /\ o.left \in Leaves(o.revision, o.end, o.found)
           ELSE o.end \in {"pre_drop", "post_upgrade"} /\ o.left = o.found

(* What the parser and the engine have seen of a chain they accept: each   *)
(* observation but the first follows the one in the chain before it.       *)
Follows(l, chain, k) ==
    IF \A j \in chain : k <= j THEN l[k].end = "pre_drop"
    ELSE \E j \in chain :
            /\ j < k /\ \A i \in chain : i < k => i <= j
            /\ l[k].before = j /\ l[k].end # "pre_drop"
            /\ Order(l[j]) <= Order(l[k])
            /\ l[k].end = "post_upgrade" => l[j].end = "committed"

Supported(l, at, gate, chain) ==
    /\ chain \subseteq DOMAIN l
    /\ \A j, k \in chain : l[j].target = l[k].target
    /\ \A k \in chain : /\ l[k].revision = at /\ PhaseHolds(l[k], Reviewed[at])
                        /\ Follows(l, chain, k)
    /\ gate = "post_upgrade" => \A end \in {"committed", "post_upgrade"} :
                                    \E k \in chain : l[k].end = end

(* What is admitted is still supported by the log and the head.            *)
AdmittedIsSupported ==
    admitted = NoBundle \/ Supported(log, head, admitted.gate, admitted.chain)

Observations ==
    [target : Target, revision : Revision, before : Nat, measured : BOOLEAN,
     end : Stage \cup {"committed", "pre_drop", "post_upgrade"},
     edges : SUBSET Edge, found : SUBSET Edge, left : SUBSET Edge,
     passed : SUBSET {"admission", "absent", "undone", "fenced", "rechecked", "ordered",
                      "restricted", "matched"}]

LogTypeOK ==
    /\ head \in Revision
    /\ catalogue \in [Target -> SUBSET Edge]
    /\ log \in Seq(Observations)

TeardownInv ==
    /\ LogTypeOK
    /\ \A k \in DOMAIN log : TellsTheTry(log, k)
    /\ AdmittedIsSupported

(* The last observation of a target is what its name says.                 *)
LEMMA LastOfIsLast ==
  ASSUME LogTypeOK, NEW t \in Target
  PROVE  /\ LastOf(t) \in 0 .. Len(log)
         /\ \A i \in DOMAIN log : log[i].target = t => i <= LastOf(t)
  <1> DEFINE of == {k \in DOMAIN log : log[k].target = t}
  <1>1. Len(log) \in Nat /\ DOMAIN log = 1 .. Len(log)
    BY DEF LogTypeOK
  <1>2. CASE of = {}
    BY <1>1, <1>2 DEF LastOf
  <1>3. CASE of # {}
    <2>1. of \in SUBSET (0 .. Len(log))
      BY <1>1
    <2>2. \E x \in of : \A y \in of : y <= x
      <3> HIDE DEF of
      <3> QED BY <1>1, <1>3, <2>1, GreatestNat
    <2>3. LastOf(t) = CHOOSE k \in of : \A j \in of : j <= k
      BY <1>3 DEF LastOf
    <2>4. LastOf(t) \in of /\ \A j \in of : j <= LastOf(t)
      <3> HIDE DEF of
      <3> QED BY <2>2, <2>3
    <2> QED BY <1>1, <2>4
  <1>4. QED
    BY <1>2, <1>3

(* One more observation that tells what happened keeps the log true.       *)
LEMMA ObservesKeeps ==
  ASSUME TeardownInv, NEW t \in Target,
         NEW end \in Stage \cup {"committed", "pre_drop", "post_upgrade"},
         NEW before \in 0 .. Len(log), NEW passed, NEW left \in SUBSET Edge,
         Observes(t, end, before, passed, left),
         passed \in SUBSET {"admission", "absent", "undone", "fenced", "rechecked",
                            "ordered", "restricted", "matched"},
         end # "pre_drop" => \A i \in DOMAIN log : log[i].target = t => i <= before,
         IF end \in Stage \cup {"committed"}
         THEN /\ passed = Passes(head, end, catalogue[t], left)
              /\ left \in Leaves(head, end, catalogue[t])
         ELSE left = catalogue[t]
  PROVE  TeardownInv'
  <1> DEFINE n == Len(log) + 1
             o == [target |-> t, revision |-> head, end |-> end, before |-> before,
                   measured |-> end # "fence_acquisition",
                   edges |-> Seen(end, catalogue[t]), passed |-> passed,
                   found |-> catalogue[t], left |-> left]
  <1>1. /\ log \in Seq(Observations) /\ Len(log) \in Nat /\ DOMAIN log = 1 .. Len(log)
        /\ head \in Revision /\ catalogue \in [Target -> SUBSET Edge]
        /\ catalogue[t] \in SUBSET Edge
    BY DEF TeardownInv, LogTypeOK
  <1>2. log' = Append(log, o) /\ head' = head /\ admitted' = NoBundle
    BY DEF Observes
  <1>3. o \in Observations
    BY <1>1 DEF Observations, Seen
  <1>4. /\ log' \in Seq(Observations) /\ DOMAIN log' = 1 .. n
        /\ \A k \in 1 .. Len(log) : log'[k] = log[k]
        /\ log'[n] = o
    <2> HIDE DEF o
    <2> QED BY <1>1, <1>2, <1>3
  <1>5. catalogue' \in [Target -> SUBSET Edge]
    BY <1>1 DEF Observes
  <1>6. ASSUME NEW k \in 1 .. Len(log) PROVE TellsTheTry(log', k)
    <2>1. TellsTheTry(log, k) /\ log'[k] = log[k]
      BY <1>1, <1>4 DEF TeardownInv
    <2>2. \A i \in 1 .. k - 1 : log'[i] = log[i]
      BY <1>1, <1>4
    <2>3. IsBefore(log, k, log[k].before) => IsBefore(log', k, log[k].before)
      BY <2>1, <2>2 DEF IsBefore
    <2> QED BY <2>1, <2>3 DEF TellsTheTry
  <1>7. TellsTheTry(log', n)
    <2>1. end # "pre_drop" => IsBefore(log', n, before)
      BY <1>1, <1>4 DEF IsBefore
    <2>2. /\ o.end = end /\ o.before = before /\ o.found = catalogue[t] /\ o.left = left
          /\ o.revision = head /\ o.passed = passed
          /\ o.edges = Seen(end, catalogue[t])
          /\ o.measured = (end # "fence_acquisition")
      OBVIOUS
    <2> HIDE DEF o
    <2> QED BY <1>4, <2>1, <2>2 DEF TellsTheTry
  <1>8. LogTypeOK'
    BY <1>1, <1>2, <1>4, <1>5 DEF LogTypeOK
  <1>9. \A k \in DOMAIN log' : TellsTheTry(log', k)
    <2> SUFFICES ASSUME NEW k \in DOMAIN log' PROVE TellsTheTry(log', k)
      OBVIOUS
    <2>1. k \in 1 .. Len(log) \/ k = n
      BY <1>1, <1>4
    <2> QED BY <1>6, <1>7, <2>1
  <1>10. QED
    BY <1>2, <1>8, <1>9 DEF TeardownInv, AdmittedIsSupported

LEMMA SupportsTells ==
  ASSUME TeardownInv, NEW gate, NEW r, NEW q, NEW chain \in SUBSET DOMAIN log,
         Supports([gate |-> gate, revision |-> r, rehearsal |-> q, chain |-> chain])
  PROVE  Supported(log, head, gate, chain)
  <1>1. DOMAIN log = 1 .. Len(log) /\ Len(log) \in Nat /\ chain \subseteq 1 .. Len(log)
    BY DEF TeardownInv, LogTypeOK
  <1>2. /\ r = head /\ ChainHolds(chain)
        /\ \A k \in chain : /\ \A j \in chain : log[k].target = log[j].target
                            /\ log[k].revision = r /\ PhaseHolds(log[k], Reviewed[head])
        /\ gate = "post_upgrade" =>
               {"committed", "post_upgrade"} \subseteq {log[k].end : k \in chain}
    BY DEF Supports, TargetHolds
  <1>3. ASSUME NEW k \in chain PROVE Follows(log, chain, k)
    <2> DEFINE earlier == {j \in chain : j < k}
               p == Previous(chain, k)
    <2>1. CASE earlier = {}
      <3>1. p = 0
        BY <2>1 DEF Previous
      <3>2. \A j \in chain : k <= j
        BY <1>1, <2>1
      <3> QED BY <1>2, <3>1, <3>2 DEF ChainHolds, Follows
    <2>2. CASE earlier # {}
      <3>1. earlier \in SUBSET (0 .. Len(log))
        BY <1>1
      <3>2. \E x \in earlier : \A y \in earlier : y <= x
        <4> HIDE DEF earlier
        <4> QED BY <1>1, <2>2, <3>1, GreatestNat
      <3>3. p = CHOOSE j \in earlier : \A i \in earlier : i <= j
        BY <2>2 DEF Previous
      <3>4. p \in earlier /\ \A i \in earlier : i <= p
        <4> HIDE DEF earlier, p
        <4> QED BY <3>2, <3>3
      <3>5. p \in chain /\ p < k /\ p # 0 /\ \A i \in chain : i < k => i <= p
        <4> HIDE DEF p
        <4> QED BY <1>1, <3>4
      <3>6. /\ log[k].before = p /\ log[k].end # "pre_drop"
            /\ Order(log[p]) <= Order(log[k])
            /\ log[k].end = "post_upgrade" => log[p].end = "committed"
        <4>1. LET j == p
              IN  /\ log[k].before = j
                  /\ IF j = 0 THEN log[k].end = "pre_drop"
                     ELSE /\ log[k].end # "pre_drop"
                          /\ Order(log[j]) <= Order(log[k])
                          /\ log[k].end = "post_upgrade" => log[j].end = "committed"
          BY <1>2 DEF ChainHolds
        <4> HIDE DEF p
        <4> QED BY <3>5, <4>1
      <3>7. ~(\A j \in chain : k <= j)
        <4> HIDE DEF p
        <4> QED BY <1>1, <3>5
      <3> HIDE DEF p
      <3> QED BY <3>5, <3>6, <3>7 DEF Follows
    <2> QED BY <2>1, <2>2
  <1>4. QED
    BY <1>2, <1>3 DEF Supported

LEMMA TeardownStep == TeardownInv /\ [TeardownNext]_teardownVars => TeardownInv'
  <1> SUFFICES ASSUME TeardownInv, [TeardownNext]_teardownVars PROVE TeardownInv'
    OBVIOUS
  <1>1. /\ LogTypeOK /\ Len(log) \in Nat /\ DOMAIN log = 1 .. Len(log)
        /\ \A t \in Target : catalogue[t] \in SUBSET Edge
    BY DEF TeardownInv, LogTypeOK
  <1>2. ASSUME NEW t \in Target, ObservePreDrop(t) PROVE TeardownInv'
    <2> DEFINE passed == IF catalogue[t] = Reviewed[head] THEN {"admission"} ELSE {}
    <2>1. Observes(t, "pre_drop", 0, passed, catalogue[t])
      BY <1>2 DEF ObservePreDrop
    <2>2. passed \in SUBSET {"admission", "absent", "undone", "fenced", "rechecked",
                             "ordered", "restricted", "matched"}
      OBVIOUS
    <2>3. "pre_drop" \notin Stage \cup {"committed"}
      BY DEF Stage
    <2>4. 0 \in 0 .. Len(log) /\ catalogue[t] \in SUBSET Edge
      BY <1>1
    <2> HIDE DEF passed
    <2> QED BY <2>1, <2>2, <2>3, <2>4, ObservesKeeps
  <1>3. ASSUME NEW t \in Target, NEW end \in Stage \cup {"committed"}, Try(t, end)
        PROVE  TeardownInv'
    <2>1. PICK left \in Leaves(head, end, catalogue[t]) :
              Observes(t, end, LastOf(t), Passes(head, end, catalogue[t], left), left)
      BY <1>3 DEF Try
    <2>2. left \in SUBSET Edge
      <3>1. Leaves(head, end, catalogue[t]) \subseteq SUBSET catalogue[t]
        BY DEF Leaves
      <3> QED BY <1>1, <2>1, <3>1
    <2>3. Passes(head, end, catalogue[t], left) \in
              SUBSET {"admission", "absent", "undone", "fenced", "rechecked", "ordered",
                      "restricted", "matched"}
      BY DEF Passes
    <2>4. /\ LastOf(t) \in 0 .. Len(log)
          /\ \A i \in DOMAIN log : log[i].target = t => i <= LastOf(t)
      BY <1>1, LastOfIsLast
    <2> QED BY <2>1, <2>2, <2>3, <2>4, ObservesKeeps
  <1>4. ASSUME NEW t \in Target, ObservePostUpgrade(t) PROVE TeardownInv'
    <2> DEFINE passed == IF catalogue[t] \cap Reviewed[head] = {} THEN {"absent"} ELSE {}
    <2>1. Observes(t, "post_upgrade", LastOf(t), passed, catalogue[t])
      BY <1>4 DEF ObservePostUpgrade
    <2>2. passed \in SUBSET {"admission", "absent", "undone", "fenced", "rechecked",
                             "ordered", "restricted", "matched"}
      OBVIOUS
    <2>3. "post_upgrade" \notin Stage \cup {"committed"}
      BY DEF Stage
    <2>4. /\ LastOf(t) \in 0 .. Len(log)
          /\ \A i \in DOMAIN log : log[i].target = t => i <= LastOf(t)
      BY <1>1, LastOfIsLast
    <2> HIDE DEF passed
    <2> QED BY <1>1, <2>1, <2>2, <2>3, <2>4, ObservesKeeps
  <1>5. ASSUME NEW t \in Target, NEW edges \in ChangeTo, Change(t, edges)
        PROVE  TeardownInv'
    BY <1>5, TeardownAssumption
       DEF TeardownInv, LogTypeOK, Change, AdmittedIsSupported
  <1>6. ASSUME NEW r \in Revision, Revise(r) PROVE TeardownInv'
    BY <1>6 DEF TeardownInv, LogTypeOK, Revise, AdmittedIsSupported
  <1>7. ASSUME NEW gate \in {"pre_drop", "post_upgrade"}, Submit(gate) PROVE TeardownInv'
    <2>1. PICK r \in Revision, q \in Revision, chain \in SUBSET DOMAIN log :
              /\ Supports([gate |-> gate, revision |-> r, rehearsal |-> q, chain |-> chain])
              /\ admitted' = [gate |-> gate, chain |-> chain]
              /\ UNCHANGED <<head, catalogue, log>>
      BY <1>7 DEF Submit
    <2>2. Supported(log, head, gate, chain)
      BY <2>1, SupportsTells
    <2>3. AdmittedIsSupported'
      BY <2>1, <2>2 DEF AdmittedIsSupported
    <2> QED BY <2>1, <2>3 DEF TeardownInv, LogTypeOK
  <1>8. CASE UNCHANGED teardownVars
    BY <1>8 DEF teardownVars, TeardownInv, LogTypeOK, AdmittedIsSupported
  <1>9. QED
    BY <1>2, <1>3, <1>4, <1>5, <1>6, <1>7, <1>8 DEF TeardownNext

LEMMA TeardownInductive == TeardownSpec => []TeardownInv
  <1>1. TeardownInit => TeardownInv
    BY TeardownAssumption
       DEF TeardownInit, TeardownInv, LogTypeOK, AdmittedIsSupported
  <1>2. QED
    BY <1>1, TeardownStep, PTL DEF TeardownSpec

(* For any number of observations, and whatever others do to the targets,  *)
(* an accepted bundle leaves out nothing that was observed of its target   *)
(* between its first observation and its last.                             *)
THEOREM NoTryHides == TeardownSpec => []NoTryIsHidden
  <1>1. TeardownInv => NoTryIsHidden
    <2> SUFFICES ASSUME TeardownInv, NEW j \in admitted.chain, NEW n \in admitted.chain,
                        NEW k \in j .. n, log[k].target = log[j].target,
                        k \notin admitted.chain
                 PROVE  FALSE
      BY DEF NoTryIsHidden
    <2> DEFINE chain == admitted.chain
               later == {m \in chain : m > k}
    <2>1. Supported(log, head, admitted.gate, chain)
      BY DEF TeardownInv, AdmittedIsSupported, NoBundle
    <2>2. /\ Len(log) \in Nat /\ DOMAIN log = 1 .. Len(log) /\ chain \subseteq 1 .. Len(log)
          /\ \A i \in DOMAIN log : TellsTheTry(log, i)
      BY <2>1 DEF TeardownInv, LogTypeOK, Supported
    <2>3. later \in SUBSET Nat /\ n \in later
      BY <2>2
    <2>4. PICK m \in later : \A i \in later : m <= i
      <3> HIDE DEF later
      <3> QED BY <2>3, LeastNat
    <2>5. m \in chain /\ m > k /\ k > j /\ Follows(log, chain, m)
      BY <2>1, <2>2, <2>4 DEF Supported
    <2>6. PICK p \in chain : /\ p < m /\ log[m].before = p /\ log[m].end # "pre_drop"
      BY <2>2, <2>5 DEF Follows
    <2>7. p < k
      BY <2>2, <2>4, <2>5, <2>6
    <2>8. IsBefore(log, m, p)
      BY <2>2, <2>5, <2>6 DEF TellsTheTry
    <2>9. log[k].target = log[m].target /\ k \in 1 .. m - 1
      BY <2>1, <2>2, <2>5 DEF Supported
    <2> QED BY <2>2, <2>7, <2>8, <2>9 DEF IsBefore
  <1>2. QED
    BY <1>1, TeardownInductive, PTL

(* A completion that is accepted happened, on one target and at this       *)
(* revision.                                                               *)
THEOREM CompletionHappened == TeardownSpec => []CompletionIsReal
  <1>1. TeardownInv => CompletionIsReal
    <2> SUFFICES ASSUME TeardownInv, admitted.gate = "post_upgrade" PROVE CompletionIsReal
      BY DEF CompletionIsReal
    <2> DEFINE chain == admitted.chain
    <2>1. Supported(log, head, "post_upgrade", chain)
      BY DEF TeardownInv, AdmittedIsSupported, NoBundle
    <2>2. /\ Len(log) \in Nat /\ DOMAIN log = 1 .. Len(log) /\ chain \subseteq 1 .. Len(log)
          /\ \A i \in chain : TellsTheTry(log, i)
          /\ \A i \in chain : log[i].revision = head
          /\ \A i \in chain : PhaseHolds(log[i], Reviewed[head])
          /\ \A i \in chain : Follows(log, chain, i)
      BY <2>1 DEF TeardownInv, LogTypeOK, Supported
    <2>3. PICK last \in chain : log[last].end = "post_upgrade"
      BY <2>1 DEF Supported
    <2>4. \A k \in chain : k <= last
      <3> SUFFICES ASSUME NEW n \in chain, n > last PROVE FALSE
        BY <2>2
      <3> DEFINE later == {m \in chain : m > last}
      <3>1. later \in SUBSET Nat /\ n \in later
        BY <2>2
      <3>2. PICK m \in later : \A i \in later : m <= i
        <4> HIDE DEF later
        <4> QED BY <3>1, LeastNat
      <3>3. m \in chain /\ m > last /\ Follows(log, chain, m)
        BY <2>2
      <3>4. PICK p \in chain : /\ p < m /\ \A i \in chain : i < m => i <= p
                               /\ Order(log[p]) <= Order(log[m])
                               /\ log[m].end = "post_upgrade" => log[p].end = "committed"
        BY <2>2, <3>3 DEF Follows
      <3>5. p = last
        BY <2>2, <3>2, <3>3, <3>4
      <3> QED BY <2>3, <3>4, <3>5 DEF Order
    <2>5. log[last].found = {}
      <3>1. log[last].edges = {}
        BY <2>2, <2>3 DEF PhaseHolds
      <3>2. log[last].edges = Seen(log[last].end, log[last].found)
        BY <2>2 DEF TellsTheTry
      <3> QED BY <2>3, <3>1, <3>2 DEF Seen
    <2>6. ASSUME NEW k \in chain \ {last}
          PROVE  /\ k < last
                 /\ IF log[k].end = "committed"
                    THEN /\ log[k].found = Reviewed[head] /\ log[k].left = {}
                         /\ head \in Careful
                    ELSE log[k].left = log[k].found
      <3> DEFINE o == log[k]
      <3>1. k < last
        BY <2>2, <2>4
      <3>2. /\ o.passed = Required(o.end)
            /\ o.end = "committed" => o.edges = Reviewed[head]
        BY <2>2 DEF PhaseHolds
      <3>3. /\ o.edges = Seen(o.end, o.found) /\ o.revision = head
            /\ IF o.end \in Stage \cup {"committed"}
               THEN /\ o.passed = Passes(head, o.end, o.found, o.left)
                    /\ o.left \in Leaves(head, o.end, o.found)
               ELSE o.left = o.found
        BY <2>2 DEF TellsTheTry
      <3> HIDE DEF o
      <3>4. CASE o.end = "committed"
        <4>1. o.passed = Passes(head, "committed", o.found, o.left)
              /\ o.left = o.found \ Reviewed[head]
          BY <3>3, <3>4 DEF Leaves
        <4>2. "matched" \in o.passed
          BY <3>2, <3>4 DEF Required
        <4>3. head \in Careful
          BY <4>1, <4>2 DEF Passes
        <4>4. o.found = Reviewed[head]
          BY <3>2, <3>3, <3>4 DEF Seen
        <4> QED BY <3>1, <3>4, <4>1, <4>3, <4>4 DEF o
      <3>5. CASE o.end \in Stage
        <4>1. "undone" \in o.passed
          BY <3>2, <3>5 DEF Required, Stage
        <4>2. o.left = o.found
          BY <3>3, <3>5, <4>1 DEF Passes, Stage
        <4> QED BY <3>1, <3>5, <4>2 DEF Stage, o
      <3>6. CASE o.end \notin Stage \cup {"committed"}
        BY <3>1, <3>3, <3>6 DEF o
      <3> QED BY <3>4, <3>5, <3>6
    <2> QED BY <2>3, <2>5, <2>6 DEF CompletionIsReal
  <1>2. QED
    BY <1>1, TeardownInductive, PTL

=============================================================================
