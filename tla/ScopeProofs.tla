------------------------------ MODULE ScopeProofs ------------------------------
(***************************************************************************)
(* Proofs about ScopeDerivation, for every set of sources, every import    *)
(* graph and every order in which the loops visit the sources.             *)
(***************************************************************************)
EXTENDS ScopeDerivation, FiniteSetTheorems, TLAPS

SelfSupported(C) == \A s \in C : importers[s] \subseteq C

(* The first loop never drops what belongs to the largest self-supported   *)
(* set.  A pass that has changed nothing yet has found every candidate it  *)
(* visited without an importer outside.                                    *)
Shrinking ==
    phase = "shrink" =>
        /\ eligible = {}
        /\ unvisited \subseteq candidates
        /\ candidates \subseteq Seeds
        /\ Shrunk \subseteq candidates
        /\ ~changed => \A s \in candidates \ unvisited : importers[s] \subseteq candidates
        /\ \A s \in Source :
               reason[s] = IF s \in candidates THEN "a test" ELSE "none"

(* The second loop starts from that set and adds only what is in every     *)
(* closed set around it.                                                   *)
Growing ==
    phase \in {"grow", "done"} =>
        /\ Shrunk \subseteq candidates
        /\ eligible = MayBeTestOnly \ candidates
        /\ unvisited \subseteq eligible
        /\ SelfSupported(candidates)
        /\ \A C \in SUBSET Source : IsClosed(C) => candidates \subseteq C
        /\ ~changed => \A s \in eligible \ unvisited : ~TestOnly(s)
        /\ \A s \in Source :
               reason[s] = IF s \in Shrunk THEN "a test"
                           ELSE IF s \in candidates THEN "imported by tests" ELSE "none"

Finished == phase = "done" => unvisited = {} /\ ~changed

IInv == ScopeTypeOK /\ Shrinking /\ Growing /\ Finished

-----------------------------------------------------------------------------
LEMMA ShrunkIsSelfSupported == Shrunk \subseteq Seeds /\ SelfSupported(Shrunk)
  BY DEF Shrunk, SelfSupported

LEMMA ShrunkIsLargest ==
  ASSUME NEW C \in SUBSET Seeds, SelfSupported(C)
  PROVE  C \subseteq Shrunk
  BY DEF Shrunk, SelfSupported

LEMMA SeedsMayBeTestOnly == Seeds \subseteq MayBeTestOnly /\ MayBeTestOnly \subseteq Source
  BY DEF Seeds, MayBeTestOnly, Trees

LEMMA InputFixed ==
  ASSUME UNCHANGED input
  PROVE  /\ Trees' = Trees /\ MayBeTestOnly' = MayBeTestOnly /\ Seeds' = Seeds
         /\ Shrunk' = Shrunk
         /\ IsImportGraph(importers)' = IsImportGraph(importers)
         /\ \A C : IsClosed(C)' = IsClosed(C)
         /\ \A C : SelfSupported(C)' = (\A s \in C : importers[s] \subseteq C)
  <1>1. traits' = traits /\ importers' = importers
    BY DEF input
  <1>2. Trees' = Trees /\ MayBeTestOnly' = MayBeTestOnly /\ Seeds' = Seeds
    BY <1>1 DEF Trees, MayBeTestOnly, Seeds
  <1>3. Shrunk' = Shrunk
    BY <1>1, <1>2 DEF Shrunk
  <1>4. IsImportGraph(importers)' = IsImportGraph(importers)
    BY <1>1, <1>2 DEF IsImportGraph
  <1>5. ASSUME NEW C PROVE IsClosed(C)' = IsClosed(C)
    BY <1>1, <1>2, <1>3 DEF IsClosed
  <1>6. ASSUME NEW C PROVE SelfSupported(C)' = (\A s \in C : importers[s] \subseteq C)
    BY <1>1 DEF SelfSupported
  <1>7. QED
    BY <1>2, <1>3, <1>4, <1>5, <1>6

LEMMA InitIInv == ScopeInit => IInv
  <1> SUFFICES ASSUME ScopeInit PROVE IInv
    OBVIOUS
  <1>1. ScopeTypeOK
    BY SeedsMayBeTestOnly DEF ScopeInit, ScopeTypeOK
  <1>2. Shrinking
    BY ShrunkIsSelfSupported, SeedsMayBeTestOnly DEF ScopeInit, Shrinking
  <1>3. Growing /\ Finished
    BY DEF ScopeInit, Growing, Finished
  <1>4. QED
    BY <1>1, <1>2, <1>3 DEF IInv

LEMMA TypeStep == IInv /\ [ScopeNext]_scopeVars => ScopeTypeOK'
  <1> SUFFICES ASSUME IInv, [ScopeNext]_scopeVars PROVE ScopeTypeOK'
    OBVIOUS
  <1> USE DEF IInv, ScopeTypeOK
  <1>1. ASSUME NEW s \in Source, Drop(s) PROVE ScopeTypeOK'
    BY <1>1, InputFixed DEF Drop, input
  <1>2. ASSUME NEW s \in Source, Keep(s) PROVE ScopeTypeOK'
    BY <1>2, InputFixed DEF Keep, input
  <1>3. ASSUME NEW s \in Source, Join(s) PROVE ScopeTypeOK'
    BY <1>3, InputFixed DEF Join, input
  <1>4. ASSUME NEW s \in Source, Skip(s) PROVE ScopeTypeOK'
    BY <1>4, InputFixed DEF Skip, input
  <1>5. CASE Again
    BY <1>5, InputFixed DEF Again, Population, input
  <1>6. CASE Shrunken
    BY <1>6, InputFixed DEF Shrunken, input
  <1>7. CASE Finish
    BY <1>7, InputFixed DEF Finish, input
  <1>8. CASE UNCHANGED scopeVars
    BY <1>8, InputFixed DEF scopeVars, input
  <1>9. QED
    BY <1>1, <1>2, <1>3, <1>4, <1>5, <1>6, <1>7, <1>8 DEF ScopeNext

(* The steps of the first loop.                                            *)
LEMMA DropStep ==
  ASSUME IInv, NEW s \in Source, Drop(s)
  PROVE  Shrinking'
  <1>0. UNCHANGED input /\ phase' = "shrink" /\ phase = "shrink"
    BY DEF Drop
  <1>1. s \notin Shrunk
    <2>1. ~(importers[s] \subseteq candidates)
      BY DEF Drop, ReachedFromOutside
    <2>2. Shrunk \subseteq candidates
      BY <1>0 DEF IInv, Shrinking
    <2>3. s \in Shrunk => importers[s] \subseteq Shrunk
      BY ShrunkIsSelfSupported DEF SelfSupported
    <2>4. QED
      BY <2>1, <2>2, <2>3
  <1>2. Shrunk' = Shrunk /\ Seeds' = Seeds
    BY <1>0, InputFixed
  <1>3. reason' = [reason EXCEPT ![s] = "none"] /\ reason \in [Source -> {"none", "a test", "imported by tests"}]
    BY DEF Drop, IInv, ScopeTypeOK
  <1>4. candidates' = candidates \ {s} /\ unvisited' = unvisited \ {s} /\ changed' /\ eligible' = eligible
    BY DEF Drop
  <1>5. QED
    BY <1>0, <1>1, <1>2, <1>3, <1>4 DEF Shrinking, IInv

LEMMA KeepStep ==
  ASSUME IInv, NEW s \in Source, Keep(s)
  PROVE  Shrinking'
  BY InputFixed DEF IInv, Keep, Shrinking, ReachedFromOutside, input

(* The steps of the second loop.                                           *)
LEMMA JoinStep ==
  ASSUME IInv, NEW s \in Source, Join(s)
  PROVE  Growing'
  <1>0. /\ UNCHANGED input /\ phase' = "grow" /\ phase = "grow"
        /\ importers' = importers
        /\ importers[s] # {} /\ importers[s] \subseteq candidates
        /\ s \in unvisited
        /\ unvisited' = unvisited \ {s} /\ candidates' = candidates \cup {s}
        /\ eligible' = eligible \ {s} /\ changed'
    BY DEF Join, TestOnly, input
  <1>1. /\ Shrunk' = Shrunk /\ MayBeTestOnly' = MayBeTestOnly
        /\ \A C : IsClosed(C)' = IsClosed(C)
    BY <1>0, InputFixed
  <1>2. Growing
    BY DEF IInv
  <1>3. s \in MayBeTestOnly /\ s \notin candidates
    BY <1>0, <1>2 DEF Growing
  <1>4. ASSUME NEW C \in SUBSET Source, IsClosed(C) PROVE candidates' \subseteq C
    <2>1. candidates \subseteq C
      BY <1>0, <1>2, <1>4 DEF Growing
    <2>2. s \in C
      BY <1>0, <1>3, <1>4, <2>1 DEF IsClosed
    <2>3. QED
      BY <1>0, <2>1, <2>2
  <1>5. SelfSupported(candidates)'
    BY <1>0, <1>2 DEF Growing, SelfSupported
  <1>6. \A t \in Source : reason'[t] = IF t \in Shrunk THEN "a test"
                          ELSE IF t \in candidates' THEN "imported by tests" ELSE "none"
    <2>1. reason' = [reason EXCEPT ![s] = "imported by tests"]
          /\ reason \in [Source -> {"none", "a test", "imported by tests"}]
      BY DEF Join, IInv, ScopeTypeOK
    <2>2. s \notin Shrunk
      BY <1>0, <1>2, <1>3 DEF Growing
    <2>3. QED
      BY <1>0, <1>2, <2>1, <2>2 DEF Growing
  <1>7. QED
    BY <1>0, <1>1, <1>2, <1>3, <1>4, <1>5, <1>6 DEF Growing

LEMMA SkipStep ==
  ASSUME IInv, NEW s \in Source, Skip(s)
  PROVE  Growing'
  BY InputFixed DEF IInv, Skip, Growing, TestOnly, SelfSupported, input

(* The first loop ends with the largest self-supported set of seeds.       *)
LEMMA ShrunkenStep ==
  ASSUME IInv, Shrunken
  PROVE  Growing'
  <1>0. /\ UNCHANGED input /\ phase' = "grow" /\ phase = "shrink"
        /\ unvisited = {} /\ ~changed /\ candidates' = candidates /\ reason' = reason
        /\ eligible' = MayBeTestOnly \ candidates /\ unvisited' = eligible' /\ ~changed'
    BY DEF Shrunken, Settled
  <1>1. /\ Shrunk' = Shrunk /\ MayBeTestOnly' = MayBeTestOnly /\ importers' = importers
        /\ \A C : IsClosed(C)' = IsClosed(C)
    BY <1>0, InputFixed DEF input
  <1>2. SelfSupported(candidates) /\ candidates \subseteq Seeds /\ Shrunk \subseteq candidates
    BY <1>0 DEF IInv, Shrinking, SelfSupported
  <1>3. candidates = Shrunk
    BY <1>2, ShrunkIsLargest
  <1>4. \A C \in SUBSET Source : IsClosed(C) => candidates \subseteq C
    BY <1>3 DEF IsClosed
  <1>5. \A s \in Source : reason[s] = IF s \in Shrunk THEN "a test"
                          ELSE IF s \in candidates THEN "imported by tests" ELSE "none"
    BY <1>0, <1>3 DEF IInv, Shrinking
  <1>6. SelfSupported(candidates)'
    BY <1>0, <1>1, <1>2 DEF SelfSupported
  <1>7. QED
    BY <1>0, <1>1, <1>3, <1>4, <1>5, <1>6 DEF Growing

LEMMA LoopStep == IInv /\ [ScopeNext]_scopeVars => Shrinking' /\ Growing' /\ Finished'
  <1> SUFFICES ASSUME IInv, [ScopeNext]_scopeVars PROVE Shrinking' /\ Growing' /\ Finished'
    OBVIOUS
  <1>1. ASSUME NEW s \in Source, Drop(s) PROVE Shrinking' /\ Growing' /\ Finished'
    BY <1>1, DropStep DEF Drop, Growing, Finished
  <1>2. ASSUME NEW s \in Source, Keep(s) PROVE Shrinking' /\ Growing' /\ Finished'
    BY <1>2, KeepStep DEF Keep, Growing, Finished
  <1>3. ASSUME NEW s \in Source, Join(s) PROVE Shrinking' /\ Growing' /\ Finished'
    BY <1>3, JoinStep DEF Join, Shrinking, Finished
  <1>4. ASSUME NEW s \in Source, Skip(s) PROVE Shrinking' /\ Growing' /\ Finished'
    BY <1>4, SkipStep DEF Skip, Shrinking, Finished
  <1>5. CASE Again
    <2>1. Finished'
      BY <1>5 DEF Again, Finished
    <2>2. Shrinking'
      BY <1>5, InputFixed DEF Again, Population, Shrinking, IInv, input
    <2>3. Growing'
      BY <1>5, InputFixed DEF Again, Population, Growing, SelfSupported, IInv, input
    <2>4. QED
      BY <2>1, <2>2, <2>3
  <1>6. CASE Shrunken
    BY <1>6, ShrunkenStep DEF Shrunken, Shrinking, Finished
  <1>7. CASE Finish
    <2>1. Finished' /\ Shrinking'
      BY <1>7 DEF Finish, Settled, Finished, Shrinking
    <2>2. Growing'
      BY <1>7, InputFixed DEF Finish, Settled, Growing, SelfSupported, TestOnly, IInv, input
    <2>3. QED
      BY <2>1, <2>2
  <1>8. CASE UNCHANGED scopeVars
    BY <1>8, InputFixed DEF scopeVars, input, IInv, Shrinking, Growing, Finished,
                            SelfSupported, TestOnly
  <1>9. QED
    BY <1>1, <1>2, <1>3, <1>4, <1>5, <1>6, <1>7, <1>8 DEF ScopeNext

LEMMA IInvHolds == ScopeSpec => []IInv
  <1>1. IInv /\ [ScopeNext]_scopeVars => IInv'
    BY TypeStep, LoopStep DEF IInv
  <1>2. QED
    BY InitIInv, <1>1, PTL DEF ScopeSpec

-----------------------------------------------------------------------------
(* Every variable keeps its type.                                          *)
THEOREM TypeCorrect == ScopeSpec => []ScopeTypeOK
  <1>1. IInv => ScopeTypeOK
    BY DEF IInv
  <1>2. QED
    BY IInvHolds, <1>1, PTL

(* When the loops are done the candidates are closed, so they are the      *)
(* least closed set.                                                       *)
LEMMA DoneIsClosed == IInv /\ phase = "done" => IsClosed(candidates)
  <1> SUFFICES ASSUME IInv, phase = "done" PROVE IsClosed(candidates)
    OBVIOUS
  <1>1. Growing /\ unvisited = {} /\ ~changed
    BY DEF IInv, Finished
  <1>2. \A s \in MayBeTestOnly \ candidates : ~TestOnly(s)
    BY <1>1 DEF Growing
  <1>3. Shrunk \subseteq candidates
    BY <1>1 DEF Growing
  <1>4. QED
    BY <1>2, <1>3 DEF IsClosed, TestOnly

(* Whatever the order of the visits, the two loops exclude the least       *)
(* closed set around the largest set of tests that only itself reaches     *)
(* (_derive_scope).                                                        *)
THEOREM OneResult == ScopeSpec => []OrderDoesNotMatter
  <1>1. IInv => OrderDoesNotMatter
    <2> SUFFICES ASSUME IInv, phase = "done" PROVE candidates = Grown
      BY DEF OrderDoesNotMatter
    <2>1. candidates \in SUBSET Source
      BY SeedsMayBeTestOnly DEF IInv, ScopeTypeOK
    <2>2. \A C \in SUBSET Source : IsClosed(C) => candidates \subseteq C
      BY DEF IInv, Growing
    <2>3. QED
      BY <2>1, <2>2, DoneIsClosed DEF Grown
  <1>2. QED
    BY IInvHolds, <1>1, PTL

(* Nothing that a measured source imports, directly or not, is excluded    *)
(* (_derive_scope).                                                        *)
THEOREM NothingReachedIsExcluded == ScopeSpec => []MeasuredReachesOnlyMeasured
  <1>1. IInv => MeasuredReachesOnlyMeasured
    BY DEF IInv, Growing, SelfSupported, MeasuredReachesOnlyMeasured
  <1>2. QED
    BY IInvHolds, <1>1, PTL

(* Every exclusion goes back to a test that only excluded sources reach    *)
(* (_derive_scope).                                                        *)
THEOREM NoExclusionWithoutATest == ScopeSpec => []ExclusionsBeginAtTests
  <1>1. IInv => ExclusionsBeginAtTests
    <2> SUFFICES ASSUME IInv, phase = "done", NEW C \in SUBSET candidates,
                        Seeds \cap candidates \subseteq C,
                        \A s \in candidates : importers[s] \cap C # {} => s \in C
                 PROVE  candidates \subseteq C
      BY DEF ExclusionsBeginAtTests
    <2>1. C \in SUBSET Source
      BY SeedsMayBeTestOnly DEF IInv, ScopeTypeOK
    <2>2. Shrunk \subseteq C
      BY ShrunkIsSelfSupported DEF IInv, Growing
    <2>3. ASSUME NEW s \in MayBeTestOnly, importers[s] # {}, importers[s] \subseteq C
          PROVE  s \in C
      <3>1. s \in candidates
        BY <2>3, DoneIsClosed DEF IsClosed
      <3>2. importers[s] \cap C # {}
        BY <2>3
      <3>3. QED
        BY <3>1, <3>2
    <2>4. IsClosed(C)
      BY <2>2, <2>3 DEF IsClosed
    <2>5. QED
      BY <2>1, <2>4 DEF IInv, Growing
  <1>2. QED
    BY IInvHolds, <1>1, PTL

(* Each notice of an exclusion gives a reason that is true of the result   *)
(* (_derive_scope).                                                        *)
THEOREM EveryReasonIsTrue == ScopeSpec => []ReasonsAreTrue
  <1>1. IInv => ReasonsAreTrue
    <2> SUFFICES ASSUME IInv, phase = "done" PROVE ReasonsAreTrue
      BY DEF ReasonsAreTrue
    <2>1. /\ Shrunk \subseteq candidates
          /\ SelfSupported(candidates)
          /\ \A s \in Source :
               reason[s] = IF s \in Shrunk THEN "a test"
                           ELSE IF s \in candidates THEN "imported by tests" ELSE "none"
      BY DEF IInv, Growing
    <2>2. \A s \in candidates \ Shrunk : importers[s] # {}
      <3>1. SUFFICES ASSUME NEW s \in candidates, s \notin Shrunk, importers[s] = {}
                     PROVE  FALSE
        OBVIOUS
      <3>2. IsClosed(candidates \ {s})
        BY <2>1, <3>1, DoneIsClosed DEF IsClosed
      <3>3. candidates \ {s} \in SUBSET Source
        BY SeedsMayBeTestOnly DEF IInv, ScopeTypeOK
      <3>4. QED
        BY <3>1, <3>2, <3>3 DEF IInv, Growing
    <2>3. QED
      BY <2>1, <2>2 DEF ReasonsAreTrue, SelfSupported
  <1>2. QED
    BY IInvHolds, <1>1, PTL

-----------------------------------------------------------------------------
(* The trace over a part of the sources that imports only itself is the    *)
(* trace over all of them.                                                 *)
InwardOnly(part, all) ==
    part \subseteq all /\ \A s \in all, t \in part : t \in importers[s] => s \in part

LEMMA ImportsStay ==
  ASSUME NEW part, NEW all, InwardOnly(part, all), NEW s \in part
  PROVE  Imports(s, all) = Imports(s, part)
  BY DEF InwardOnly, Imports

LEMMA VisibleStays ==
  ASSUME NEW part, NEW all, InwardOnly(part, all), NEW shape, NEW owned, NEW mine,
         owned \subseteq all, mine = owned \cap part
  PROVE  Visible(shape, part, mine) = Visible(shape, all, owned) \cap part
  <1>1. part \subseteq all /\ \A s \in part : Imports(s, all) = Imports(s, part)
    BY ImportsStay DEF InwardOnly
  <1>2. \A s \in part : Imports(s, part) \subseteq part
    BY DEF Imports
  <1>3. Exported(shape, part, mine) = Exported(shape, all, owned) \cap part
    BY <1>1, <1>2 DEF Exported
  <1>4. QED
    BY <1>1, <1>2, <1>3 DEF Visible

LEMMA FactoriesStay ==
  ASSUME NEW part, NEW all, InwardOnly(part, all), NEW shape, NEW owned, NEW mine,
         owned \subseteq all, mine = owned \cap part
  PROVE  /\ Factories(shape, part, mine) = Factories(shape, all, owned) \cap part
         /\ Visible(shape, part, mine) = Visible(shape, all, owned) \cap part
         /\ Factories(shape, all, owned) \subseteq all
  <1>1. Constructors(shape, part) = Constructors(shape, all) \cap part
    BY DEF Constructors, InwardOnly
  <1>2. Constructors(shape, all) \subseteq all /\ Visible(shape, all, owned) \subseteq all
    BY DEF Constructors, Visible
  <1>3. QED
    BY <1>1, <1>2, VisibleStays DEF Factories

LEMMA TraceStays ==
  ASSUME NEW part, NEW all, InwardOnly(part, all), NEW shape
  PROVE  Trace(shape, part) = Trace(shape, all) \cap part
  <1> DEFINE none     == Constructors(shape, all)
             mine     == Constructors(shape, part)
             once     == Factories(shape, all, none)
             mineOnce == Factories(shape, part, mine)
  <1>1. mine = none \cap part /\ none \subseteq all
    BY DEF Constructors, InwardOnly
  <1>2. mineOnce = once \cap part /\ once \subseteq all
    <2> HIDE DEF none, mine
    <2> QED
      BY <1>1, FactoriesStay
  <1>3. Trace(shape, part) =
          Factories(shape, part, mineOnce) \cup Visible(shape, part, mineOnce)
        /\ Trace(shape, all) = Factories(shape, all, once) \cup Visible(shape, all, once)
    BY DEF Trace
  <1> HIDE DEF once, mineOnce
  <1>4. /\ Factories(shape, part, mineOnce) = Factories(shape, all, once) \cap part
        /\ Visible(shape, part, mineOnce) = Visible(shape, all, once) \cap part
    BY <1>2, FactoriesStay
  <1>5. QED
    BY <1>3, <1>4

(* Removing the exclusions before the trace changes no result of a         *)
(* measured source (_derive_scope, _trace_client_factories).               *)
THEOREM TraceIsUnmoved == ScopeSpec => []ExclusionsMoveNoTrace
  <1>1. IInv => ExclusionsMoveNoTrace
    <2> SUFFICES ASSUME IInv, phase = "done", NEW shape \in [Source -> Shape]
                 PROVE  Trace(shape, Trees \ candidates) = Trace(shape, Trees) \ candidates
      BY DEF ExclusionsMoveNoTrace
    <2>1. InwardOnly(Trees \ candidates, Trees)
      <3>1. \A s \in candidates : importers[s] \subseteq candidates
        BY DEF IInv, Growing, SelfSupported
      <3>2. QED
        BY <3>1 DEF InwardOnly
    <2>2. Trace(shape, Trees) \subseteq Trees
      BY DEF Trace, Factories, Visible, Constructors
    <2>3. QED
      BY <2>1, <2>2, TraceStays
  <1>2. QED
    BY IInvHolds, <1>1, PTL

-----------------------------------------------------------------------------
(* The loops end                                                           *)

(* Three counts that bound how long the derivation still takes: the loops  *)
(* ahead of it, what a loop can still change or has just changed, and what *)
(* this pass has still to visit.                                           *)
LoopsAhead == IF phase = "shrink" THEN 2 ELSE IF phase = "grow" THEN 1 ELSE 0

ToChange == Cardinality(Population) + (IF changed THEN 1 ELSE 0)

Weight == Cardinality(Source) + 2

VisitsLeft ==
    (Weight * Weight) * LoopsAhead + Weight * ToChange + Cardinality(unvisited)

Bounded == VisitsLeft \in 0 .. 3 * (Weight * Weight)

LEMMA Scale ==
  ASSUME NEW w \in Nat, NEW a \in Nat, NEW b \in Nat, b < a
  PROVE  w * b + w <= w * a
  <1>1. a - b - 1 \in Nat
    OBVIOUS
  <1>2. w * (a - b - 1) >= 0
    BY <1>1
  <1>3. w * a = w * b + w + w * (a - b - 1)
    OBVIOUS
  <1>4. QED
    BY <1>2, <1>3

(* The three counts are compared one after the other.                      *)
LEMMA Lowered ==
  ASSUME NEW n \in Nat, NEW l \in Nat, NEW k \in Nat, NEW c \in Nat, NEW d \in Nat,
         NEW u \in Nat, NEW v \in Nat, d <= n + 1, v <= n,
         \/ k < l
         \/ k = l /\ d < c
         \/ k = l /\ d = c /\ v < u
  PROVE  ((n + 2) * (n + 2)) * k + (n + 2) * d + v
             < ((n + 2) * (n + 2)) * l + (n + 2) * c + u
  <1> DEFINE w == n + 2
             s == w * w
  <1>1. w \in Nat /\ s \in Nat /\ w * d \in Nat /\ w * c \in Nat /\ s * k \in Nat
        /\ s * l \in Nat
    OBVIOUS
  <1>2. CASE k < l
    <2>1. s * k + s <= s * l
      <3> HIDE DEF s
      <3> QED BY <1>1, <1>2, Scale
    <2>2. w * d + w <= s
      BY Scale, <1>1
    <2> HIDE DEF s
    <2> QED BY <1>1, <2>1, <2>2
  <1>3. CASE k = l /\ d < c
    <2>1. w * d + w <= w * c
      BY <1>1, <1>3, Scale
    <2> HIDE DEF s
    <2> QED BY <1>1, <1>3, <2>1
  <1>4. CASE k = l /\ d = c /\ v < u
    <2> HIDE DEF s
    <2> QED BY <1>1, <1>4
  <1>5. QED
    BY <1>2, <1>3, <1>4

LEMMA SmallSets ==
  ASSUME IsFiniteSet(Source), NEW S \in SUBSET Source
  PROVE  /\ IsFiniteSet(S) /\ Cardinality(S) \in 0 .. Cardinality(Source)
         /\ \A x \in S : Cardinality(S \ {x}) = Cardinality(S) - 1
  <1>1. IsFiniteSet(S) /\ Cardinality(S) <= Cardinality(Source)
    BY FS_Subset
  <1>2. Cardinality(S) \in Nat /\ Cardinality(Source) \in Nat
    BY <1>1, FS_CardinalityType
  <1>3. ASSUME NEW x \in S PROVE Cardinality(S \ {x}) = Cardinality(S) - 1
    BY <1>1, <1>3, FS_RemoveElement
  <1>4. QED
    BY <1>1, <1>2, <1>3

LEMMA CountsAreSmall ==
  ASSUME IsFiniteSet(Source), ScopeTypeOK
  PROVE  /\ candidates \subseteq Source /\ eligible \subseteq Source
         /\ unvisited \subseteq Source
         /\ Cardinality(Source) \in Nat /\ LoopsAhead \in 0 .. 2
         /\ ToChange \in 0 .. Cardinality(Source) + 1
         /\ Cardinality(unvisited) \in 0 .. Cardinality(Source)
  <1>1. candidates \subseteq Source /\ eligible \subseteq Source /\ unvisited \subseteq Source
    BY SeedsMayBeTestOnly DEF ScopeTypeOK
  <1>2. Cardinality(Source) \in Nat
    BY FS_CardinalityType
  <1>3. /\ Cardinality(Population) \in 0 .. Cardinality(Source)
        /\ Cardinality(unvisited) \in 0 .. Cardinality(Source)
    BY <1>1, SmallSets DEF Population
  <1>4. LoopsAhead \in 0 .. 2
    BY DEF LoopsAhead
  <1>5. ToChange \in 0 .. Cardinality(Source) + 1
    BY <1>2, <1>3 DEF ToChange
  <1>6. QED
    BY <1>1, <1>2, <1>3, <1>4, <1>5

LEMMA CountsStaySmall ==
  ASSUME IsFiniteSet(Source), ScopeTypeOK'
  PROVE  /\ LoopsAhead' \in 0 .. 2
         /\ ToChange' \in 0 .. Cardinality(Source) + 1
         /\ Cardinality(unvisited') \in 0 .. Cardinality(Source)
  <1>1. MayBeTestOnly' \subseteq Source
    BY DEF MayBeTestOnly, Trees
  <1>2. candidates' \subseteq Source /\ eligible' \subseteq Source /\ unvisited' \subseteq Source
    BY <1>1 DEF ScopeTypeOK
  <1>3. Cardinality(Source) \in Nat
    BY FS_CardinalityType
  <1>4. /\ Cardinality(Population') \in 0 .. Cardinality(Source)
        /\ Cardinality(unvisited') \in 0 .. Cardinality(Source)
    BY <1>2, SmallSets DEF Population
  <1>5. LoopsAhead' \in 0 .. 2
    BY DEF LoopsAhead
  <1>6. ToChange' \in 0 .. Cardinality(Source) + 1
    BY <1>3, <1>4 DEF ToChange
  <1>7. QED
    BY <1>4, <1>5, <1>6

(* Every step of a loop lowers the first of the counts that it changes.    *)
LEMMA VisitsFall ==
  ASSUME IsFiniteSet(Source), IInv, ScopeTypeOK', ScopeNext
  PROVE  VisitsLeft' < VisitsLeft
  <1> DEFINE Falls == \/ LoopsAhead' < LoopsAhead
                      \/ LoopsAhead' = LoopsAhead /\ ToChange' < ToChange
                      \/ /\ LoopsAhead' = LoopsAhead /\ ToChange' = ToChange
                         /\ Cardinality(unvisited') < Cardinality(unvisited)
  <1>0. /\ candidates \subseteq Source /\ eligible \subseteq Source
        /\ unvisited \subseteq Source
        /\ Cardinality(Source) \in Nat /\ LoopsAhead \in 0 .. 2
        /\ ToChange \in 0 .. Cardinality(Source) + 1
        /\ Cardinality(unvisited) \in 0 .. Cardinality(Source)
    BY CountsAreSmall DEF IInv
  <1>1. /\ LoopsAhead' \in 0 .. 2 /\ ToChange' \in 0 .. Cardinality(Source) + 1
        /\ Cardinality(unvisited') \in 0 .. Cardinality(Source)
    BY CountsStaySmall
  <1>b. changed \in BOOLEAN
    BY DEF IInv, ScopeTypeOK
  <1>2. ASSUME NEW s \in unvisited, unvisited' = unvisited \ {s}
        PROVE  Cardinality(unvisited') < Cardinality(unvisited)
    <2>1. Cardinality(unvisited \ {s}) = Cardinality(unvisited) - 1
      BY <1>0, SmallSets
    <2> QED BY <1>0, <1>2, <2>1
  <1>3. ASSUME NEW s \in Source, Drop(s) PROVE Falls
    <2>1. /\ phase = "shrink" /\ phase' = "shrink" /\ changed' = TRUE
          /\ candidates' = candidates \ {s}
          /\ s \in unvisited /\ unvisited' = unvisited \ {s}
      BY <1>3 DEF Drop
    <2>2. s \in candidates
      BY <2>1 DEF IInv, Shrinking
    <2>3. Cardinality(candidates') = Cardinality(candidates) - 1
      BY <1>0, <2>1, <2>2, SmallSets
    <2>4. Cardinality(candidates) \in Nat
      BY <1>0, SmallSets, FS_CardinalityType
    <2>5. ToChange = Cardinality(candidates) + (IF changed THEN 1 ELSE 0)
      BY <2>1 DEF ToChange, Population
    <2>6. ToChange' = Cardinality(candidates)
      BY <2>1, <2>3, <2>4 DEF ToChange, Population
    <2>7. ToChange' < ToChange \/ ToChange' = ToChange
      BY <2>4, <2>5, <2>6
    <2> QED BY <1>2, <2>1, <2>7 DEF LoopsAhead
  <1>4. ASSUME NEW s \in Source, Join(s) PROVE Falls
    <2>1. /\ phase = "grow" /\ phase' = "grow" /\ changed' = TRUE
          /\ eligible' = eligible \ {s}
          /\ s \in unvisited /\ unvisited' = unvisited \ {s}
      BY <1>4 DEF Join
    <2>2. s \in eligible
      BY <2>1 DEF IInv, Growing
    <2>3. Cardinality(eligible') = Cardinality(eligible) - 1
      BY <1>0, <2>1, <2>2, SmallSets
    <2>4. Cardinality(eligible) \in Nat
      BY <1>0, SmallSets, FS_CardinalityType
    <2>5. ToChange = Cardinality(eligible) + (IF changed THEN 1 ELSE 0)
      BY <2>1 DEF ToChange, Population
    <2>6. ToChange' = Cardinality(eligible)
      BY <2>1, <2>3, <2>4 DEF ToChange, Population
    <2>7. ToChange' < ToChange \/ ToChange' = ToChange
      BY <2>4, <2>5, <2>6
    <2> QED BY <1>2, <2>1, <2>7 DEF LoopsAhead
  <1>5. ASSUME NEW s \in Source, Keep(s) \/ Skip(s) PROVE Falls
    <2>1. /\ UNCHANGED <<phase, candidates, eligible, changed>>
          /\ s \in unvisited /\ unvisited' = unvisited \ {s}
      BY <1>5 DEF Keep, Skip
    <2> QED BY <1>2, <2>1 DEF LoopsAhead, ToChange, Population
  <1>6. ASSUME Again PROVE Falls
    <2>1. /\ UNCHANGED <<phase, candidates, eligible>>
          /\ changed = TRUE /\ changed' = FALSE
      BY <1>b, <1>6 DEF Again
    <2>2. LoopsAhead' = LoopsAhead /\ Population' = Population
      BY <2>1 DEF LoopsAhead, Population
    <2>3. Cardinality(Population) \in Nat
      BY <1>0, SmallSets, FS_CardinalityType DEF Population
    <2>4. ToChange' < ToChange
      BY <2>1, <2>2, <2>3 DEF ToChange
    <2> QED BY <2>2, <2>4
  <1>7. ASSUME Shrunken \/ Finish PROVE Falls
    BY <1>7 DEF Shrunken, Finish, LoopsAhead
  <1>8. Falls
    BY <1>3, <1>4, <1>5, <1>6, <1>7 DEF ScopeNext
  <1>9. QED
    <2> DEFINE n == Cardinality(Source)
    <2>1. /\ VisitsLeft = ((n + 2) * (n + 2)) * LoopsAhead + (n + 2) * ToChange
                              + Cardinality(unvisited)
          /\ VisitsLeft' = ((n + 2) * (n + 2)) * LoopsAhead' + (n + 2) * ToChange'
                              + Cardinality(unvisited')
      BY DEF VisitsLeft, Weight
    <2>2. /\ n \in Nat /\ LoopsAhead \in Nat /\ LoopsAhead' \in Nat
          /\ ToChange \in Nat /\ ToChange' \in Nat /\ ToChange' <= n + 1
          /\ Cardinality(unvisited) \in Nat /\ Cardinality(unvisited') \in Nat
          /\ Cardinality(unvisited') <= n
      BY <1>0, <1>1
    <2> HIDE DEF n
    <2> QED BY <1>8, <2>1, <2>2, Lowered

LEMMA VisitsAreBounded ==
  ASSUME IsFiniteSet(Source), ScopeTypeOK
  PROVE  Bounded
  <1> DEFINE n == Cardinality(Source)
             w == n + 2
             s == w * w
  <1>1. /\ n \in Nat /\ LoopsAhead \in 0 .. 2 /\ ToChange \in 0 .. n + 1
        /\ Cardinality(unvisited) \in 0 .. n
    BY CountsAreSmall
  <1> HIDE DEF n
  <1>2. w * ToChange + w <= s
    BY <1>1, Scale
  <1>3. s * LoopsAhead + s <= s * 3
    <2>1. s \in Nat
      BY <1>1
    <2> HIDE DEF s
    <2> QED BY <1>1, <2>1, Scale
  <1>4. s \in Nat /\ w * ToChange \in Nat /\ s * LoopsAhead \in Nat /\ s * 3 = 3 * s
    BY <1>1
  <1>5. VisitsLeft = s * LoopsAhead + w * ToChange + Cardinality(unvisited)
    BY DEF VisitsLeft, Weight, n
  <1> HIDE DEF s
  <1>6. VisitsLeft \in 0 .. 3 * s
    BY <1>1, <1>2, <1>3, <1>4, <1>5
  <1>7. QED
    BY <1>6 DEF Bounded, Weight, n, s

(* The derivation ends after a number of rounds that is bounded by the     *)
(* square of the number of sources, whatever they import and in whatever   *)
(* order they are visited, although both loops visit a source again        *)
(* whenever another one has changed: each round lowers a natural number.   *)
THEOREM DerivationEnds ==
  IsFiniteSet(Source) =>
      (ScopeSpec => []Bounded /\ [][VisitsLeft' < VisitsLeft]_scopeVars)
  <1> SUFFICES ASSUME IsFiniteSet(Source)
               PROVE  ScopeSpec => []Bounded /\ [][VisitsLeft' < VisitsLeft]_scopeVars
    OBVIOUS
  <1>1. IInv => Bounded
    BY VisitsAreBounded DEF IInv
  <1>2. IInv /\ IInv' /\ [ScopeNext]_scopeVars => [VisitsLeft' < VisitsLeft]_scopeVars
    BY VisitsFall DEF IInv
  <1>3. QED
    BY <1>1, <1>2, IInvHolds, PTL DEF ScopeSpec

-----------------------------------------------------------------------------
(* From one commit to the next: the unprimed sources are those of the one, *)
(* the primed sources those of the other.                                  *)

LEMMA GrownIsClosed == IsClosed(Grown) /\ Grown \subseteq Source
  <1>1. Shrunk \subseteq Grown
    BY ShrunkIsSelfSupported, SeedsMayBeTestOnly DEF Grown, IsClosed
  <1>2. ASSUME NEW s \in MayBeTestOnly, importers[s] # {}, importers[s] \subseteq Grown
        PROVE  s \in Grown
    BY <1>2, SeedsMayBeTestOnly DEF Grown, IsClosed
  <1>3. QED
    BY <1>1, <1>2 DEF IsClosed, Grown

(* A commit that makes no new test, and that lets sources be imported from *)
(* measured ones only, hides nothing: what was measured stays measured     *)
(* (_derive_scope), whatever else it takes into the measured universe.     *)
THEOREM MeasuredStaysMeasured ==
  ASSUME Seeds' \subseteq Seeds, MayBeTestOnly' \subseteq MayBeTestOnly,
         \A s \in Source : /\ importers[s] \subseteq importers'[s]
                           /\ importers'[s] \cap Grown \subseteq importers[s]
  PROVE  Grown' \subseteq Grown
  <1>1. Shrunk' \subseteq Shrunk
    <2>1. Shrunk' \subseteq Seeds' /\ \A s \in Shrunk' : importers'[s] \subseteq Shrunk'
      BY DEF Shrunk
    <2>2. SelfSupported(Shrunk')
      BY <2>1, SeedsMayBeTestOnly DEF SelfSupported
    <2>3. QED
      BY <2>1, <2>2, ShrunkIsLargest
  <1>2. ASSUME NEW s \in MayBeTestOnly', importers'[s] # {}, importers'[s] \subseteq Grown
        PROVE  s \in Grown
    <2>1. s \in MayBeTestOnly /\ s \in Source
      BY SeedsMayBeTestOnly
    <2>2. importers[s] = importers'[s]
      BY <1>2, <2>1
    <2>3. QED
      BY <1>2, <2>1, <2>2, GrownIsClosed DEF IsClosed
  <1>3. \A C \in SUBSET Source :
            /\ Shrunk' \subseteq C
            /\ \A s \in MayBeTestOnly' : importers'[s] # {} /\ importers'[s] \subseteq C => s \in C
            => Grown' \subseteq C
    BY DEF Grown, IsClosed
  <1>4. Shrunk' \subseteq Grown /\ Grown \in SUBSET Source
    BY <1>1, GrownIsClosed DEF IsClosed
  <1>5. QED
    BY <1>2, <1>3, <1>4

=============================================================================
