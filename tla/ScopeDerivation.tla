---------------------------- MODULE ScopeDerivation ----------------------------
(***************************************************************************)
(* Which sources of a product the standards engine measures for external   *)
(* connectors: _derive_scope of standards_control/engine.py.  Sources that *)
(* are proven to be test-only are excluded, everything else is measured.   *)
(* The proof is two loops over a set that they change while they go        *)
(* through it, in the order of path names: the first drops the tests that  *)
(* something outside reaches, the second adds the helpers only excluded    *)
(* sources reach.  The order of names is any order here.                   *)
(*                                                                         *)
(* After it, _trace_client_factories follows HTTP clients along the        *)
(* imports, once over what is measured and once over everything.           *)
(***************************************************************************)

CONSTANTS
    Source,   \* the tracked Python sources
    Traits    \* what a source may be: sets of traits

Trait == {"declares a test", "offers a surface", "entry point",
          "declared runtime", "no python suffix", "unreadable"}

ASSUME TraitsAssumption == Traits \subseteq SUBSET Trait

VARIABLES
    traits,      \* what each source is
    importers,   \* who imports it
    phase,       \* the loop the engine is in
    candidates,  \* the sources excluded so far
    eligible,    \* the sources that may still join them
    unvisited,   \* the rest of this pass of the loop
    changed,     \* this pass has changed something
    reason       \* why each candidate is one

input == <<traits, importers>>
scopeVars ==
    <<traits, importers, phase, candidates, eligible, unvisited, changed, reason>>

-----------------------------------------------------------------------------
(* A source the engine cannot parse has no tree: it is measured, and it is *)
(* nobody's importer.                                                      *)
Trees == {s \in Source : "unreadable" \notin traits[s]}

(* _importers: nothing imports itself.                                     *)
Graph == [Source -> SUBSET Source]

IsImportGraph(g) ==
    /\ \A s \in Trees : g[s] \subseteq Trees \ {s}
    /\ \A s \in Source \ Trees : g[s] = {}

(* What may be excluded at all.                                            *)
MayBeTestOnly ==
    {s \in Trees :
        traits[s] \cap {"entry point", "declared runtime", "no python suffix"} = {}}

Seeds == {s \in MayBeTestOnly : /\ "declares a test" \in traits[s]
                                /\ "offers a surface" \notin traits[s]}

(* A bug of the first loop: one importer that is a candidate is enough.    *)
ReachedByNoTest(s) == importers[s] # {} /\ importers[s] \cap candidates = {}

(* The condition of the first loop.                                        *)
ReachedFromOutside(s) == ~(importers[s] \subseteq candidates)

(* Two bugs of the second loop: a source that nothing imports joins, or    *)
(* one that somebody else imports as well.                                 *)
NotReachedFromOutside(s) == importers[s] \subseteq candidates

ReachedByACandidate(s) == importers[s] \cap candidates # {}

(* The condition of the second loop.                                       *)
TestOnly(s) == importers[s] # {} /\ importers[s] \subseteq candidates

ScopeInit ==
    /\ traits \in [Source -> Traits]
    /\ importers \in Graph
    /\ IsImportGraph(importers)
    /\ phase = "shrink"
    /\ candidates = Seeds
    /\ eligible = {}
    /\ unvisited = Seeds
    /\ changed = FALSE
    /\ reason = [s \in Source |-> IF s \in Seeds THEN "a test" ELSE "none"]

(* One round of the first loop's body.                                     *)
Drop(s) ==
    /\ phase = "shrink"
    /\ s \in unvisited
    /\ ReachedFromOutside(s)
    /\ unvisited' = unvisited \ {s}
    /\ candidates' = candidates \ {s}
    /\ reason' = [reason EXCEPT ![s] = "none"]
    /\ changed' = TRUE
    /\ UNCHANGED <<input, phase, eligible>>

Keep(s) ==
    /\ phase = "shrink"
    /\ s \in unvisited
    /\ ~ReachedFromOutside(s)
    /\ unvisited' = unvisited \ {s}
    /\ UNCHANGED <<input, phase, candidates, eligible, changed, reason>>

(* A bug of the second loop: a test that comes back gets no reason.        *)
JoinUnexplained(s) ==
    /\ phase = "grow"
    /\ s \in unvisited
    /\ TestOnly(s)
    /\ unvisited' = unvisited \ {s}
    /\ candidates' = candidates \cup {s}
    /\ eligible' = eligible \ {s}
    /\ changed' = TRUE
    /\ UNCHANGED <<input, phase, reason>>

(* One round of the second loop's body.                                    *)
Join(s) ==
    /\ phase = "grow"
    /\ s \in unvisited
    /\ TestOnly(s)
    /\ unvisited' = unvisited \ {s}
    /\ candidates' = candidates \cup {s}
    /\ eligible' = eligible \ {s}
    /\ reason' = [reason EXCEPT ![s] = "imported by tests"]
    /\ changed' = TRUE
    /\ UNCHANGED <<input, phase>>

Skip(s) ==
    /\ phase = "grow"
    /\ s \in unvisited
    /\ ~TestOnly(s)
    /\ unvisited' = unvisited \ {s}
    /\ UNCHANGED <<input, phase, candidates, eligible, changed, reason>>

Population == IF phase = "shrink" THEN candidates ELSE eligible

(* A bug of both loops: a pass never forgets that an earlier one changed.  *)
AgainForever ==
    /\ phase \in {"shrink", "grow"}
    /\ unvisited = {} /\ changed
    /\ unvisited' = Population
    /\ UNCHANGED <<input, phase, candidates, eligible, changed, reason>>

(* The end of a pass that has changed something: another one.              *)
Again ==
    /\ phase \in {"shrink", "grow"}
    /\ unvisited = {} /\ changed
    /\ unvisited' = Population
    /\ changed' = FALSE
    /\ UNCHANGED <<input, phase, candidates, eligible, reason>>

(* A bug of both loops: one pass is taken to be enough.                    *)
OnePass == unvisited = {}

(* The end of a pass that has changed nothing ends the loop.               *)
Settled == unvisited = {} /\ ~changed

Shrunken ==
    /\ phase = "shrink"
    /\ Settled
    /\ phase' = "grow"
    /\ eligible' = MayBeTestOnly \ candidates
    /\ unvisited' = eligible'
    /\ changed' = FALSE
    /\ UNCHANGED <<input, candidates, reason>>

Finish ==
    /\ phase = "grow"
    /\ Settled
    /\ phase' = "done"
    /\ UNCHANGED <<input, candidates, eligible, unvisited, changed, reason>>

ScopeNext ==
    \/ \E s \in Source : Drop(s) \/ Keep(s) \/ Join(s) \/ Skip(s)
    \/ Again
    \/ Shrunken
    \/ Finish

ScopeSpec == ScopeInit /\ [][ScopeNext]_scopeVars

-----------------------------------------------------------------------------
(* _trace_client_factories: what yields an HTTP client, over the sources   *)
(* of a universe.  Each source has one module-level function: it makes a   *)
(* client, wraps one that the source can see, or is a name the source      *)
(* republishes.  The trace takes exactly two rounds; stopping when nothing *)
(* grew changes no result.                                                 *)
Shape == {"constructs", "wraps", "republishes", "silent"}

Imports(s, universe) == {t \in universe : s \in importers[t]}

Constructors(shape, universe) == {s \in universe : shape[s] = "constructs"}

Exported(shape, universe, owned) ==
    owned \cup {s \in universe : /\ shape[s] = "republishes"
                                 /\ Imports(s, universe) \cap owned # {}}

Visible(shape, universe, owned) ==
    owned \cup {s \in universe :
                   Imports(s, universe) \cap Exported(shape, universe, owned) # {}}

Factories(shape, universe, owned) ==
    Constructors(shape, universe)
        \cup {s \in Visible(shape, universe, owned) : shape[s] = "wraps"}

Trace(shape, universe) ==
    LET once  == Factories(shape, universe, Constructors(shape, universe))
        twice == Factories(shape, universe, once)
    IN  twice \cup Visible(shape, universe, once)

-----------------------------------------------------------------------------
(* What the two loops are to compute, whatever the order: the largest set  *)
(* of seeds that only itself reaches, and the least set around it that     *)
(* every test-only helper is in.                                           *)
Shrunk == UNION {C \in SUBSET Seeds : \A s \in C : importers[s] \subseteq C}

IsClosed(C) ==
    /\ Shrunk \subseteq C
    /\ \A s \in MayBeTestOnly :
           importers[s] # {} /\ importers[s] \subseteq C => s \in C

Grown == {s \in Source : \A C \in SUBSET Source : IsClosed(C) => s \in C}

ScopeTypeOK ==
    /\ traits \in [Source -> Traits]
    /\ importers \in Graph
    /\ IsImportGraph(importers)
    /\ phase \in {"shrink", "grow", "done"}
    /\ candidates \subseteq MayBeTestOnly
    /\ eligible \subseteq MayBeTestOnly
    /\ unvisited \subseteq MayBeTestOnly
    /\ changed \in BOOLEAN
    /\ reason \in [Source -> {"none", "a test", "imported by tests"}]

(* The result does not depend on the order in which the sources are        *)
(* visited, although each visit sees what the earlier ones have changed    *)
(* (_derive_scope: "so the result does not depend on iteration order").    *)
OrderDoesNotMatter == phase = "done" => candidates = Grown

(* What a measured source imports, directly or through others, is          *)
(* measured: nothing that ships leaves the universe ("Anything reachable   *)
(* from a non-candidate is measured").                                     *)
MeasuredReachesOnlyMeasured ==
    phase = "done" =>
        \A s \in candidates : importers[s] \subseteq candidates

(* Every exclusion can be traced back to a test: no group of helpers is    *)
(* excluded because its members only import one another, and a source that *)
(* nothing imports is measured unless it is a test.                        *)
ExclusionsBeginAtTests ==
    phase = "done" =>
        \A C \in SUBSET candidates :
            /\ Seeds \cap candidates \subseteq C
            /\ \A s \in candidates : importers[s] \cap C # {} => s \in C
            => C = candidates

(* The notice of an exclusion gives a reason that is true at the end, also *)
(* for a test that the first loop dropped and the second took back.        *)
ReasonsAreTrue ==
    phase = "done" =>
        \A s \in Source :
            CASE reason[s] = "a test" ->
                     s \in Shrunk /\ importers[s] \subseteq candidates
              [] reason[s] = "imported by tests" ->
                     /\ s \in candidates
                     /\ importers[s] # {} /\ importers[s] \subseteq candidates
              [] OTHER -> s \notin candidates

(* The clients traced over the measured sources are those of the whole     *)
(* repository: the exclusions hide no factory from a measured source       *)
(* (_derive_scope: a separate resolution that "cannot move" the counts).   *)
ExclusionsMoveNoTrace ==
    phase = "done" =>
        \A shape \in [Source -> Shape] :
            Trace(shape, Trees \ candidates) = Trace(shape, Trees) \ candidates

(* Both loops come to an end, whatever the imports are.                    *)
Terminates == <>(phase = "done")

=============================================================================
