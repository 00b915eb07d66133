---------------------------- MODULE TeardownEvidence ----------------------------
(***************************************************************************)
(* The evidence by which a product passes the gates of a retirement: its   *)
(* deletion migration is rehearsed, tried on deployed targets where other  *)
(* people change the catalogue as well, and every try is observed.  A      *)
(* collector puts some observations into a bundle, in the order of time;   *)
(* the parser of retirement.py and the standards engine decide whether the *)
(* bundle supports the gate that is requested.                             *)
(*                                                                         *)
(* An observation is what happened: the end of a try or the phase of an    *)
(* observation between them, the catalogue as it was found, the checks     *)
(* that passed, and the observation of the target before it.               *)
(***************************************************************************)
EXTENDS Naturals, Sequences

CONSTANTS
    Target,      \* deployed targets
    Edge,        \* catalogue edges, with their definitions
    Revision,    \* revisions of the product, numbered as they follow
    Reviewed,    \* Reviewed[r]: the teardown set that r declares
    Careful,     \* the revisions whose migration fences, rechecks and restricts
    ChangeTo,    \* the catalogues that others may leave on a target
    MaxLog       \* bound: observations made

ASSUME TeardownAssumption ==
    /\ Reviewed \in [Revision -> (SUBSET Edge) \ {{}}]
    /\ Revision \subseteq Nat /\ Careful \subseteq Revision
    /\ ChangeTo \subseteq SUBSET Edge
    /\ MaxLog \in Nat

VARIABLES
    head,        \* the product's revision
    catalogue,   \* catalogue[t]: what stands on target t
    log,         \* the observations of deployed targets, in the order of time
    admitted     \* the bundle last accepted, if that was the last step

teardownVars == <<head, catalogue, log, admitted>>

Stage == {"fence_acquisition", "inventory_validation", "teardown"}

NoBundle == [gate |-> "none", chain |-> {}]

-----------------------------------------------------------------------------
(* What a try of the migration of r does to a catalogue, and what is seen  *)

(* A careless migration drops what it names without a look.                *)
MayEnd(r, end, found) ==
    CASE end = "fence_acquisition" -> TRUE
      [] end = "inventory_validation" -> r \in Careful /\ found # Reviewed[r]
      [] OTHER -> r \in Careful => found = Reviewed[r]

(* A careful migration undoes what it did when it fails.                   *)
Leaves(r, end, found) ==
    IF end = "committed" THEN {found \ Reviewed[r]}
    ELSE IF end = "teardown" /\ r \notin Careful THEN SUBSET found ELSE {found}

Passes(r, end, found, left) ==
    (IF end # "committed" /\ left = found THEN {"undone"} ELSE {})
        \cup (IF end = "fence_acquisition" \/ r \notin Careful THEN {}
              ELSE {"fenced", "rechecked"}
                   \cup (IF end = "inventory_validation" THEN {} ELSE {"ordered", "restricted"})
                   \cup (IF end = "committed" THEN {"matched"} ELSE {}))

(* The catalogue is not measured before the fence is held.                 *)
Seen(end, found) == IF end = "fence_acquisition" THEN {} ELSE found

(* The three refusals that a rehearsal of r provokes on a copy; the one of *)
(* the inventory is provoked with a catalogue that differs.                *)
Rehearsal(r) ==
    [end \in Stage |->
        LET found == IF end = "inventory_validation" THEN {} ELSE Reviewed[r]
        IN  [end |-> end, measured |-> end # "fence_acquisition",
             edges |-> Seen(end, found), passed |-> Passes(r, end, found, found)]]

-----------------------------------------------------------------------------
(* The parser and the engine                                               *)

Required(end) ==
    CASE end = "pre_drop" -> {"admission"}
      [] end = "post_upgrade" -> {"absent"}
      [] end = "fence_acquisition" -> {"undone"}
      [] end = "inventory_validation" -> {"fenced", "rechecked", "undone"}
      [] end = "teardown" -> {"fenced", "rechecked", "ordered", "restricted", "undone"}
      [] end = "committed" -> {"fenced", "rechecked", "ordered", "restricted", "matched"}

(* A bug of the phases: the checks of a phase are not looked at.           *)
PhaseHoldsUnchecked(o, reviewed) ==
    CASE o.end = "fence_acquisition" -> ~o.measured
      [] o.end = "inventory_validation" -> o.measured /\ o.edges # reviewed
      [] o.end = "post_upgrade" -> o.measured /\ o.edges = {}
      [] OTHER -> o.measured /\ o.edges = reviewed

(* Checks that are not required are as wrong as required ones missing.     *)
PhaseHolds(o, reviewed) ==
    /\ o.passed = Required(o.end)
    /\ CASE o.end = "fence_acquisition" -> ~o.measured
         [] o.end = "inventory_validation" -> o.measured /\ o.edges # reviewed
         [] o.end = "post_upgrade" -> o.measured /\ o.edges = {}
         [] OTHER -> o.measured /\ o.edges = reviewed

Order(o) == IF o.end = "pre_drop" THEN 0 ELSE IF o.end = "post_upgrade" THEN 2 ELSE 1

(* The observation in chain that comes before k, 0 for the first.          *)
Previous(chain, k) ==
    LET earlier == {j \in chain : j < k}
    IN  IF earlier = {} THEN 0 ELSE CHOOSE j \in earlier : \A i \in earlier : i <= j

(* A bug of the chain: the order of phases is all there is to it.          *)
ChainHoldsLoosely(chain) ==
    \A k \in chain :
        LET j == Previous(chain, k)
        IN  IF j = 0 THEN log[k].end = "pre_drop"
            ELSE /\ Order(log[j]) <= Order(log[k])
                 /\ log[k].end = "post_upgrade" => log[j].end = "committed"

(* Positions in the log are identities and times.                          *)
ChainHolds(chain) ==
    \A k \in chain :
        LET j == Previous(chain, k)
        IN  /\ log[k].before = j
            /\ IF j = 0 THEN log[k].end = "pre_drop"
               ELSE /\ log[k].end # "pre_drop"
                    /\ Order(log[j]) <= Order(log[k])
                    /\ log[k].end = "post_upgrade" => log[j].end = "committed"

ProductHolds(b) ==
    /\ b.rehearsal = b.revision
    /\ \A end \in Stage : PhaseHolds(Rehearsal(b.rehearsal)[end], Reviewed[head])

TargetHolds(b) ==
    /\ \A k \in b.chain :
           /\ \A j \in b.chain : log[k].target = log[j].target
           /\ log[k].revision = b.revision
           /\ PhaseHolds(log[k], Reviewed[head])
    /\ LET ends == {log[k].end : k \in b.chain}
       IN  /\ b.gate = "pre_drop" => "pre_drop" \in ends
           /\ b.gate = "post_upgrade" => {"committed", "post_upgrade"} \subseteq ends

Supports(b) ==
    /\ b.revision = head
    /\ ChainHolds(b.chain) /\ TargetHolds(b)
    /\ ProductHolds(b)

-----------------------------------------------------------------------------
(* What people do                                                          *)

TeardownInit ==
    /\ head \in Revision
    /\ catalogue \in [Target -> ChangeTo]
    /\ log = <<>>
    /\ admitted = NoBundle

(* The last observation of target t.                                       *)
LastOf(t) ==
    LET of == {k \in DOMAIN log : log[k].target = t}
    IN  IF of = {} THEN 0 ELSE CHOOSE k \in of : \A j \in of : j <= k

Observes(t, end, before, passed, left) ==
    /\ Len(log) < MaxLog
    /\ log' = Append(log, [target |-> t, revision |-> head, end |-> end,
                           before |-> before, measured |-> end # "fence_acquisition",
                           edges |-> Seen(end, catalogue[t]), passed |-> passed,
                           found |-> catalogue[t], left |-> left])
    /\ catalogue' = [catalogue EXCEPT ![t] = left]
    /\ admitted' = NoBundle
    /\ UNCHANGED head

ObservePreDrop(t) ==
    Observes(t, "pre_drop", 0,
             IF catalogue[t] = Reviewed[head] THEN {"admission"} ELSE {}, catalogue[t])

Try(t, end) ==
    /\ MayEnd(head, end, catalogue[t])
    /\ \E left \in Leaves(head, end, catalogue[t]) :
           Observes(t, end, LastOf(t), Passes(head, end, catalogue[t], left), left)

ObservePostUpgrade(t) ==
    Observes(t, "post_upgrade", LastOf(t),
             IF catalogue[t] \cap Reviewed[head] = {} THEN {"absent"} ELSE {}, catalogue[t])

Change(t, edges) ==
    /\ catalogue[t] # edges
    /\ catalogue' = [catalogue EXCEPT ![t] = edges]
    /\ admitted' = NoBundle
    /\ UNCHANGED <<head, log>>

Revise(r) ==
    /\ r > head
    /\ head' = r
    /\ admitted' = NoBundle
    /\ UNCHANGED <<catalogue, log>>

(* A bundle was collected at revision r with a rehearsal of revision q.    *)
Submit(gate) ==
    \E r, q \in {n \in Revision : n <= head} : \E chain \in SUBSET DOMAIN log :
        /\ Supports([gate |-> gate, revision |-> r, rehearsal |-> q, chain |-> chain])
        /\ admitted' = [gate |-> gate, chain |-> chain]
        /\ UNCHANGED <<head, catalogue, log>>

TeardownNext ==
    \/ \E t \in Target :
        \/ ObservePreDrop(t)
        \/ \E end \in Stage \cup {"committed"} : Try(t, end)
        \/ ObservePostUpgrade(t)
        \/ \E edges \in ChangeTo : Change(t, edges)
    \/ \E r \in Revision : Revise(r)
    \/ \E gate \in {"pre_drop", "post_upgrade"} : Submit(gate)

TeardownSpec == TeardownInit /\ [][TeardownNext]_teardownVars

-----------------------------------------------------------------------------
(* Properties                                                              *)

(* A completion that is accepted happened: on one target the reviewed      *)
(* objects, and nothing but them, were there when a teardown removed them, *)
(* none was there at the end, and every try before it had left the target  *)
(* as it found it.                                                         *)
CompletionIsReal ==
    admitted.gate = "post_upgrade" =>
        \E last \in admitted.chain :
            /\ log[last].end = "post_upgrade" /\ log[last].found = {}
            /\ \A k \in admitted.chain \ {last} :
                   LET o == log[k]
                   IN  /\ k < last
                       /\ IF o.end = "committed"
                          THEN o.found = Reviewed[head] /\ o.left = {} /\ head \in Careful
                          ELSE o.left = o.found

(* Nothing that was observed of the target between the first and the last  *)
(* observation of an accepted bundle is left out of it: a refused try      *)
(* cannot be hidden behind a later one that went well.                     *)
NoTryIsHidden ==
    \A j, n \in admitted.chain : \A k \in j .. n :
        log[k].target = log[j].target => k \in admitted.chain

=============================================================================
