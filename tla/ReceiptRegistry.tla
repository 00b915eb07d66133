---------------------------- MODULE ReceiptRegistry ----------------------------
(***************************************************************************)
(* The authority-cutover receipt registry: a directory of one JSON file    *)
(* per receipt that changes by pull requests only, and the validator       *)
(* tools/check_receipts.py that every pull request must pass.  Authors     *)
(* work on branches; the workflow checks the merge of a branch with main;  *)
(* the verdict is used later, when main may have moved.                    *)
(*                                                                         *)
(* A receipt file is what it supersedes and its remaining bytes.           *)
(***************************************************************************)
EXTENDS Naturals, FiniteSets

CONSTANTS
    Receipt,      \* receipt ids, which are the file names
    Body,         \* the bytes of a receipt besides supersedes_receipt
    WellFormed,   \* the bodies the closed envelope accepts
    NoFile,       \* the registry has no such receipt
    Nobody,       \* the receipt supersedes none
    Branch,       \* pull requests open at a time
    MaxChanges    \* receipts one pull request may change, by protection

File     == [body : Body, supersedes : Receipt \cup {Nobody}]
Registry == [Receipt -> File \cup {NoFile}]
Verdict  == {"executed_passed", "executed_failed", "not_applicable"}

ASSUME ReceiptAssumption ==
    /\ IsFiniteSet(Receipt)
    /\ WellFormed \subseteq Body
    /\ NoFile \notin File
    /\ Nobody \notin Receipt
ASSUME BoundAssumption == MaxChanges \in [BOOLEAN -> Nat]

VARIABLES
    main,      \* the registry on the main branch
    tree,      \* tree[b]: the registry on branch b
    fork,      \* fork[b]: main where b was created or last updated from it
    verdict,   \* verdict[b]: the last check of b, "unchecked" since a change
    against,   \* against[b]: main when that check ran, empty without one
    strict     \* must a branch contain main's tip when it is merged?

vars == <<main, tree, fork, verdict, against, strict>>

Empty == [n \in Receipt |-> NoFile]

Init ==
    /\ main = Empty
    /\ tree = [b \in Branch |-> Empty]
    /\ fork = [b \in Branch |-> Empty]
    /\ against = [b \in Branch |-> Empty]
    /\ verdict = [b \in Branch |-> "unchecked"]
    /\ strict \in BOOLEAN

-----------------------------------------------------------------------------
(* The validator                                                           *)

Held(reg) == {n \in Receipt : reg[n] # NoFile}

Malformed(reg) == \E n \in Held(reg) : reg[n].body \notin WellFormed

(* The receipts that name n as the one they supersede.                     *)
Correctors(reg, n) == {m \in Held(reg) : m # n /\ reg[m].supersedes = n}

SupersedesItself(reg) == \E n \in Held(reg) : reg[n].supersedes = n

Dangling(reg) == \E n \in Held(reg) : reg[n].supersedes \notin Held(reg) \cup {Nobody}

Forked(reg) == \E n \in Held(reg) : Cardinality(Correctors(reg, n)) > 1

(* Where the walk from n is after k hops, Nobody once it has left.         *)
Walk(reg, n) ==
    LET cursor[k \in 0 .. Cardinality(Receipt)] ==
            IF k = 0 THEN n
            ELSE LET at == cursor[k - 1]
                 IN  IF at \in Held(reg) THEN reg[at].supersedes ELSE Nobody
    IN  cursor

(* A walk still inside after as many hops as there are receipts repeats.   *)
Cyclic(reg) ==
    \E n \in Held(reg) : Walk(reg, n)[Cardinality(Receipt)] \in Held(reg)

(* A bug of the supersession check: chains are not walked.                 *)
SupersessionWithoutWalk(reg) ==
    SupersedesItself(reg) \/ Dangling(reg) \/ Forked(reg)

SupersessionErrors(reg) ==
    SupersedesItself(reg) \/ Dangling(reg) \/ Forked(reg) \/ Cyclic(reg)

(* A bug of the byte comparison: what is gone from the tree is skipped.    *)
RewrittenOnly(reg, base) ==
    \E n \in Held(base) : reg[n] # NoFile /\ reg[n] # base[n]

AppendOnlyErrors(reg, base) == \E n \in Held(base) : reg[n] # base[n]

Validate(reg, base) ==
    IF Malformed(reg) \/ SupersessionErrors(reg) \/ AppendOnlyErrors(reg, base)
    THEN "executed_failed"
    ELSE IF Held(reg) = {} THEN "not_applicable" ELSE "executed_passed"

-----------------------------------------------------------------------------
(* Branches                                                                *)

(* Both sides changed the same receipt since they parted.                  *)
Conflict(mine, base, theirs) ==
    \E n \in Receipt : mine[n] # base[n] /\ theirs[n] # base[n] /\ mine[n] # theirs[n]

Merged(mine, base, theirs) ==
    [n \in Receipt |-> IF mine[n] # base[n] THEN mine[n] ELSE theirs[n]]

Changes(mine, base) == {n \in Receipt : mine[n] # base[n]}

(* The verdict of b is about a tree that is not there any more.            *)
Unchecked(b) ==
    /\ verdict' = [verdict EXCEPT ![b] = "unchecked"]
    /\ against' = [against EXCEPT ![b] = Empty]

(* An author adds, rewrites or deletes a receipt on branch b.              *)
Change(b, n, f) ==
    /\ tree[b][n] # f
    /\ tree' = [tree EXCEPT ![b][n] = f]
    /\ Cardinality(Changes(tree'[b], fork[b])) <= MaxChanges[strict]
    /\ Unchecked(b)
    /\ UNCHANGED <<main, fork>>

(* The author merges main into branch b.                                   *)
Update(b) ==
    /\ fork[b] # main
    /\ ~Conflict(tree[b], fork[b], main)
    /\ tree' = [tree EXCEPT ![b] = Merged(tree[b], fork[b], main)]
    /\ fork' = [fork EXCEPT ![b] = main]
    /\ Unchecked(b)
    /\ UNCHANGED main

(* The workflow checks out the merge of b into main and validates it       *)
(* against main, which is then the merge base.                             *)
Check(b) ==
    /\ ~Conflict(tree[b], fork[b], main)
    /\ verdict' = [verdict EXCEPT ![b] =
           Validate(Merged(tree[b], fork[b], main), main)]
    /\ against' = [against EXCEPT ![b] = main]
    /\ UNCHANGED <<main, tree, fork>>

(* The required check is green, and b merges without a conflict.  The next *)
(* pull request under the name b starts from the new main.                 *)
Merge(b) ==
    /\ verdict[b] \in {"executed_passed", "not_applicable"}
    /\ strict => fork[b] = main
    /\ ~Conflict(tree[b], fork[b], main)
    /\ main' = Merged(tree[b], fork[b], main)
    /\ tree' = [tree EXCEPT ![b] = main']
    /\ fork' = [fork EXCEPT ![b] = main']
    /\ Unchecked(b)

(* Nobody changes the protection of main.                                  *)
Next ==
    /\ \E b \in Branch :
           \/ \E n \in Receipt, f \in File \cup {NoFile} : Change(b, n, f)
           \/ Update(b)
           \/ Check(b)
           \/ Merge(b)
    /\ UNCHANGED strict

Spec == Init /\ [][Next]_vars

-----------------------------------------------------------------------------
(* Properties                                                              *)

(* The values the state variables range over.                              *)
TypeOK ==
    /\ main \in Registry
    /\ tree \in [Branch -> Registry]
    /\ fork \in [Branch -> Registry]
    /\ against \in [Branch -> Registry]
    /\ verdict \in [Branch -> Verdict \cup {"unchecked"}]
    /\ strict \in BOOLEAN

(* A receipt that is on main stays there, byte for byte, whatever branches *)
(* rewrite, delete or rename, and however stale the verdict is that lets   *)
(* them in.                                                                *)
MainIsAppendOnly ==
    [][\A n \in Held(main) : main'[n] = main[n]]_vars

(* h stands at the end of corrections and leads back to n: n is in every   *)
(* set that has h and whatever its members supersede.                      *)
Current(reg, h, n) ==
    /\ h \in Held(reg)
    /\ \A m \in Held(reg) : reg[m].supersedes # h
    /\ \A S \in SUBSET Receipt :
           (h \in S /\ \A m \in S \cap Held(reg) : reg[m].supersedes \in S \cup {Nobody})
               => n \in S

(* Where a branch must be up to date to be merged, every receipt on main   *)
(* has exactly one current receipt, which is what supersession is for.     *)
EveryReceiptHasOneCurrent ==
    strict => \A n \in Held(main) :
        Cardinality({h \in Receipt : Current(main, h, n)}) = 1

(* Where it need not, a merge under a stale verdict can still leave no     *)
(* receipt that corrects one that is not there, and none without a current *)
(* one: two branches that are each green may fork a chain, but not break   *)
(* or close it.                                                            *)
EveryReceiptStands ==
    \A n \in Held(main) :
        /\ main[n].body \in WellFormed
        /\ main[n].supersedes \in Held(main) \cup {Nobody}
        /\ \E h \in Receipt : Current(main, h, n)

=============================================================================
