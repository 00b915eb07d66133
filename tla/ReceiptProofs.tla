----------------------------- MODULE ReceiptProofs -----------------------------
(***************************************************************************)
(* Proofs about ReceiptRegistry, for every set of receipts, bodies and     *)
(* branches, and with or without the up-to-date rule.                      *)
(***************************************************************************)
EXTENDS ReceiptRegistry, FiniteSetTheorems, WellFoundedInduction, TLAPS

(* reg still has everything old has, byte for byte.                        *)
Extends(reg, old) == \A n \in Receipt : old[n] # NoFile => reg[n] = old[n]

Accepted(b) == verdict[b] \in {"executed_passed", "not_applicable"}

(* Main has only grown since a branch left it.  A green verdict was about  *)
(* a main in between, and about a merge that kept all of that main.        *)
Grown ==
    \A b \in Branch :
        /\ Extends(main, fork[b])
        /\ Accepted(b) =>
               /\ Extends(against[b], fork[b])
               /\ Extends(main, against[b])
               /\ Extends(Merged(tree[b], fork[b], against[b]), against[b])

IInv == TypeOK /\ Grown

-----------------------------------------------------------------------------
LEMMA MergedTyped ==
  ASSUME NEW mine \in Registry, NEW base \in Registry, NEW theirs \in Registry
  PROVE  Merged(mine, base, theirs) \in Registry
  BY DEF Merged, Registry

LEMMA ValidateTyped ==
  ASSUME NEW reg, NEW base
  PROVE  Validate(reg, base) \in Verdict
  BY DEF Validate, Verdict

(* A validator that accepts has compared every receipt of the base.        *)
LEMMA AcceptedExtends ==
  ASSUME NEW reg, NEW base, Validate(reg, base) # "executed_failed"
  PROVE  Extends(reg, base)
  BY DEF Validate, AppendOnlyErrors, Held, Extends

LEMMA ExtendsTransitive ==
  ASSUME NEW x, NEW y, NEW z, Extends(x, y), Extends(y, z)
  PROVE  Extends(x, z)
  BY DEF Extends

LEMMA TypeStep == TypeOK /\ [Next]_vars => TypeOK'
  <1> SUFFICES ASSUME TypeOK, [Next]_vars PROVE TypeOK'
    OBVIOUS
  <1> USE DEF TypeOK
  <1>e. Empty \in Registry
    BY DEF Empty, Registry
  <1>s. UNCHANGED strict
    BY DEF Next, vars
  <1>1. ASSUME NEW b \in Branch, NEW n \in Receipt, NEW f \in File \cup {NoFile},
               Change(b, n, f)
        PROVE  TypeOK'
    BY <1>1, <1>e, <1>s DEF Change, Unchecked, Registry
  <1>2. ASSUME NEW b \in Branch, Update(b) PROVE TypeOK'
    BY <1>2, <1>e, <1>s, MergedTyped DEF Update, Unchecked
  <1>3. ASSUME NEW b \in Branch, Check(b) PROVE TypeOK'
    BY <1>3, <1>s, ValidateTyped DEF Check
  <1>4. ASSUME NEW b \in Branch, Merge(b) PROVE TypeOK'
    BY <1>4, <1>e, <1>s, MergedTyped DEF Merge, Unchecked
  <1>5. CASE UNCHANGED vars
    BY <1>5 DEF vars
  <1>6. QED
    BY <1>1, <1>2, <1>3, <1>4, <1>5 DEF Next

(* The merge of a branch with a green verdict keeps all of main, also when *)
(* main has grown since: what the branch changed, it changed from nothing. *)
LEMMA MergeExtends ==
  ASSUME IInv, NEW b \in Branch, Accepted(b), ~Conflict(tree[b], fork[b], main)
  PROVE  Extends(Merged(tree[b], fork[b], main), main)
  <1> SUFFICES ASSUME NEW n \in Receipt, main[n] # NoFile
               PROVE  Merged(tree[b], fork[b], main)[n] = main[n]
    BY DEF Extends
  <1>1. CASE tree[b][n] = fork[b][n]
    BY <1>1 DEF Merged
  <1>2. CASE tree[b][n] # fork[b][n] /\ fork[b][n] = NoFile
    <2>1. main[n] = tree[b][n]
      BY <1>2 DEF Conflict
    <2>2. QED
      BY <2>1 DEF Merged
  <1>3. CASE tree[b][n] # fork[b][n] /\ fork[b][n] # NoFile
    <2>1. against[b][n] = fork[b][n]
      BY <1>3 DEF IInv, Grown, Extends
    <2>2. Merged(tree[b], fork[b], against[b])[n] = against[b][n]
      BY <1>3, <2>1 DEF IInv, Grown, Extends
    <2>3. Merged(tree[b], fork[b], against[b])[n] = tree[b][n]
      BY <1>3 DEF Merged
    <2>4. QED
      BY <1>3, <2>1, <2>2, <2>3
  <1>4. QED
    BY <1>1, <1>2, <1>3

LEMMA GrownStep == IInv /\ [Next]_vars => Grown' /\ Extends(main', main)
  <1> SUFFICES ASSUME IInv, [Next]_vars PROVE Grown' /\ Extends(main', main)
    OBVIOUS
  <1>0. TypeOK /\ Grown /\ Extends(main, main)
    BY DEF IInv, Extends
  <1>1. ASSUME NEW b \in Branch, NEW n \in Receipt, NEW f \in File \cup {NoFile},
               Change(b, n, f)
        PROVE  Grown' /\ Extends(main', main)
    BY <1>0, <1>1 DEF Change, Unchecked, Grown, Accepted, TypeOK, Extends, Merged
  <1>2. ASSUME NEW b \in Branch, Update(b) PROVE Grown' /\ Extends(main', main)
    BY <1>0, <1>2 DEF Update, Unchecked, Grown, Accepted, TypeOK, Extends
  <1>3. ASSUME NEW b \in Branch, Check(b) PROVE Grown' /\ Extends(main', main)
    <2>1. ASSUME NEW c \in Branch, c # b
          PROVE  against'[c] = against[c] /\ verdict'[c] = verdict[c]
      BY <1>3, <2>1 DEF Check
    <2>2. /\ against'[b] = main
          /\ verdict'[b] = Validate(Merged(tree[b], fork[b], main), main)
      BY <1>0, <1>3 DEF Check, TypeOK
    <2>3. Accepted(b)' => Extends(Merged(tree[b], fork[b], main), main)
      BY <2>2, AcceptedExtends DEF Accepted
    <2>4. UNCHANGED <<main, tree, fork>>
      BY <1>3 DEF Check
    <2>5. QED
      BY <1>0, <2>1, <2>2, <2>3, <2>4 DEF Grown, Accepted
  <1>4. ASSUME NEW b \in Branch, Merge(b) PROVE Grown' /\ Extends(main', main)
    <2>1. Extends(main', main)
      BY <1>4, MergeExtends DEF Merge, Accepted
    <2>2. fork'[b] = main' /\ verdict'[b] = "unchecked"
      BY <1>0, <1>4 DEF Merge, Unchecked, TypeOK
    <2>3. ASSUME NEW c \in Branch, c # b
          PROVE  /\ fork'[c] = fork[c] /\ tree'[c] = tree[c]
                 /\ against'[c] = against[c] /\ verdict'[c] = verdict[c]
      BY <1>4, <2>3 DEF Merge, Unchecked
    <2>4. ASSUME NEW c \in Branch
          PROVE  Extends(main', fork'[c]) /\ (Accepted(c)' => Extends(main', against'[c]))
      BY <1>0, <2>1, <2>2, <2>3, ExtendsTransitive DEF Grown, Accepted, Extends
    <2>5. QED
      BY <1>0, <2>1, <2>2, <2>3, <2>4 DEF Grown, Accepted
  <1>5. CASE UNCHANGED vars
    BY <1>0, <1>5 DEF vars, Grown, Accepted, Extends, Merged
  <1>6. QED
    BY <1>1, <1>2, <1>3, <1>4, <1>5 DEF Next

LEMMA Inductive == Spec => []IInv
  <1>1. Init => IInv
    BY DEF Init, IInv, TypeOK, Grown, Accepted, Extends, Empty, Registry
  <1>2. IInv /\ [Next]_vars => IInv'
    BY TypeStep, GrownStep DEF IInv
  <1>3. QED
    BY <1>1, <1>2, PTL DEF Spec

(* Every reachable state of main and the branches is well typed.           *)
THEOREM TypeCorrect == Spec => []TypeOK
  <1>1. IInv => TypeOK
    BY DEF IInv
  <1>2. QED
    BY <1>1, Inductive, PTL

(* No merge changes or removes a receipt of main, however stale the green  *)
(* verdict is that admits it.                                              *)
THEOREM AppendOnly == Spec => MainIsAppendOnly
  <1>1. IInv /\ [Next]_vars => [\A n \in Held(main) : main'[n] = main[n]]_vars
    BY GrownStep DEF Extends, Held
  <1>2. QED
    BY <1>1, Inductive, PTL DEF Spec, MainIsAppendOnly

-----------------------------------------------------------------------------
(* One current receipt                                                     *)

(* Under the up-to-date rule a green verdict is about what the merge will  *)
(* leave, and main has no error.                                           *)
Vouched ==
    /\ strict => ~SupersessionErrors(main)
    /\ \A b \in Branch : Accepted(b) =>
           ~SupersessionErrors(Merged(tree[b], fork[b], against[b]))

LEMMA EmptyHasNoErrors == ~SupersessionErrors(Empty)
  BY DEF SupersessionErrors, SupersedesItself, Dangling, Forked, Cyclic, Held, Empty

LEMMA VouchedStep == IInv /\ Vouched /\ [Next]_vars => Vouched'
  <1> SUFFICES ASSUME IInv, Vouched, [Next]_vars PROVE Vouched'
    OBVIOUS
  <1>0. TypeOK /\ Grown
    BY DEF IInv
  <1>s. UNCHANGED strict
    BY DEF Next, vars
  <1>1. ASSUME NEW b \in Branch, NEW n \in Receipt, NEW f \in File \cup {NoFile},
               Change(b, n, f)
        PROVE  Vouched'
    BY <1>0, <1>1, <1>s DEF Change, Unchecked, Vouched, Accepted, TypeOK
  <1>2. ASSUME NEW b \in Branch, Update(b) PROVE Vouched'
    BY <1>0, <1>2, <1>s DEF Update, Unchecked, Vouched, Accepted, TypeOK
  <1>3. ASSUME NEW b \in Branch, Check(b) PROVE Vouched'
    <2>1. \A c \in Branch : c # b => against'[c] = against[c] /\ verdict'[c] = verdict[c]
      BY <1>0, <1>3 DEF Check, TypeOK
    <2>2. /\ against'[b] = main
          /\ verdict'[b] = Validate(Merged(tree[b], fork[b], main), main)
          /\ UNCHANGED <<main, tree, fork>>
      BY <1>0, <1>3 DEF Check, TypeOK
    <2>3. Accepted(b)' => ~SupersessionErrors(Merged(tree[b], fork[b], main))
      BY <2>2 DEF Accepted, Validate
    <2>4. QED
      BY <1>s, <2>1, <2>2, <2>3 DEF Vouched, Accepted
  <1>4. ASSUME NEW b \in Branch, Merge(b) PROVE Vouched'
    <2>1. strict => against[b] = main
      <3>1. SUFFICES ASSUME strict PROVE against[b] = main
        OBVIOUS
      <3>2. Extends(against[b], main) /\ Extends(main, against[b])
        BY <1>0, <1>4, <3>1 DEF Merge, Grown, Accepted
      <3>3. \A n \in Receipt : against[b][n] = main[n]
        BY <3>2 DEF Extends
      <3>4. QED
        BY <1>0, <3>3 DEF TypeOK, Registry
    <2>2. strict => ~SupersessionErrors(main')
      BY <1>4, <2>1 DEF Merge, Vouched, Accepted
    <2>3. verdict'[b] = "unchecked"
      BY <1>0, <1>4 DEF Merge, Unchecked, TypeOK
    <2>4. \A c \in Branch : c # b =>
              /\ fork'[c] = fork[c] /\ tree'[c] = tree[c]
              /\ against'[c] = against[c] /\ verdict'[c] = verdict[c]
      BY <1>0, <1>4 DEF Merge, Unchecked, TypeOK
    <2>5. QED
      BY <1>s, <2>2, <2>3, <2>4 DEF Vouched, Accepted
  <1>5. CASE UNCHANGED vars
    BY <1>5 DEF vars, Vouched, Accepted
  <1>6. QED
    BY <1>1, <1>2, <1>3, <1>4, <1>5 DEF Next

LEMMA LeastNat ==
  ASSUME NEW T \in SUBSET Nat, T # {}
  PROVE  \E x \in T : \A y \in T : x <= y
  <1>1. IsWellFoundedOn(OpToRel(<, Nat), Nat)
    BY NatLessThanWellFounded
  <1>2. PICK x \in T : \A y \in T : ~(<<y, x>> \in OpToRel(<, Nat))
    BY <1>1, WFMin
  <1>3. \A y \in T : ~(y < x)
    BY <1>2 DEF OpToRel
  <1>4. QED
    BY <1>3

(* One hop of the walk.                                                    *)
Hop(reg, at) == IF at \in Held(reg) THEN reg[at].supersedes ELSE Nobody

Hops(reg, n, k, g) ==
    /\ DOMAIN g = 0 .. k
    /\ g[0] = n
    /\ \A j \in 1 .. k : g[j] = Hop(reg, g[j - 1])

(* A walk of any length exists.                                            *)
LEMMA WalkExists ==
  ASSUME NEW reg, NEW n, NEW K \in Nat
  PROVE  \E g : Hops(reg, n, K, g)
  <1> DEFINE T == {k \in Nat : ~\E g : Hops(reg, n, k, g)}
  <1>1. SUFFICES ASSUME T # {} PROVE FALSE
    OBVIOUS
  <1>2. PICK k \in T : \A y \in T : k <= y
    <2> HIDE DEF T
    <2>1. T \in SUBSET Nat
      BY DEF T
    <2> QED BY <1>1, <2>1, LeastNat
  <1>3. k # 0
    <2>1. Hops(reg, n, 0, [j \in 0 .. 0 |-> n])
      BY DEF Hops
    <2> QED BY <2>1
  <1>4. k - 1 \in Nat /\ k - 1 \notin T
    BY <1>2, <1>3
  <1>5. PICK g : Hops(reg, n, k - 1, g)
    BY <1>4
  <1> DEFINE longer == [j \in 0 .. k |-> IF j = k THEN Hop(reg, g[k - 1]) ELSE g[j]]
  <1>6. Hops(reg, n, k, longer)
    <2>1. DOMAIN longer = 0 .. k /\ longer[0] = n
      BY <1>3, <1>5 DEF Hops
    <2>2. ASSUME NEW j \in 1 .. k PROVE longer[j] = Hop(reg, longer[j - 1])
      <3>1. j - 1 \in 0 .. k /\ j - 1 # k /\ longer[j - 1] = g[j - 1]
        OBVIOUS
      <3>2. CASE j = k
        BY <3>1, <3>2
      <3>3. CASE j # k
        BY <1>4, <1>5, <3>1, <3>3 DEF Hops
      <3> QED BY <3>2, <3>3
    <2> QED BY <2>1, <2>2 DEF Hops
  <1>7. QED
    BY <1>6

(* The walk of the validator hops.                                         *)
LEMMA WalkHops ==
  ASSUME NEW reg, NEW n
  PROVE  Hops(reg, n, Cardinality(Receipt), Walk(reg, n))
  <1> DEFINE K == Cardinality(Receipt)
             Made(g) == g = [k \in 0 .. K |->
                               IF k = 0 THEN n
                               ELSE LET at == g[k - 1]
                                    IN  IF at \in Held(reg) THEN reg[at].supersedes
                                        ELSE Nobody]
  <1>0. K \in Nat
    BY ReceiptAssumption, FS_CardinalityType
  <1>1. PICK g0 : Hops(reg, n, K, g0)
    BY <1>0, WalkExists
  <1> DEFINE g == [k \in 0 .. K |-> g0[k]]
  <1>2. Made(g)
    BY <1>0, <1>1 DEF Hops, Hop
  <1>3. Walk(reg, n) = CHOOSE w : Made(w)
    BY DEF Walk
  <1>4. Made(Walk(reg, n))
    <2> HIDE DEF Made, g
    <2> QED BY <1>2, <1>3
  <1>5. QED
    BY <1>0, <1>4 DEF Hops, Hop

(* Two receipts that supersede the same one are one.                       *)
LEMMA OneCorrector ==
  ASSUME NEW reg \in Registry, ~SupersessionErrors(reg),
         NEW a \in Held(reg), NEW b \in Held(reg),
         reg[a].supersedes = reg[b].supersedes, reg[a].supersedes # Nobody
  PROVE  a = b
  <1> DEFINE n == reg[a].supersedes
  <1>1. n \in Held(reg) /\ a # n /\ b # n
    BY DEF SupersessionErrors, Dangling, SupersedesItself
  <1>2. {a, b} \subseteq Correctors(reg, n) /\ Correctors(reg, n) \subseteq Receipt
    BY <1>1 DEF Correctors, Held
  <1>3. ~(Cardinality(Correctors(reg, n)) > 1)
    BY <1>1 DEF SupersessionErrors, Forked
  <1>4. IsFiniteSet(Correctors(reg, n)) /\ IsFiniteSet({a, b})
    BY <1>2, ReceiptAssumption, FS_Subset
  <1>5. /\ Cardinality({a, b}) \in Nat /\ Cardinality(Correctors(reg, n)) \in Nat
        /\ Cardinality({a, b}) <= Cardinality(Correctors(reg, n))
    BY <1>2, <1>4, FS_CardinalityType, FS_Subset
  <1>6. a # b => Cardinality({a, b}) = 2
    <2> DEFINE S == {a}
    <2>1. IsFiniteSet(S) /\ Cardinality(S) = 1
      BY FS_Singleton
    <2>2. Cardinality(S \cup {b}) = IF b \in S THEN Cardinality(S) ELSE Cardinality(S) + 1
      <3> HIDE DEF S
      <3> QED BY <2>1, FS_AddElement
    <2>3. S \cup {b} = {a, b}
      OBVIOUS
    <2> QED BY <2>1, <2>2, <2>3
  <1>7. QED
    BY <1>3, <1>5, <1>6

Closed(reg, S) == \A m \in S \cap Held(reg) : reg[m].supersedes \in S \cup {Nobody}

Leads(reg, h, n) == \A S \in SUBSET Receipt : h \in S /\ Closed(reg, S) => n \in S

(* From each receipt corrections lead up to one that has none.             *)
LEMMA SomeCurrent ==
  ASSUME NEW reg \in Registry, ~Cyclic(reg), NEW n \in Held(reg)
  PROVE  \E h \in Receipt : Current(reg, h, n)
  <1> DEFINE D == {h \in Held(reg) : Leads(reg, h, n)}
             K == Cardinality(Receipt)
  <1>0. K \in Nat
    BY ReceiptAssumption, FS_CardinalityType
  <1>1. n \in D
    BY DEF Leads
  <1>2. ASSUME NEW h \in D, NEW m \in Held(reg), reg[m].supersedes = h PROVE m \in D
    <2>1. h \in Receipt /\ h # Nobody
      BY ReceiptAssumption DEF Held
    <2>2. QED
      BY <1>2, <2>1 DEF Leads, Closed
  <1>3. SUFFICES ASSUME \A h \in D : \E m \in D : reg[m].supersedes = h PROVE FALSE
    <2>1. PICK h \in D : \A m \in D : reg[m].supersedes # h
      BY <1>3
    <2>2. \A m \in Held(reg) : reg[m].supersedes # h
      BY <1>2, <2>1
    <2>3. QED
      BY <2>2 DEF Current, Leads, Closed, Held
  <1> DEFINE Far(k) == \A y \in D : \E x \in D : Walk(reg, x)[k] = y
             T == {k \in 0 .. K : ~Far(k)}
  <1>4. T = {}
    <2>1. SUFFICES ASSUME T # {} PROVE FALSE
      OBVIOUS
    <2>2. PICK k \in T : \A y \in T : k <= y
      <3>1. T \in SUBSET Nat
        OBVIOUS
      <3> HIDE DEF T
      <3> QED BY <2>1, <3>1, LeastNat
    <2>3. \A x : Hops(reg, x, K, Walk(reg, x))
      BY WalkHops
    <2>4. k # 0
      BY <2>3 DEF Hops
    <2>5. k - 1 \in 0 .. K /\ k \in 1 .. K /\ Far(k - 1)
      BY <1>0, <2>2, <2>4
    <2>6. Far(k)
      <3>1. SUFFICES ASSUME NEW y \in D PROVE \E x \in D : Walk(reg, x)[k] = y
        OBVIOUS
      <3>2. PICK z \in D : reg[z].supersedes = y
        BY <1>3
      <3>3. PICK x \in D : Walk(reg, x)[k - 1] = z
        BY <2>5
      <3>4. Walk(reg, x)[k] = Hop(reg, z)
        BY <2>3, <2>5, <3>3 DEF Hops
      <3> QED BY <3>2, <3>4 DEF Hop
    <2>7. QED
      BY <2>2, <2>6
  <1>5. PICK x \in D : Walk(reg, x)[K] = n
    BY <1>0, <1>1, <1>4
  <1>6. QED
    BY <1>5 DEF Cyclic

(* Corrections never come together again, so only one has no other.        *)
LEMMA OnlyCurrent ==
  ASSUME NEW reg \in Registry, ~SupersessionErrors(reg), NEW n \in Held(reg),
         NEW g \in Receipt, Current(reg, g, n), NEW h \in Receipt, Current(reg, h, n)
  PROVE  g = h
  <1> DEFINE From(x) == {y \in Receipt : Leads(reg, x, y)}
  <1>1. SUFFICES ASSUME g # h PROVE FALSE
    OBVIOUS
  <1>2. g \in From(g) /\ h \in From(h) /\ n \in From(g) /\ n \in From(h) /\ n \in Receipt
    BY DEF Current, Leads, Closed, Held
  <1>3. ASSUME NEW x \in Receipt PROVE Closed(reg, From(x))
    <2>1. SUFFICES ASSUME NEW m \in From(x) \cap Held(reg), reg[m].supersedes # Nobody
                   PROVE  reg[m].supersedes \in From(x)
      BY DEF Closed
    <2>2. reg[m].supersedes \in Receipt
      BY <2>1 DEF SupersessionErrors, Dangling, Held
    <2>3. QED
      BY <2>1, <2>2 DEF Leads, Closed
  <1>4. ASSUME NEW y \in From(g), y # g
        PROVE  \E m \in From(g) \cap Held(reg) : reg[m].supersedes = y
    <2>1. SUFFICES ASSUME \A m \in From(g) \cap Held(reg) : reg[m].supersedes # y
                   PROVE  FALSE
      OBVIOUS
    <2>2. Closed(reg, From(g) \ {y}) /\ g \in From(g) \ {y}
      BY <1>2, <1>3, <1>4, <2>1 DEF Closed
    <2>3. Leads(reg, g, y)
      OBVIOUS
    <2>4. From(g) \ {y} \in SUBSET Receipt
      OBVIOUS
    <2> HIDE DEF From
    <2>5. QED
      BY <2>2, <2>3, <2>4 DEF Leads
  <1> DEFINE S == From(h) \ From(g)
  <1>5. h \in S
    BY <1>1, <1>2, <1>4 DEF Current
  <1>6. Closed(reg, S)
    <2>1. SUFFICES ASSUME NEW m \in S \cap Held(reg), reg[m].supersedes # Nobody,
                          reg[m].supersedes \in From(g)
                   PROVE  FALSE
      BY <1>3 DEF Closed
    <2>2. reg[m].supersedes # g
      BY DEF Current
    <2>3. PICK k \in From(g) \cap Held(reg) : reg[k].supersedes = reg[m].supersedes
      BY <1>4, <2>1, <2>2
    <2>4. k = m
      BY <2>1, <2>3, OneCorrector
    <2>5. QED
      BY <2>1, <2>3, <2>4
  <1>7. S \in SUBSET Receipt /\ Leads(reg, h, n)
    BY <1>2
  <1> HIDE DEF S, From
  <1>8. n \in S
    BY <1>5, <1>6, <1>7 DEF Leads
  <1>9. QED
    BY <1>2, <1>8 DEF S

LEMMA AlwaysVouched == Spec => []Vouched
  <1>1. Init => Vouched
    BY EmptyHasNoErrors DEF Init, Vouched, Accepted
  <1>2. QED
    BY <1>1, VouchedStep, Inductive, PTL DEF Spec

(* Under the up-to-date rule each receipt of main leads to exactly one     *)
(* current receipt, for registries of any finite size.                     *)
THEOREM OneCurrent == Spec => []EveryReceiptHasOneCurrent
  <1>1. IInv /\ Vouched => EveryReceiptHasOneCurrent
    <2>1. SUFFICES ASSUME IInv, Vouched, strict, NEW n \in Held(main)
                   PROVE  Cardinality({h \in Receipt : Current(main, h, n)}) = 1
      BY DEF EveryReceiptHasOneCurrent
    <2>2. main \in Registry /\ ~SupersessionErrors(main)
      BY <2>1 DEF IInv, TypeOK, Vouched
    <2>3. PICK h \in Receipt : Current(main, h, n)
      BY <2>1, <2>2, SomeCurrent DEF SupersessionErrors
    <2>4. {g \in Receipt : Current(main, g, n)} = {h}
      BY <2>1, <2>2, <2>3, OnlyCurrent
    <2>5. QED
      BY <2>4, FS_Singleton
  <1>2. QED
    BY <1>1, Inductive, AlwaysVouched, PTL

(* What a receipt leads to in a registry, it leads to in every registry    *)
(* that extends it.                                                        *)
LEMMA LeadsOn ==
  ASSUME NEW old \in Registry, NEW reg \in Registry, Extends(reg, old),
         NEW g \in Receipt, NEW h \in Receipt, NEW n \in Receipt,
         Current(old, h, n), Current(reg, g, h)
  PROVE  Current(reg, g, n)
  <1>1. ASSUME NEW S \in SUBSET Receipt, g \in S, Closed(reg, S) PROVE n \in S
    <2>1. h \in S
      BY <1>1 DEF Current, Closed
    <2>2. Closed(old, S)
      BY <1>1 DEF Closed, Extends, Held
    <2>3. QED
      BY <2>1, <2>2 DEF Current, Closed
  <1>2. QED
    BY <1>1 DEF Current, Closed

(* Under the up-to-date rule a correction is never overtaken by another    *)
(* branch's: what stands for a receipt after a merge is what stood for it  *)
(* before, or a correction of that, and so receipts that one receipt       *)
(* stands for are together for ever.                                       *)
THEOREM CorrectionsAdvance ==
  Spec => [][strict => \A n \in Held(main), h \in Receipt, g \in Receipt :
                 Current(main, h, n) /\ Current(main', g, n)
                     => Current(main', g, h)]_vars
  <1> DEFINE Advances ==
        strict => \A n \in Held(main), h \in Receipt, g \in Receipt :
            Current(main, h, n) /\ Current(main', g, n) => Current(main', g, h)
  <1>1. IInv /\ IInv' /\ Vouched' /\ [Next]_vars => Advances
    <2> SUFFICES ASSUME IInv, IInv', Vouched', [Next]_vars, strict,
                        NEW n \in Held(main), NEW h \in Receipt, NEW g \in Receipt,
                        Current(main, h, n), Current(main', g, n)
                 PROVE  Current(main', g, h)
      OBVIOUS
    <2>1. /\ main \in Registry /\ main' \in Registry
          /\ Extends(main', main)
          /\ strict'
      BY GrownStep DEF IInv, TypeOK, Next, vars
    <2>2. ~SupersessionErrors(main')
      BY <2>1 DEF Vouched
    <2>3. n \in Receipt /\ n \in Held(main') /\ h \in Held(main')
      BY <2>1 DEF Current, Extends, Held
    <2>4. PICK f \in Receipt : Current(main', f, h)
      BY <2>1, <2>2, <2>3, SomeCurrent DEF SupersessionErrors
    <2>5. Current(main', f, n)
      BY <2>1, <2>3, <2>4, LeadsOn
    <2>6. QED
      BY <2>1, <2>2, <2>3, <2>4, <2>5, OnlyCurrent
  <1> HIDE DEF Advances
  <1>2. Spec => [][Advances]_vars
    BY <1>1, Inductive, AlwaysVouched, PTL DEF Spec
  <1>3. QED
    BY <1>2 DEF Advances

-----------------------------------------------------------------------------
(* Without the up-to-date rule                                             *)

(* Every error of the validator but two corrections of one receipt.        *)
Broken(reg) == Malformed(reg) \/ SupersedesItself(reg) \/ Dangling(reg) \/ Cyclic(reg)

(* A verdict was about what is sound in this sense.                        *)
Sound ==
    /\ ~Broken(main)
    /\ \A b \in Branch : Accepted(b) => ~Broken(Merged(tree[b], fork[b], against[b]))

(* Where nothing dangles, a walk that starts inside stays inside, whatever *)
(* has been added around.                                                  *)
LEMMA WalkInside ==
  ASSUME NEW sub \in Registry, NEW reg \in Registry, Extends(reg, sub),
         ~Dangling(sub), NEW n \in Held(sub)
  PROVE  \A k \in 0 .. Cardinality(Receipt) :
            /\ Walk(reg, n)[k] = Walk(sub, n)[k]
            /\ Walk(sub, n)[k] \in Held(sub) \cup {Nobody}
  <1> DEFINE K == Cardinality(Receipt)
             Inside(k) == /\ Walk(reg, n)[k] = Walk(sub, n)[k]
                          /\ Walk(sub, n)[k] \in Held(sub) \cup {Nobody}
             T == {k \in 0 .. K : ~Inside(k)}
  <1>0. K \in Nat
    BY ReceiptAssumption, FS_CardinalityType
  <1>1. SUFFICES ASSUME T # {} PROVE FALSE
    OBVIOUS
  <1>2. PICK k \in T : \A y \in T : k <= y
    <2>1. T \in SUBSET Nat
      OBVIOUS
    <2> HIDE DEF T
    <2> QED BY <1>1, <2>1, LeastNat
  <1>3. Hops(reg, n, K, Walk(reg, n)) /\ Hops(sub, n, K, Walk(sub, n))
    BY WalkHops
  <1>4. k # 0
    BY <1>3 DEF Hops
  <1>5. k \in 1 .. K /\ k - 1 \in 0 .. K /\ Inside(k - 1)
    BY <1>0, <1>2, <1>4
  <1>6. ASSUME NEW at \in Held(sub) \cup {Nobody}
        PROVE  Hop(reg, at) = Hop(sub, at) /\ Hop(sub, at) \in Held(sub) \cup {Nobody}
    <2>1. CASE at \in Held(sub)
      BY <2>1 DEF Hop, Held, Extends, Dangling
    <2>2. CASE at = Nobody
      BY <2>2, ReceiptAssumption DEF Hop, Held
    <2> QED BY <2>1, <2>2
  <1>7. Walk(reg, n)[k] = Hop(reg, Walk(reg, n)[k - 1])
        /\ Walk(sub, n)[k] = Hop(sub, Walk(sub, n)[k - 1])
    BY <1>3, <1>5 DEF Hops
  <1>8. Inside(k)
    BY <1>5, <1>6, <1>7
  <1> QED BY <1>2, <1>8

(* Two sound registries that agree make a sound one.                       *)
LEMMA SoundTogether ==
  ASSUME NEW one \in Registry, NEW other \in Registry, NEW reg \in Registry,
         Extends(reg, one), Extends(reg, other),
         Held(reg) \subseteq Held(one) \cup Held(other),
         ~Broken(one), ~Broken(other)
  PROVE  ~Broken(reg)
  <1> DEFINE K == Cardinality(Receipt)
  <1>1. \A n \in Held(one) : reg[n] = one[n] /\ n \in Held(reg)
    BY DEF Extends, Held
  <1>2. \A n \in Held(other) : reg[n] = other[n] /\ n \in Held(reg)
    BY DEF Extends, Held
  <1>3. ~Malformed(reg) /\ ~SupersedesItself(reg) /\ ~Dangling(reg)
    BY <1>1, <1>2 DEF Broken, Malformed, SupersedesItself, Dangling
  <1>4. ASSUME NEW sub \in Registry, Extends(reg, sub), ~Broken(sub), NEW n \in Held(sub)
        PROVE  Walk(reg, n)[K] \notin Held(reg)
    <2>1. K \in 0 .. K
      BY ReceiptAssumption, FS_CardinalityType
    <2>2. Walk(reg, n)[K] = Walk(sub, n)[K] /\ Walk(sub, n)[K] \in Held(sub) \cup {Nobody}
      BY <1>4, <2>1, WalkInside DEF Broken
    <2>3. Walk(sub, n)[K] \notin Held(sub)
      BY <1>4 DEF Broken, Cyclic
    <2> QED BY <2>2, <2>3, ReceiptAssumption DEF Held
  <1>5. ~Cyclic(reg)
    <2>1. \A n \in Held(reg) : Walk(reg, n)[K] \notin Held(reg)
      BY <1>4
    <2> QED BY <2>1 DEF Cyclic
  <1> QED BY <1>3, <1>5 DEF Broken

LEMMA SoundStep == IInv /\ Sound /\ [Next]_vars => Sound'
  <1> SUFFICES ASSUME IInv, Sound, [Next]_vars PROVE Sound'
    OBVIOUS
  <1>0. TypeOK /\ Grown
    BY DEF IInv
  <1>1. ASSUME NEW b \in Branch, NEW n \in Receipt, NEW f \in File \cup {NoFile},
               Change(b, n, f)
        PROVE  Sound'
    BY <1>0, <1>1 DEF Change, Unchecked, Sound, Accepted, TypeOK
  <1>2. ASSUME NEW b \in Branch, Update(b) PROVE Sound'
    BY <1>0, <1>2 DEF Update, Unchecked, Sound, Accepted, TypeOK
  <1>3. ASSUME NEW b \in Branch, Check(b) PROVE Sound'
    <2>1. \A c \in Branch : c # b => against'[c] = against[c] /\ verdict'[c] = verdict[c]
      BY <1>0, <1>3 DEF Check, TypeOK
    <2>2. /\ against'[b] = main
          /\ verdict'[b] = Validate(Merged(tree[b], fork[b], main), main)
          /\ UNCHANGED <<main, tree, fork>>
      BY <1>0, <1>3 DEF Check, TypeOK
    <2>3. Accepted(b)' => ~Broken(Merged(tree[b], fork[b], main))
      BY <2>2 DEF Accepted, Validate, SupersessionErrors, Broken
    <2>4. QED
      BY <2>1, <2>2, <2>3 DEF Sound, Accepted
  <1>4. ASSUME NEW b \in Branch, Merge(b) PROVE Sound'
    <2> DEFINE checked == Merged(tree[b], fork[b], against[b])
    <2>1. /\ Accepted(b) /\ main' = Merged(tree[b], fork[b], main)
          /\ Extends(main', main) /\ Extends(main, against[b])
      BY <1>0, <1>4, MergeExtends DEF Merge, Accepted, Grown
    <2>2. main \in Registry /\ main' \in Registry /\ checked \in Registry
      BY <1>0, <2>1, MergedTyped DEF TypeOK
    <2>3. Extends(main', checked)
      BY <2>1 DEF Extends, Merged
    <2>4. Held(main') \subseteq Held(checked) \cup Held(main)
      BY <2>1 DEF Held, Merged
    <2>5. ~Broken(main')
      <3>1. ~Broken(checked) /\ ~Broken(main)
        BY <2>1 DEF Sound
      <3> HIDE DEF checked
      <3> QED BY <2>1, <2>2, <2>3, <2>4, <3>1, SoundTogether
    <2>6. verdict'[b] = "unchecked"
      BY <1>0, <1>4 DEF Merge, Unchecked, TypeOK
    <2>7. \A c \in Branch : c # b =>
              /\ fork'[c] = fork[c] /\ tree'[c] = tree[c]
              /\ against'[c] = against[c] /\ verdict'[c] = verdict[c]
      BY <1>0, <1>4 DEF Merge, Unchecked, TypeOK
    <2>8. QED
      BY <2>5, <2>6, <2>7 DEF Sound, Accepted
  <1>5. CASE UNCHANGED vars
    BY <1>5 DEF vars, Sound, Accepted
  <1>6. QED
    BY <1>1, <1>2, <1>3, <1>4, <1>5 DEF Next

LEMMA AlwaysSound == Spec => []Sound
  <1>1. Init => Sound
    BY EmptyHasNoErrors DEF Init, Sound, Accepted, Broken, SupersessionErrors,
                            Malformed, Held, Empty
  <1>2. QED
    BY <1>1, SoundStep, Inductive, PTL DEF Spec

(* With or without the up-to-date rule, however stale the verdicts are     *)
(* that merge, main never has a malformed receipt, a correction of itself  *)
(* or of nothing, or a ring of corrections: the one error two green        *)
(* branches can make together is to correct the same receipt twice.        *)
THEOREM StaleMergesOnlyFork ==
  Spec => [](/\ ~Malformed(main) /\ ~SupersedesItself(main)
             /\ ~Dangling(main) /\ ~Cyclic(main))
  <1>1. Sound => /\ ~Malformed(main) /\ ~SupersedesItself(main)
                 /\ ~Dangling(main) /\ ~Cyclic(main)
    BY DEF Sound, Broken
  <1>2. QED
    BY <1>1, AlwaysSound, PTL

(* So every receipt of main has a current one even then, and what it       *)
(* supersedes is there: stale merges can make it have several current      *)
(* ones, never none.                                                       *)
THEOREM SomethingStands == Spec => []EveryReceiptStands
  <1>1. IInv /\ Sound => EveryReceiptStands
    <2> SUFFICES ASSUME IInv, Sound, NEW n \in Held(main)
                 PROVE  /\ main[n].body \in WellFormed
                        /\ main[n].supersedes \in Held(main) \cup {Nobody}
                        /\ \E h \in Receipt : Current(main, h, n)
      BY DEF EveryReceiptStands
    <2>1. ~Malformed(main) /\ ~Dangling(main)
      BY DEF Sound, Broken
    <2>2. \E h \in Receipt : Current(main, h, n)
      BY SomeCurrent DEF IInv, TypeOK, Sound, Broken
    <2> QED BY <2>1, <2>2 DEF Malformed, Dangling
  <1>2. QED
    BY <1>1, Inductive, AlwaysSound, PTL

=============================================================================
