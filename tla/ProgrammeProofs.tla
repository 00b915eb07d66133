---------------------------- MODULE ProgrammeProofs ----------------------------
(***************************************************************************)
(* Proofs about ControlCycles and ProgrammeMatrix: for every graph of      *)
(* dependencies and every order of visits the search names exactly the     *)
(* controls that wait for a cycle; on a branch of any length no control of *)
(* the cutover gate waits for one that cannot be verified, and no          *)
(* capability is switched before one that it needs.                        *)
(***************************************************************************)
EXTENDS ProgrammeMatrix, FiniteSetTheorems, SequenceTheorems, WellFoundedInduction, TLAPS

-----------------------------------------------------------------------------
(* The search                                                              *)

SearchTypeOK ==
    /\ needs \in [Node -> SUBSET Node]
    /\ todo \subseteq Node /\ visited \subseteq Node /\ cycle \subseteq Node
    /\ stack \in Seq(Node)
    /\ left \in [Node -> SUBSET Node]

Open == 1 .. Len(stack)

(* The stack is a path without repetition through controls that are not    *)
(* done, and every control is still to come, open or done.                 *)
PathInv ==
    /\ \A p, q \in Open : stack[p] = stack[q] => p = q
    /\ \A p \in Open : stack[p] \notin visited /\ left[stack[p]] \subseteq needs[stack[p]]
    /\ \A p \in Open : p + 1 \in Open => stack[p + 1] \in needs[stack[p]]
    /\ Node \subseteq todo \cup visited \cup Active

(* Each control that is named waits for one that is, or lies on the stack  *)
(* before one that is and will pass it on.                                 *)
NamedWait ==
    \A n \in cycle :
        \/ needs[n] \cap cycle # {}
        \/ \E p, q \in Open : p < q /\ stack[p] = n /\ stack[q] \in cycle

(* An open control that is not named has met no control that is.           *)
UnnamedMetUnnamed ==
    \A p \in Open : stack[p] \notin cycle =>
        \A d \in needs[stack[p]] \ left[stack[p]] :
            \/ d \in visited \ cycle
            \/ p + 1 \in Open /\ d = stack[p + 1]

(* No set of controls that wait for one another has one done and unnamed.  *)
DoneAreNamed == \A S \in SUBSET Node : Waiting(needs, S) => S \cap visited \subseteq cycle

SearchInv == SearchTypeOK /\ PathInv /\ NamedWait /\ UnnamedMetUnnamed /\ DoneAreNamed

LEMMA SearchInvAtFirst == SearchInit => SearchInv
BY DEF SearchInit, SearchInv, SearchTypeOK, PathInv, NamedWait, UnnamedMetUnnamed,
       DoneAreNamed, Open, Active

(* A control is opened: the stack has one more at its end.                 *)
LEMMA PushKeeps ==
    ASSUME SearchInv, NEW n \in Node, n \notin Active \cup visited,
           NEW rest \in [Node -> SUBSET Node],
           stack' = Append(stack, n),
           left' = [rest EXCEPT ![n] = needs[n]],
           needs' = needs, visited' = visited, cycle' = cycle,
           todo' \subseteq Node, Node \subseteq todo' \cup visited \cup Active \cup {n},
           \A p \in Open : p # Len(stack) => rest[stack[p]] = left[stack[p]],
           \/ stack = <<>>
           \/ n \in left[Top] /\ rest[Top] = left[Top] \ {n}
    PROVE  SearchInv'
<1> USE DEF SearchInv, SearchTypeOK
<1>1. /\ stack' \in Seq(Node) /\ Len(stack') = Len(stack) + 1
      /\ \A p \in Open : stack'[p] = stack[p]
      /\ stack'[Len(stack) + 1] = n
      /\ Len(stack) \in Nat
  BY DEF Open
<1>2. \A p \in Open : stack[p] # n /\ stack[p] \in Node
  BY DEF Active, Open
<1>3. \A p \in Open : left'[stack[p]] = rest[stack[p]]
  BY <1>2
<1>4. left'[n] = needs[n]
  OBVIOUS
<1>5. SearchTypeOK'
  BY <1>1
<1>6. PathInv'
  <2>1. \A p, q \in Open' : stack'[p] = stack'[q] => p = q
    BY <1>1, <1>2 DEF PathInv, Open
  <2>2. \A p \in Open' : stack'[p] \notin visited /\ left'[stack'[p]] \subseteq needs[stack'[p]]
    <3>1. \A p \in Open : rest[stack[p]] \subseteq needs[stack[p]]
      BY <1>1 DEF PathInv, Open, Top
    <3> QED BY <1>1, <1>3, <1>4, <3>1 DEF PathInv, Open
  <2>3. \A p \in Open' : p + 1 \in Open' => stack'[p + 1] \in needs[stack'[p]]
    <3> SUFFICES ASSUME NEW p \in Open', p + 1 \in Open'
                 PROVE  stack'[p + 1] \in needs[stack'[p]]
      OBVIOUS
    <3>1. p \in Open
      BY <1>1 DEF Open
    <3>2. CASE p + 1 \in Open
      BY <1>1, <3>1, <3>2 DEF PathInv
    <3>3. CASE p = Len(stack)
      <4>1. n \in needs[Top]
        BY <3>1, <3>3 DEF PathInv, Open, Top
      <4> QED BY <1>1, <3>1, <3>3, <4>1 DEF Top
    <3> QED BY <1>1, <3>1, <3>2, <3>3 DEF Open
  <2>4. Active \cup {n} \subseteq Active'
    <3>0. \A e \in Active : \E p \in Open : e = stack[p]
      BY DEF Active, Open
    <3>1. \A p \in Open' : stack'[p] \in Active'
      BY <1>1 DEF Active, Open
    <3>2. Open \subseteq Open' /\ Len(stack) + 1 \in Open'
      BY <1>1 DEF Open
    <3>3. n \in Active'
      BY <1>1, <3>1, <3>2
    <3>4. ASSUME NEW e \in Active PROVE e \in Active'
      <4>1. PICK p \in Open : e = stack[p]
        BY <3>0
      <4>2. stack'[p] = e /\ p \in Open'
        BY <1>1, <3>2, <4>1
      <4> QED BY <3>1, <4>2
    <3> QED BY <3>3, <3>4
  <2> QED BY <2>1, <2>2, <2>3, <2>4 DEF PathInv
<1>7. NamedWait'
  BY <1>1 DEF NamedWait, Open
<1>8. UnnamedMetUnnamed'
  <2> SUFFICES ASSUME NEW p \in Open', stack'[p] \notin cycle,
                      NEW d \in needs[stack'[p]] \ left'[stack'[p]]
               PROVE  \/ d \in visited \ cycle
                      \/ p + 1 \in Open' /\ d = stack'[p + 1]
    BY DEF UnnamedMetUnnamed
  <2>1. p \in Open
    BY <1>1, <1>4 DEF Open
  <2>2. CASE p # Len(stack)
    BY <1>1, <1>3, <2>1, <2>2 DEF UnnamedMetUnnamed, Open
  <2>3. CASE p = Len(stack)
    <3>1. rest[Top] = left[Top] \ {n}
      BY <2>1, <2>3 DEF Open
    <3>2. d \in needs[Top] \ left[Top] \/ d = n
      BY <1>1, <1>3, <2>1, <2>3, <3>1 DEF Top
    <3> QED BY <1>1, <2>1, <2>3, <3>2 DEF UnnamedMetUnnamed, Open, Top
  <2> QED BY <2>2, <2>3
<1>9. DoneAreNamed'
  BY DEF DoneAreNamed
<1> QED BY <1>5, <1>6, <1>7, <1>8, <1>9

(* The innermost visit comes to a control that is open or done.            *)
LEMMA MeetKeeps ==
    ASSUME SearchInv, NEW d \in Node, stack # <<>>, d \in left[Top],
           left' = [left EXCEPT ![Top] = @ \ {d}],
           UNCHANGED <<needs, todo, stack, visited>>,
           \/ d \in Active /\ cycle' = cycle \cup {d, Top}
           \/ d \in visited /\ cycle' = IF d \in cycle THEN cycle \cup {Top} ELSE cycle
    PROVE  SearchInv'
<1> USE DEF SearchInv, SearchTypeOK
<1>1. Len(stack) \in Open /\ Top \in Node /\ Top = stack[Len(stack)]
  BY DEF Open, Top
<1>2. \A p \in Open : stack[p] \in Node /\ stack[p] \notin visited
  BY DEF Open, PathInv
<1>3. \A p \in Open : stack[p] # Top => left'[stack[p]] = left[stack[p]]
  BY <1>1, <1>2
<1>4. left'[Top] = left[Top] \ {d} /\ d \in needs[Top]
  BY <1>1 DEF PathInv
<1>5. (d \in Active => \E p \in Open : stack[p] = d) /\ (d \in Active => d \notin visited)
  BY <1>2 DEF Active, Open
<1>6. cycle \subseteq cycle' /\ cycle' \subseteq cycle \cup {d, Top}
      /\ cycle' \cap visited = cycle \cap visited
  BY <1>1, <1>2, <1>5
<1>7. SearchTypeOK'
  BY <1>1, <1>6
<1>8. PathInv'
  BY <1>3, <1>4 DEF PathInv, Open, Active
<1>9. NamedWait'
  <2> SUFFICES ASSUME NEW n \in cycle'
               PROVE  \/ needs[n] \cap cycle' # {}
                      \/ \E p, q \in Open : p < q /\ stack[p] = n /\ stack[q] \in cycle'
    BY DEF NamedWait, Open
  <2>1. CASE n \in cycle
    BY <1>6, <2>1 DEF NamedWait
  <2>2. CASE n = Top /\ n \notin cycle
    BY <1>4, <1>6, <2>2
  <2>3. CASE n = d /\ n # Top /\ n \notin cycle
    <3>1. d \in Active /\ Top \in cycle'
      BY <2>3
    <3>2. PICK p \in Open : stack[p] = d
      BY <1>5, <3>1
    <3>3. p < Len(stack)
      BY <1>1, <2>3, <3>2 DEF Open
    <3> QED BY <1>1, <2>3, <3>1, <3>2, <3>3
  <2> QED BY <1>6, <2>1, <2>2, <2>3
<1>10. UnnamedMetUnnamed'
  <2> SUFFICES ASSUME NEW p \in Open, stack[p] \notin cycle',
                      NEW e \in needs[stack[p]] \ left'[stack[p]]
               PROVE  \/ e \in visited \ cycle'
                      \/ p + 1 \in Open /\ e = stack[p + 1]
    BY DEF UnnamedMetUnnamed, Open
  <2>1. CASE e \in left[stack[p]]
    <3>1. stack[p] = Top /\ e = d
      BY <1>3, <1>4, <2>1
    <3>2. d \in visited /\ d \notin cycle
      BY <3>1
    <3> QED BY <1>6, <3>1, <3>2
  <2>2. CASE e \notin left[stack[p]]
    BY <1>6, <2>2 DEF UnnamedMetUnnamed
  <2> QED BY <2>1, <2>2
<1>11. DoneAreNamed'
  BY <1>6 DEF DoneAreNamed
<1> QED BY <1>7, <1>8, <1>9, <1>10, <1>11

(* A visit ends: the stack is one shorter and otherwise as it was.         *)
LEMMA PopShortens ==
    ASSUME SearchTypeOK, Return
    PROVE  /\ stack' \in Seq(Node) /\ Len(stack') = Len(stack) - 1
           /\ \A p \in Open' : p \in Open /\ stack'[p] = stack[p]
           /\ \A p \in Open : p # Len(stack) => p \in Open'
<1> USE DEF SearchTypeOK
<1>a. stack # <<>> /\ stack' = SubSeq(stack, 1, Len(stack) - 1)
  BY DEF Return
<1>b. Len(stack) \in Open /\ Len(stack) \in Nat
  BY <1>a DEF Open
<1>1. Len(stack) - 1 \in 0 .. Len(stack)
  BY <1>b DEF Open
<1> DEFINE m == Len(stack) - 1
           init == SubSeq(stack, 1, m)
<1>2. m \in Int /\ 1 \in Int /\ \A k \in 1 .. m : stack[k] \in Node
  BY <1>b DEF Open
<1>3. /\ init \in Seq(Node) /\ Len(init) = IF 1 <= m THEN m - 1 + 1 ELSE 0
      /\ \A k \in 1 .. m - 1 + 1 : init[k] = stack[1 + k - 1]
  <2> HIDE DEF m
  <2> QED BY <1>2, SubSeqProperties
<1>4. \A k \in 1 .. m : init[k] = stack[k]
  <2>1. ASSUME NEW k \in 1 .. m PROVE init[k] = stack[k]
    <3>1. m - 1 + 1 = m /\ 1 + k - 1 = k
      BY <1>2
    <3> QED BY <1>3, <3>1
  <2> QED BY <2>1
<1>5. stack' = init
  BY <1>a
<1> HIDE DEF init
<1>6. stack' \in Seq(Node) /\ Len(stack') = Len(stack) - 1
      /\ \A p \in 1 .. Len(stack) - 1 : stack'[p] = stack[p]
  BY <1>b, <1>1, <1>2, <1>3, <1>4, <1>5
<1> QED BY <1>b, <1>6 DEF Open

(* A visit ends.                                                           *)
LEMMA ReturnKeeps ==
    ASSUME SearchInv, Return
    PROVE  SearchInv'
<1> USE DEF SearchInv, SearchTypeOK
<1>1. /\ stack # <<>> /\ left[Top] = {}
      /\ stack' = SubSeq(stack, 1, Len(stack) - 1)
      /\ visited' = visited \cup {Top}
      /\ UNCHANGED <<needs, todo, left>>
  BY DEF Return
<1>2. /\ Len(stack) \in Open /\ Top \in Node /\ Top = stack[Len(stack)]
      /\ Len(stack) \in Nat
  BY <1>1 DEF Open, Top
<1>3. /\ stack' \in Seq(Node) /\ Len(stack') = Len(stack) - 1
      /\ \A p \in Open' : p \in Open /\ stack'[p] = stack[p]
      /\ \A p \in Open : p # Len(stack) => p \in Open'
  BY PopShortens
<1>4. \A p \in Open' : stack[p] # Top
  <2> SUFFICES ASSUME NEW p \in Open' PROVE stack[p] # stack[Len(stack)]
    BY <1>2
  <2>1. p \in Open /\ p # Len(stack)
    BY <1>2, <1>3 DEF Open
  <2> QED BY <1>2, <2>1 DEF PathInv
<1> DEFINE outer == Len(stack) - 1
<1>5. outer \in Open' <=> stack' # <<>>
  BY <1>2, <1>3 DEF Open
<1>6. cycle' = IF Top \in cycle /\ outer \in Open' THEN cycle \cup {stack[outer]} ELSE cycle
  BY <1>3, <1>5 DEF Return
<1>7. outer \in Open' => /\ Top \in needs[stack[outer]]
                         /\ stack[outer] \notin visited'
                         /\ stack[outer] \in Node
  BY <1>1, <1>2, <1>3, <1>4 DEF PathInv, Open
<1>8. cycle \subseteq cycle' /\ cycle' \cap visited' = cycle \cap visited'
  BY <1>6, <1>7
<1>9. SearchTypeOK'
  BY <1>1, <1>2, <1>3, <1>6, <1>7
<1>10. PathInv'
  <2>1. Active \subseteq Active' \cup {Top}
    <3>1. \A e \in Active : \E p \in Open : e = stack[p]
      BY DEF Active, Open
    <3>2. \A p \in Open' : stack'[p] \in Active'
      BY <1>3 DEF Active, Open
    <3> QED BY <1>2, <1>3, <3>1, <3>2
  <2>2. /\ \A p, q \in Open' : stack'[p] = stack'[q] => p = q
        /\ \A p \in Open' : stack'[p] \notin visited' /\ left[stack'[p]] \subseteq needs[stack'[p]]
    BY <1>1, <1>3, <1>4 DEF PathInv
  <2>3. \A p \in Open' : p + 1 \in Open' => stack'[p + 1] \in needs[stack'[p]]
    BY <1>3 DEF PathInv
  <2> QED BY <1>1, <2>1, <2>2, <2>3 DEF PathInv
<1>11. NamedWait'
  <2> SUFFICES ASSUME NEW n \in cycle', needs[n] \cap cycle' = {}
               PROVE  \E p, q \in Open' : p < q /\ stack[p] = n /\ stack[q] \in cycle'
    <3>1. needs' = needs /\ \A p \in Open' : stack'[p] = stack[p]
      BY <1>1, <1>3
    <3> QED BY <3>1 DEF NamedWait
  <2>1. n \in cycle
    BY <1>6, <1>7, <1>8
  <2>2. PICK p \in Open, q \in Open : p < q /\ stack[p] = n /\ stack[q] \in cycle
    BY <1>8, <2>1 DEF NamedWait
  <2>3. p \in Open' /\ p < Len(stack)
    BY <1>2, <1>3, <2>2 DEF Open
  <2>4. CASE q # Len(stack)
    BY <1>3, <1>8, <2>2, <2>3, <2>4
  <2>5. CASE q = Len(stack)
    <3>1. Top \in cycle /\ outer \in Open'
      BY <1>2, <1>3, <2>2, <2>3, <2>5 DEF Open
    <3>2. stack[outer] \in cycle'
      BY <1>6, <3>1
    <3>3. p # outer
      BY <1>7, <1>8, <2>2, <3>1
    <3>4. p < outer
      BY <1>2, <2>3, <3>3 DEF Open
    <3> QED BY <2>2, <2>3, <3>1, <3>2, <3>4
  <2> QED BY <2>4, <2>5
<1>12. UnnamedMetUnnamed'
  <2> SUFFICES ASSUME NEW p \in Open', stack[p] \notin cycle',
                      NEW d \in needs[stack[p]] \ left[stack[p]]
               PROVE  \/ d \in visited' \ cycle'
                      \/ p + 1 \in Open' /\ d = stack[p + 1]
    BY <1>1, <1>3 DEF UnnamedMetUnnamed
  <2>1. CASE d \in visited \ cycle
    BY <1>1, <1>8, <2>1
  <2>2. CASE p + 1 \in Open /\ d = stack[p + 1]
    <3>1. CASE p + 1 # Len(stack)
      BY <1>3, <2>2, <3>1
    <3>2. CASE p + 1 = Len(stack)
      <4>1. p = outer /\ d = Top
        BY <1>2, <1>3, <2>2, <3>2 DEF Open
      <4>2. Top \notin cycle
        BY <1>6, <4>1
      <4> QED BY <1>1, <1>8, <4>1, <4>2
    <3> QED BY <3>1, <3>2
  <2>3. stack[p] \notin cycle /\ p \in Open
    BY <1>3, <1>8
  <2> QED BY <2>1, <2>2, <2>3 DEF UnnamedMetUnnamed
<1>13. DoneAreNamed'
  <2> SUFFICES ASSUME NEW S \in SUBSET Node, Waiting(needs, S)
               PROVE  S \cap visited' \subseteq cycle'
    BY <1>1 DEF DoneAreNamed
  <2>1. S \cap visited \subseteq cycle
    BY DEF DoneAreNamed
  <2>2. Top \in S => Top \in cycle
    <3> SUFFICES ASSUME Top \in S, Top \notin cycle PROVE FALSE
      OBVIOUS
    <3>1. PICK d \in needs[Top] : d \in S
      BY DEF Waiting
    <3>2. d \in visited \ cycle
      BY <1>1, <1>2, <3>1 DEF UnnamedMetUnnamed, Open
    <3> QED BY <2>1, <3>1, <3>2
  <2> QED BY <1>1, <1>8, <2>1, <2>2
<1> QED BY <1>9, <1>10, <1>11, <1>12, <1>13

LEMMA SearchInvIsKept == SearchInv /\ [SearchNext]_searchVars => SearchInv'
<1> SUFFICES ASSUME SearchInv, [SearchNext]_searchVars PROVE SearchInv'
  OBVIOUS
<1>1. ASSUME NEW n \in Node, Visit(n) PROVE SearchInv'
  <2>1. CASE Opens(n, left)
    <3>1. Node \subseteq todo' \cup visited \cup Active \cup {n}
      BY <1>1 DEF Visit, SearchInv, PathInv
    <3> QED BY <1>1, <2>1, <3>1, PushKeeps DEF Visit, Opens, SearchInv, SearchTypeOK
  <2>2. CASE n \in visited /\ UNCHANGED <<stack, left>>
    BY <1>1, <2>2 DEF Visit, SearchInv, SearchTypeOK, PathInv, NamedWait,
                      UnnamedMetUnnamed, DoneAreNamed, Open, Active
  <2> QED BY <1>1, <2>1, <2>2 DEF Visit
<1>2. ASSUME NEW d \in Node, Descend(d) PROVE SearchInv'
  <2> DEFINE rest == [left EXCEPT ![Top] = @ \ {d}]
  <2>1. /\ stack # <<>> /\ d \in left[Top] /\ d \notin Active \cup visited
        /\ stack' = Append(stack, d) /\ left' = [rest EXCEPT ![d] = needs[d]]
        /\ needs' = needs /\ visited' = visited /\ cycle' = cycle /\ todo' = todo
    BY <1>2 DEF Descend, Opens
  <2>2. Top \in Node /\ Len(stack) \in Open
    BY <2>1 DEF SearchInv, SearchTypeOK, Open, Top
  <2>3. \A p \in Open : p # Len(stack) => stack[p] # Top /\ stack[p] \in Node
    BY <2>2 DEF SearchInv, SearchTypeOK, PathInv, Open, Top
  <2>4. /\ rest \in [Node -> SUBSET Node]
        /\ rest[Top] = left[Top] \ {d}
        /\ \A p \in Open : p # Len(stack) => rest[stack[p]] = left[stack[p]]
    BY <2>2, <2>3 DEF SearchInv, SearchTypeOK
  <2>5. todo' \subseteq Node /\ Node \subseteq todo' \cup visited \cup Active \cup {d}
    BY <2>1 DEF SearchInv, SearchTypeOK, PathInv
  <2> HIDE DEF rest
  <2> QED BY <2>1, <2>4, <2>5, PushKeeps
<1>3. ASSUME NEW d \in Node, CloseCycle(d) PROVE SearchInv'
  BY <1>3, MeetKeeps DEF CloseCycle
<1>4. ASSUME NEW d \in Node, MeetAgain(d) PROVE SearchInv'
  BY <1>4, MeetKeeps DEF MeetAgain
<1>5. CASE Return
  BY <1>5, ReturnKeeps
<1>6. CASE UNCHANGED searchVars
  BY <1>6 DEF searchVars, SearchInv, SearchTypeOK, PathInv, NamedWait,
              UnnamedMetUnnamed, DoneAreNamed, Open, Active
<1> QED BY <1>1, <1>2, <1>3, <1>4, <1>5, <1>6 DEF SearchNext

(* For every graph, finite or not, and every order of visits, a search     *)
(* that has ended has named exactly the controls that wait for a cycle.    *)
THEOREM SearchNamesTheStuck == SearchSpec => []NamesTheStuck
<1>1. SearchSpec => []SearchInv
  BY SearchInvAtFirst, SearchInvIsKept, PTL DEF SearchSpec
<1>2. SearchInv => NamesTheStuck
  <2> SUFFICES ASSUME SearchInv, Searched PROVE cycle = Stuck(needs)
    BY DEF NamesTheStuck
  <2>1. Open = {} /\ Active = {} /\ DOMAIN needs = Node /\ cycle \subseteq Node
    BY DEF SearchInv, SearchTypeOK, Searched, Open, Active
  <2>2. visited = Node
    BY <2>1 DEF SearchInv, SearchTypeOK, PathInv, Searched
  <2>3. Waiting(needs, cycle)
    BY <2>1 DEF SearchInv, NamedWait, Waiting
  <2>4. cycle \subseteq Stuck(needs)
    BY <2>1, <2>3 DEF Stuck
  <2>5. Stuck(needs) \subseteq cycle
    BY <2>1, <2>2 DEF SearchInv, DoneAreNamed, Stuck
  <2> QED BY <2>4, <2>5
<1> QED BY <1>1, <1>2, PTL

-----------------------------------------------------------------------------
(* The search ends                                                         *)

Unopened   == Node \ (visited \cup Active)
Unreturned == Node \ visited

Dependencies == {pair \in Node \X Node : pair[2] \in needs[pair[1]]}

(* The dependencies the search has still to look at.                       *)
Owed ==
    {pair \in Node \X Node :
        \/ pair[1] \in Active /\ pair[2] \in left[pair[1]]
        \/ pair[1] \in Unopened /\ pair[2] \in needs[pair[1]]}

StepsLeft == Cardinality(todo) + Cardinality(Unopened) + Cardinality(Unreturned)
                 + Cardinality(Owed)

(* Each control costs a turn of the outer loop, a call and a return, and   *)
(* each dependency one look.                                               *)
LinearlyMany == StepsLeft \in 0 .. 3 * Cardinality(Node) + Cardinality(Dependencies)

LEMMA FewerIsLess ==
    ASSUME NEW S, IsFiniteSet(S), NEW T \in SUBSET S
    PROVE  /\ Cardinality(S) \in Nat /\ Cardinality(T) \in Nat
           /\ Cardinality(T) <= Cardinality(S)
           /\ T # S => Cardinality(T) < Cardinality(S)
<1>1. /\ IsFiniteSet(T) /\ Cardinality(T) <= Cardinality(S)
      /\ Cardinality(S) = Cardinality(T) => S = T
  BY FS_Subset
<1>2. Cardinality(S) \in Nat /\ Cardinality(T) \in Nat
  BY <1>1, FS_CardinalityType
<1> QED BY <1>1, <1>2

LEMMA CountsAreFinite ==
    ASSUME IsFiniteSet(Node), SearchTypeOK
    PROVE  /\ IsFiniteSet(todo) /\ IsFiniteSet(Unopened) /\ IsFiniteSet(Unreturned)
           /\ IsFiniteSet(Owed) /\ IsFiniteSet(Dependencies)
<1>1. IsFiniteSet(Node \X Node)
  BY FS_Product
<1>2. /\ todo \subseteq Node /\ Unopened \subseteq Node /\ Unreturned \subseteq Node
      /\ Owed \subseteq Node \X Node /\ Dependencies \subseteq Node \X Node
  BY DEF SearchTypeOK, Unopened, Unreturned, Owed, Dependencies
<1> QED BY <1>1, <1>2, FS_Subset

(* None of the four sets grows and one of them shrinks.                    *)
LEMMA OneShrinks ==
    ASSUME IsFiniteSet(Node), SearchTypeOK,
           todo' \subseteq todo, Unopened' \subseteq Unopened,
           Unreturned' \subseteq Unreturned, Owed' \subseteq Owed,
           \/ todo' # todo \/ Unreturned' # Unreturned \/ Owed' # Owed
    PROVE  StepsLeft' < StepsLeft
<1>1. /\ IsFiniteSet(todo) /\ IsFiniteSet(Unopened) /\ IsFiniteSet(Unreturned)
      /\ IsFiniteSet(Owed)
  BY CountsAreFinite
<1>2. /\ Cardinality(todo) \in Nat /\ Cardinality(todo') \in Nat
      /\ Cardinality(todo') <= Cardinality(todo)
      /\ todo' # todo => Cardinality(todo') < Cardinality(todo)
  BY <1>1, FewerIsLess
<1>3. /\ Cardinality(Unopened) \in Nat /\ Cardinality(Unopened') \in Nat
      /\ Cardinality(Unopened') <= Cardinality(Unopened)
  BY <1>1, FewerIsLess
<1>4. /\ Cardinality(Unreturned) \in Nat /\ Cardinality(Unreturned') \in Nat
      /\ Cardinality(Unreturned') <= Cardinality(Unreturned)
      /\ Unreturned' # Unreturned => Cardinality(Unreturned') < Cardinality(Unreturned)
  BY <1>1, FewerIsLess
<1>5. /\ Cardinality(Owed) \in Nat /\ Cardinality(Owed') \in Nat
      /\ Cardinality(Owed') <= Cardinality(Owed)
      /\ Owed' # Owed => Cardinality(Owed') < Cardinality(Owed)
  BY <1>1, FewerIsLess
<1> QED BY <1>2, <1>3, <1>4, <1>5 DEF StepsLeft

(* An appended control is open, and so is what was open.                   *)
LEMMA PushOpens ==
    ASSUME SearchTypeOK, NEW n \in Node, stack' = Append(stack, n)
    PROVE  Active' = Active \cup {n}
<1>1. /\ DOMAIN stack = Open /\ DOMAIN stack' = Open'
      /\ \A p \in Open : stack'[p] = stack[p]
      /\ stack'[Len(stack) + 1] = n
      /\ Len(stack) \in Nat /\ Len(stack') = Len(stack) + 1
  BY DEF Open, SearchTypeOK
<1>2. Open' = Open \cup {Len(stack) + 1}
  BY <1>1 DEF Open
<1> QED BY <1>1, <1>2 DEF Active

(* What is open after a visit has ended was open, and only the control     *)
(* visited is open no more.                                                *)
LEMMA PopCloses ==
    ASSUME SearchTypeOK, Return
    PROVE  Active' \subseteq Active /\ Active \subseteq Active' \cup {Top}
<1>1. DOMAIN stack = Open /\ DOMAIN stack' = Open' /\ Len(stack) \in Nat
  BY PopShortens DEF Open, SearchTypeOK
<1>2. /\ \A p \in Open' : p \in Open /\ stack'[p] = stack[p]
      /\ \A p \in Open : p # Len(stack) => p \in Open'
  BY PopShortens
<1> QED BY <1>1, <1>2 DEF Active, Top

LEMMA StepsFall ==
    ASSUME IsFiniteSet(Node), SearchInv, SearchNext
    PROVE  StepsLeft' < StepsLeft
<1> USE DEF SearchInv, SearchTypeOK
<1>1. ASSUME NEW n \in Node, Visit(n) PROVE StepsLeft' < StepsLeft
  <2>1. n \in todo /\ todo' = todo \ {n} /\ UNCHANGED <<needs, visited>>
    BY <1>1 DEF Visit
  <2>2. CASE Opens(n, left)
    <3>1. /\ Active' = Active \cup {n} /\ n \in Unopened
          /\ left' = [left EXCEPT ![n] = needs[n]]
      BY <2>2, PushOpens DEF Opens, Unopened
    <3>2. Unopened' \subseteq Unopened /\ Unreturned' = Unreturned
      BY <2>1, <3>1 DEF Unopened, Unreturned
    <3>3. Owed' \subseteq Owed
      BY <2>1, <3>1 DEF Owed, Unopened
    <3> QED BY <2>1, <3>2, <3>3, OneShrinks
  <2>3. CASE UNCHANGED <<stack, left>>
    <3>1. Active' = Active
      BY <2>3 DEF Active
    <3>2. Unopened' = Unopened /\ Unreturned' = Unreturned /\ Owed' = Owed
      BY <2>1, <2>3, <3>1 DEF Unopened, Unreturned, Owed
    <3> QED BY <2>1, <3>2, OneShrinks
  <2> QED BY <1>1, <2>2, <2>3 DEF Visit
<1>2. ASSUME stack # <<>> PROVE Top \in Node /\ Top \in Active
  BY <1>2 DEF Top, Active
<1>3. ASSUME NEW d \in Node, Descend(d) PROVE StepsLeft' < StepsLeft
  <2>1. /\ stack # <<>> /\ d \in left[Top] /\ d \notin Active \cup visited
        /\ stack' = Append(stack, d)
        /\ left' = [[left EXCEPT ![Top] = @ \ {d}] EXCEPT ![d] = needs[d]]
        /\ UNCHANGED <<needs, todo, visited>>
    BY <1>3 DEF Descend, Opens
  <2>2. Active' = Active \cup {d} /\ d # Top
    BY <1>2, <2>1, PushOpens
  <2>3. Unopened' \subseteq Unopened /\ Unreturned' = Unreturned
    BY <2>1, <2>2 DEF Unopened, Unreturned
  <2>4. /\ left'[Top] = left[Top] \ {d} /\ left'[d] = needs[d]
        /\ \A m \in Node \ {Top, d} : left'[m] = left[m]
    BY <1>2, <2>1, <2>2
  <2>5. Owed' \subseteq Owed
    BY <2>1, <2>2, <2>4 DEF Owed, Unopened
  <2>6. <<Top, d>> \in Owed \ Owed'
    BY <1>2, <2>1, <2>2, <2>4 DEF Owed, Unopened
  <2> QED BY <2>1, <2>3, <2>5, <2>6, OneShrinks
<1>4. ASSUME NEW d \in Node, CloseCycle(d) \/ MeetAgain(d) PROVE StepsLeft' < StepsLeft
  <2>1. /\ stack # <<>> /\ d \in left[Top] /\ left' = [left EXCEPT ![Top] = @ \ {d}]
        /\ UNCHANGED <<needs, todo, stack, visited>>
    BY <1>4 DEF CloseCycle, MeetAgain
  <2>2. Active' = Active
    BY <2>1 DEF Active
  <2>3. Unopened' = Unopened /\ Unreturned' = Unreturned
    BY <2>1, <2>2 DEF Unopened, Unreturned
  <2>4. left'[Top] = left[Top] \ {d} /\ \A m \in Node \ {Top} : left'[m] = left[m]
    BY <1>2, <2>1
  <2>5. Owed' \subseteq Owed
    BY <2>1, <2>2, <2>3, <2>4 DEF Owed
  <2>6. <<Top, d>> \in Owed \ Owed'
    BY <1>2, <2>1, <2>2, <2>4 DEF Owed, Unopened
  <2> QED BY <2>1, <2>3, <2>5, <2>6, OneShrinks
<1>5. ASSUME Return PROVE StepsLeft' < StepsLeft
  <2>1. /\ stack # <<>> /\ left[Top] = {} /\ visited' = visited \cup {Top}
        /\ UNCHANGED <<needs, todo, left>>
    BY <1>5 DEF Return
  <2>2. Active' \subseteq Active /\ Active \subseteq Active' \cup {Top}
    BY <1>5, PopCloses
  <2>3. Top \in Node /\ Top \in Active /\ Top \notin visited
    BY <1>2, <2>1 DEF PathInv, Open, Top
  <2>4. Unopened' \subseteq Unopened /\ Unreturned' \subseteq Unreturned /\ Unreturned' # Unreturned
    BY <2>1, <2>2, <2>3 DEF Unopened, Unreturned
  <2>5. Owed' \subseteq Owed
    BY <2>1, <2>2, <2>4 DEF Owed
  <2> QED BY <2>1, <2>4, <2>5, OneShrinks
<1> QED BY <1>1, <1>3, <1>4, <1>5 DEF SearchNext

LEMMA StepsAreFew ==
    ASSUME IsFiniteSet(Node), SearchInv
    PROVE  LinearlyMany
<1> USE DEF SearchInv, SearchTypeOK
<1>1. Owed \subseteq Dependencies
  <2>1. \A n \in Active : left[n] \subseteq needs[n]
    BY DEF PathInv, Open, Active
  <2> QED BY <2>1 DEF Owed, Dependencies
<1>2. IsFiniteSet(Dependencies)
  BY CountsAreFinite
<1>3. todo \subseteq Node /\ Unopened \subseteq Node /\ Unreturned \subseteq Node
  BY DEF Unopened, Unreturned
<1>4. /\ Cardinality(Node) \in Nat /\ Cardinality(Dependencies) \in Nat
      /\ Cardinality(todo) \in 0 .. Cardinality(Node)
      /\ Cardinality(Unopened) \in 0 .. Cardinality(Node)
      /\ Cardinality(Unreturned) \in 0 .. Cardinality(Node)
      /\ Cardinality(Owed) \in 0 .. Cardinality(Dependencies)
  BY <1>1, <1>2, <1>3, FewerIsLess
<1> QED BY <1>4 DEF LinearlyMany, StepsLeft

(* The search ends, on every graph and in every order of visits, after at  *)
(* most three steps for each control and one for each dependency: it goes  *)
(* through no control twice and into no cycle again (_cycle_nodes).        *)
THEOREM SearchEnds ==
    IsFiniteSet(Node) =>
        (SearchSpec => []LinearlyMany /\ [][StepsLeft' < StepsLeft]_searchVars)
<1> SUFFICES ASSUME IsFiniteSet(Node)
             PROVE  SearchSpec => []LinearlyMany /\ [][StepsLeft' < StepsLeft]_searchVars
  OBVIOUS
<1>1. SearchInv => LinearlyMany
  BY StepsAreFew
<1>2. SearchInv /\ [SearchNext]_searchVars => [StepsLeft' < StepsLeft]_searchVars
  BY StepsFall
<1>3. QED
  BY <1>1, <1>2, SearchInvAtFirst, SearchInvIsKept, PTL DEF SearchSpec

-----------------------------------------------------------------------------
(* The branch of a programme                                               *)

LEMMA MatrixIsAccepted == MatrixSpec => []MatrixHolds(matrix)
<1>1. MatrixInit => MatrixHolds(matrix)
  BY FirstAssumption DEF MatrixInit
<1>2. MatrixHolds(matrix) /\ [MatrixNext]_matrixVars => MatrixHolds(matrix)'
  <2>1. MatrixNext => \E m, said : Merged(m, said)
    BY DEF MatrixNext, AmendControl, AmendCohort, Reorder, AmendPlace, AmendDecision,
           AmendStatus, AmendRecord
  <2>2. ASSUME NEW m, NEW said, Merged(m, said) PROVE MatrixHolds(matrix')
    BY <2>2 DEF Merged, VerifyRepository
  <2>3. CASE UNCHANGED matrixVars
    BY <2>3 DEF matrixVars
  <2> QED BY <2>1, <2>2, <2>3
<1> QED BY <1>1, <1>2, PTL DEF MatrixSpec

MatrixTypeOK == matrix \in Matrix

LEMMA MatrixStaysTyped == MatrixSpec => []MatrixTypeOK
<1>1. MatrixInit => MatrixTypeOK
  BY FirstAssumption DEF MatrixInit, MatrixTypeOK
<1>2. MatrixTypeOK /\ [MatrixNext]_matrixVars => MatrixTypeOK'
  <2> SUFFICES ASSUME matrix \in Matrix, [MatrixNext]_matrixVars PROVE matrix' \in Matrix
    BY DEF MatrixTypeOK
  <2>1. ASSUME NEW c \in Control, NEW s \in ControlState, NEW e \in BOOLEAN,
               NEW g \in BOOLEAN, NEW d \in SUBSET (Control \ {c}),
               AmendControl(c, s, d, e, g)
        PROVE  matrix' \in Matrix
    BY <2>1, MatrixAssumption DEF AmendControl, Merged, Matrix, With
  <2>2. ASSUME NEW h \in Cohort, NEW s \in BOOLEAN, NEW f \in SUBSET Cohort,
               AmendCohort(h, s, f)
        PROVE  matrix' \in Matrix
    BY <2>2 DEF AmendCohort, Merged, Matrix, With
  <2>3. ASSUME NEW q \in [Cohort -> 1 .. Cardinality(Cohort)], Reorder(q)
        PROVE  matrix' \in Matrix
    <3>1. q \in [Cohort -> Nat]
      BY MatrixAssumption, FS_CardinalityType
    <3> QED BY <2>3, <3>1 DEF Reorder, Merged, Matrix
  <2>4. ASSUME NEW k \in Component, NEW h \in SUBSET Cohort, NEW r \in BOOLEAN,
               NEW s \in BOOLEAN, AmendPlace(k, h, r, s)
        PROVE  matrix' \in Matrix
    BY <2>4 DEF AmendPlace, Merged, Matrix, With
  <2>5. ASSUME NEW d \in Decision, NEW o \in BOOLEAN, NEW r \in BOOLEAN,
               AmendDecision(d, o, r)
        PROVE  matrix' \in Matrix
    BY <2>5 DEF AmendDecision, Merged, Matrix, With
  <2>6. ASSUME NEW s \in {"proposed", "active"}, AmendStatus(s) PROVE matrix' \in Matrix
    BY <2>6 DEF AmendStatus, Merged, Matrix
  <2>7. ASSUME NEW s \in SUBSET Control, AmendRecord(s) PROVE matrix' \in Matrix
    BY <2>7 DEF AmendRecord, Merged
  <2>8. CASE UNCHANGED matrixVars
    BY <2>8 DEF matrixVars
  <2> QED BY <2>1, <2>2, <2>3, <2>4, <2>5, <2>6, <2>7, <2>8 DEF MatrixNext
<1> QED BY <1>1, <1>2, PTL DEF MatrixSpec

(* On a branch of any length no control of the gate waits, itself or       *)
(* through others, for one that will never be verified.                    *)
THEOREM GateCanAlwaysOpen == MatrixSpec => []TheGateCanOpen
<1>1. MatrixHolds(matrix) => TheGateCanOpen
  <2> SUFFICES ASSUME MatrixHolds(matrix), NEW S \in SUBSET Control,
                      \A c \in S : c \notin Live(matrix) \/ matrix.depends[c] \cap S # {},
                      NEW c \in matrix.gate \cap S
               PROVE  FALSE
    BY DEF TheGateCanOpen
  <2> DEFINE T == S \cap Live(matrix)
             deps == [k \in Listed(matrix) |-> matrix.depends[k]]
  <2>1. c \in T /\ T \in SUBSET DOMAIN deps
    BY DEF MatrixHolds, GateHolds, Live
  <2>2. Waiting(deps, T)
    <3> SUFFICES ASSUME NEW k \in T PROVE deps[k] \cap T # {}
      BY DEF Waiting
    <3>1. deps[k] = matrix.depends[k] /\ matrix.depends[k] \subseteq Live(matrix)
      BY DEF MatrixHolds, ControlsHold, Live
    <3> QED BY <3>1
  <2>3. c \in Stuck(deps)
    BY <2>1, <2>2 DEF Stuck
  <2> QED BY <2>3 DEF MatrixHolds, ControlsHold
<1> QED BY <1>1, MatrixIsAccepted, PTL

LEMMA LeastNat ==
    ASSUME NEW T \in SUBSET Nat, T # {}
    PROVE  \E x \in T : \A y \in T : x <= y
<1>1. IsWellFoundedOn(OpToRel(<, Nat), Nat)
  BY NatLessThanWellFounded
<1>2. PICK x \in T : \A y \in T : ~(<<y, x>> \in OpToRel(<, Nat))
  BY <1>1, WFMin
<1>3. \A y \in T : ~(y < x)
  BY <1>2 DEF OpToRel
<1> QED BY <1>3

(* What is switched up to a cohort needs nothing that is not.              *)
LEMMA NothingElseIsNeeded ==
    ASSUME MatrixHolds(matrix), matrix \in Matrix, NEW h \in Cohort,
           NEW upto,
           upto = {k \in Component :
                      \E g \in matrix.carriers[k] : matrix.sequence[g] <= matrix.sequence[h]}
    PROVE  UNION {Requires[k] : k \in upto} \subseteq upto
<1> SUFFICES ASSUME NEW k \in upto, NEW r \in Requires[k] PROVE r \in upto
  OBVIOUS
<1>1. PICK g \in matrix.carriers[k] : matrix.sequence[g] <= matrix.sequence[h]
  OBVIOUS
<1>2. /\ k \in Component /\ k \in InCohorts(matrix) /\ r \in InCohorts(matrix)
      /\ \A s \in matrix.carriers[r], i \in matrix.carriers[k] :
             matrix.sequence[s] <= matrix.sequence[i]
  BY <1>1 DEF MatrixHolds, ComponentsHold, InCohorts
<1>3. PICK s \in matrix.carriers[r] : TRUE
  BY <1>2 DEF InCohorts
<1>4. r \in Component /\ s \in Cohort /\ g \in Cohort
  BY <1>1, <1>2, <1>3 DEF Matrix, InCohorts
<1>5. matrix.sequence[s] \in Nat /\ matrix.sequence[g] \in Nat /\ matrix.sequence[h] \in Nat
  BY <1>4 DEF Matrix
<1> QED BY <1>1, <1>2, <1>3, <1>4, <1>5

(* Growing by what is needed, one round after another.                     *)
Rounds(upto, k, f) ==
    f = [n \in 0 .. k |->
            IF n = 0 THEN upto
            ELSE f[n - 1] \cup UNION {Requires[c] : c \in f[n - 1]}]

LEMMA RoundsAddNothing ==
    ASSUME NEW upto, UNION {Requires[c] : c \in upto} \subseteq upto, NEW k \in Nat
    PROVE  /\ \E f : Rounds(upto, k, f)
           /\ \A f : Rounds(upto, k, f) => f[k] = upto
<1>1. Rounds(upto, k, [n \in 0 .. k |-> upto])
  <2> DEFINE f == [n \in 0 .. k |-> upto]
  <2>1. \A n \in 0 .. k : n # 0 => n - 1 \in 0 .. k
    OBVIOUS
  <2>2. \A n \in 0 .. k : n # 0 =>
            f[n - 1] \cup UNION {Requires[c] : c \in f[n - 1]} = upto
    <3> SUFFICES ASSUME NEW n \in 0 .. k, n # 0
                 PROVE  f[n - 1] \cup UNION {Requires[c] : c \in f[n - 1]} = upto
      OBVIOUS
    <3>1. f[n - 1] = upto
      BY <2>1
    <3> HIDE DEF f
    <3> QED BY <3>1
  <2> QED BY <2>2 DEF Rounds
<1>2. ASSUME NEW f, Rounds(upto, k, f), f[k] # upto PROVE FALSE
  <2> DEFINE T == {n \in 0 .. k : f[n] # upto}
  <2>1. T \in SUBSET Nat /\ k \in T
    BY <1>2
  <2>2. PICK n \in T : \A j \in T : n <= j
    <3> HIDE DEF T
    <3> QED BY <2>1, LeastNat
  <2>3. f[n] = IF n = 0 THEN upto
               ELSE f[n - 1] \cup UNION {Requires[c] : c \in f[n - 1]}
    BY <1>2 DEF Rounds
  <2>4. n # 0 /\ n - 1 \in 0 .. k /\ n - 1 \notin T
    BY <2>2, <2>3
  <2>5. f[n - 1] = upto
    BY <2>4
  <2> QED BY <2>2, <2>3, <2>4, <2>5
<1> QED BY <1>1, <1>2

(* On a branch of any length what a capability needs, and what that needs  *)
(* in turn, is switched in the same cohort or in an earlier one.           *)
THEOREM WhatIsNeededComesFirst == MatrixSpec => []RequirementsComeFirst
<1>1. MatrixTypeOK /\ MatrixHolds(matrix) => RequirementsComeFirst
  <2> SUFFICES ASSUME matrix \in Matrix, MatrixHolds(matrix), NEW h \in Cohort
               PROVE  LET upto == {k \in Component :
                              \E g \in matrix.carriers[k] :
                                  matrix.sequence[g] <= matrix.sequence[h]}
                          needed[n \in 0 .. Cardinality(Component)] ==
                              IF n = 0 THEN upto
                              ELSE needed[n - 1] \cup UNION {Requires[k] : k \in needed[n - 1]}
                      IN  needed[Cardinality(Component)] = upto
    BY DEF RequirementsComeFirst, MatrixTypeOK
  <2> DEFINE upto == {k \in Component :
                         \E g \in matrix.carriers[k] :
                             matrix.sequence[g] <= matrix.sequence[h]}
             K == Cardinality(Component)
             needed == CHOOSE f : f = [n \in 0 .. K |->
                                IF n = 0 THEN upto
                                ELSE f[n - 1] \cup UNION {Requires[c] : c \in f[n - 1]}]
  <2>1. K \in Nat
    BY MatrixAssumption, FS_CardinalityType
  <2>2. UNION {Requires[k] : k \in upto} \subseteq upto
    BY NothingElseIsNeeded
  <2>3. needed[K] = upto
    <3>1. needed = CHOOSE f : Rounds(upto, K, f)
      BY DEF Rounds
    <3> HIDE DEF upto, K, needed
    <3> QED BY <2>1, <2>2, <3>1, RoundsAddNothing
  <2> QED BY <2>3
<1> QED BY <1>1, MatrixIsAccepted, MatrixStaysTyped, PTL

=============================================================================
