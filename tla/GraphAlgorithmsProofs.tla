------------------------ MODULE GraphAlgorithmsProofs ------------------------
(***************************************************************************)
(* What the loops of GraphService compute, for every finite flow.          *)
(***************************************************************************)
EXTENDS GraphAlgorithms, TLAPS, FiniteSetTheorems

-----------------------------------------------------------------------------
(* Sequences and what they list.                                           *)

(* What is listed is the head and what the tail lists.                     *)
LEMMA ListedTail ==
  ASSUME NEW S, NEW seq \in Seq(S), seq # <<>>
  PROVE  /\ Tail(seq) \in Seq(S)
         /\ Head(seq) \in S /\ Head(seq) \in Listed(seq) /\ Head(seq) = seq[1]
         /\ Listed(seq) = {Head(seq)} \cup Listed(Tail(seq))
<1>1. /\ Len(seq) \in Nat \ {0} /\ DOMAIN seq = 1..Len(seq) /\ Head(seq) = seq[1]
      /\ Tail(seq) \in Seq(S) /\ Len(Tail(seq)) = Len(seq) - 1
      /\ \A i \in 1..Len(seq) - 1 : Tail(seq)[i] = seq[i + 1]
  OBVIOUS
<1>2. ASSUME NEW i \in 1..Len(seq)
      PROVE  seq[i] \in {Head(seq)} \cup Listed(Tail(seq))
  <2>1. CASE i = 1
    BY <1>1, <2>1
  <2>2. CASE i # 1
    <3>1. i - 1 \in DOMAIN Tail(seq) /\ Tail(seq)[i - 1] = seq[i]
      BY <1>1, <2>2
    <3>2. QED  BY <3>1 DEF Listed
  <2>3. QED  BY <2>1, <2>2
<1>3. ASSUME NEW i \in DOMAIN Tail(seq)
      PROVE  Tail(seq)[i] \in Listed(seq)
  <2>1. i + 1 \in DOMAIN seq /\ Tail(seq)[i] = seq[i + 1]
    BY <1>1
  <2>2. QED  BY <2>1 DEF Listed
<1>4. Head(seq) \in Listed(seq) /\ Head(seq) \in S
  BY <1>1 DEF Listed
<1>5. QED  BY <1>1, <1>2, <1>3, <1>4 DEF Listed

(* Two sequences in a row list what each of them lists.                    *)
LEMMA ListedConcat ==
  ASSUME NEW S, NEW a \in Seq(S), NEW b \in Seq(S)
  PROVE  a \o b \in Seq(S) /\ Listed(a \o b) = Listed(a) \cup Listed(b)
<1>1. /\ a \o b \in Seq(S) /\ Len(a \o b) = Len(a) + Len(b)
      /\ \A i \in 1..Len(a) : (a \o b)[i] = a[i]
      /\ \A i \in Len(a) + 1..Len(a) + Len(b) : (a \o b)[i] = b[i - Len(a)]
      /\ DOMAIN a = 1..Len(a) /\ DOMAIN b = 1..Len(b)
      /\ DOMAIN (a \o b) = 1..Len(a) + Len(b) /\ Len(a) \in Nat /\ Len(b) \in Nat
  OBVIOUS
<1>2. ASSUME NEW i \in DOMAIN (a \o b)
      PROVE  (a \o b)[i] \in Listed(a) \cup Listed(b)
  <2>1. CASE i \in 1..Len(a)
    BY <1>1, <2>1 DEF Listed
  <2>2. CASE i \notin 1..Len(a)
    <3>1. i - Len(a) \in DOMAIN b /\ (a \o b)[i] = b[i - Len(a)]
      BY <1>1, <2>2
    <3>2. QED  BY <3>1 DEF Listed
  <2>3. QED  BY <2>1, <2>2
<1>3. ASSUME NEW i \in DOMAIN a
      PROVE  a[i] \in Listed(a \o b)
  BY <1>1 DEF Listed
<1>4. ASSUME NEW i \in DOMAIN b
      PROVE  b[i] \in Listed(a \o b)
  <2>1. i + Len(a) \in DOMAIN (a \o b) /\ (a \o b)[i + Len(a)] = b[i]
    BY <1>1
  <2>2. QED  BY <2>1 DEF Listed
<1>5. QED  BY <1>1, <1>2, <1>3, <1>4 DEF Listed

(* Append lists one element more.                                          *)
LEMMA ListedAppend ==
  ASSUME NEW S, NEW a \in Seq(S), NEW x \in S
  PROVE  /\ Append(a, x) \in Seq(S) /\ Listed(Append(a, x)) = Listed(a) \cup {x}
         /\ Len(Append(a, x)) = Len(a) + 1
<1>1. /\ Append(a, x) \in Seq(S) /\ Len(Append(a, x)) = Len(a) + 1
      /\ DOMAIN Append(a, x) = 1..Len(a) + 1 /\ DOMAIN a = 1..Len(a) /\ Len(a) \in Nat
      /\ Append(a, x)[Len(a) + 1] = x
      /\ \A i \in 1..Len(a) : Append(a, x)[i] = a[i]
  OBVIOUS
<1>2. QED  BY <1>1 DEF Listed

(* An order of a finite set lists its members, each once.                  *)
LEMMA OrdersList ==
  ASSUME NEW S, IsFiniteSet(S), NEW seq \in Orders(S)
  PROVE  /\ seq \in Seq(S) /\ Listed(seq) = S
         /\ Len(seq) = Cardinality(S) /\ IsInjective(seq)
<1>1. Cardinality(S) \in Nat
  BY FS_CardinalityType
<1>2. seq \in [1..Cardinality(S) -> S] /\ Listed(seq) = S
  BY DEF Orders
<1>3. seq \in Seq(S) /\ Len(seq) = Cardinality(S) /\ DOMAIN seq = 1..Cardinality(S)
  BY <1>1, <1>2
<1>4. seq \in Surjection(1..Cardinality(S), S)
  BY <1>2 DEF Surjection, Listed
<1>5. IsFiniteSet(1..Cardinality(S)) /\ Cardinality(1..Cardinality(S)) = Cardinality(S)
  BY <1>1, FS_Interval
<1>6. seq \in Injection(1..Cardinality(S), S)
  BY <1>4, <1>5, FS_SurjSameCardinalityImpliesInj
<1>7. IsInjective(seq)
  BY <1>3, <1>6 DEF Injection, IsInjective
<1>8. QED  BY <1>2, <1>3, <1>7

(* The targets of some edges, in whatever order, are listed.               *)
LEMMA ReachedList ==
  ASSUME NEW E \in SUBSET Drawable, NEW seq \in Reached(E)
  PROVE  seq \in Seq(Node) /\ Listed(seq) = {e.target : e \in E}
<1>1. IsFiniteSet(E) /\ \A e \in E : e.target \in Node
  BY FlowsAssumption, FS_Subset
<1>2. PICK order \in Orders(E) : seq = [i \in DOMAIN order |-> order[i].target]
  BY DEF Reached
<1>3. order \in Seq(E) /\ Listed(order) = E
  BY <1>1, <1>2, OrdersList
<1>4. /\ DOMAIN order = 1..Len(order) /\ Len(order) \in Nat
      /\ \A i \in DOMAIN order : order[i] \in E
  BY <1>3
<1>5. seq \in Seq(Node)
  BY <1>1, <1>2, <1>4
<1>6. Listed(seq) = {order[i].target : i \in DOMAIN order}
  BY <1>2 DEF Listed
<1>7. {order[i].target : i \in DOMAIN order} = {e.target : e \in E}
  BY <1>3 DEF Listed
<1>8. QED  BY <1>5, <1>6, <1>7

-----------------------------------------------------------------------------
(* Types.                                                                  *)

(* Edges join nodes, and a node has finitely many of them.                 *)
LEMMA GraphTypes ==
  ASSUME edges \in SUBSET Drawable
  PROVE  /\ IsFiniteSet(edges)
         /\ \A e \in edges : e.source \in Node /\ e.target \in Node
         /\ \A n : Graph!Outgoing(n) \in SUBSET edges /\ Graph!Incoming(n) \in SUBSET edges
         /\ \A n : /\ IsFiniteSet(Graph!Incoming(n)) /\ Cardinality(Graph!Incoming(n)) \in Nat
                  /\ Graph!Children(n) \in SUBSET Node /\ IsFiniteSet(Graph!Children(n))
<1>1. IsFiniteSet(edges) /\ \A e \in edges : e.source \in Node /\ e.target \in Node
  BY FlowsAssumption, FS_Subset
<1>2. \A n : Graph!Outgoing(n) \in SUBSET edges /\ Graph!Incoming(n) \in SUBSET edges
  BY DEF Graph!Outgoing, Graph!Incoming
<1>3. ASSUME NEW n
      PROVE  /\ IsFiniteSet(Graph!Incoming(n)) /\ Cardinality(Graph!Incoming(n)) \in Nat
             /\ Graph!Children(n) \in SUBSET Node /\ IsFiniteSet(Graph!Children(n))
  <2>1. IsFiniteSet(Graph!Incoming(n)) /\ Cardinality(Graph!Incoming(n)) \in Nat
    BY <1>1, <1>2, FS_Subset, FS_CardinalityType
  <2>2. Graph!Children(n) \in SUBSET Node
    BY <1>1 DEF Graph!Children, Graph!Outgoing
  <2>3. IsFiniteSet(Graph!Children(n))
    BY <2>2, FlowsAssumption, FS_Subset
  <2>4. QED  BY <2>1, <2>2, <2>3
<1>4. QED  BY <1>1, <1>2, <1>3

(* Every call begins with values of the declared types.                    *)
LEMMA TypeInit ==
  Init => TypeOK
<1> SUFFICES ASSUME Init PROVE TypeOK
  OBVIOUS
<1>1. operation \in {"cascade", "sort", "detect", "path"} /\ call = operation
  BY DEF Init
<1>2. edges \in SUBSET Drawable
  BY DEF Init
<1>3. given \in SUBSET Node /\ targets \in SUBSET Node
  <2>1. CASE operation = "cascade"
    BY <2>1 DEF Init
  <2>2. CASE operation # "cascade"
    BY <2>2 DEF Init
  <2>3. QED  BY <2>1, <2>2
<1>4. left \in SUBSET Node /\ skips \in SUBSET Node
  BY <1>3 DEF Init
<1>5. visited = {} /\ stack = <<>> /\ result = <<>> /\ hasCycle = FALSE
  BY DEF Init
<1>6. inDegree \in [Node -> Int]
  BY <1>2, GraphTypes DEF Init
<1>7. queue \in Seq(Node)
  <2> DEFINE Q == IF operation = "sort" THEN {n \in Node : inDegree[n] = 0} ELSE {}
  <2>1. Q \in SUBSET Node /\ IsFiniteSet(Q)
    BY FlowsAssumption, FS_Subset, FS_EmptySet
  <2>2. queue \in Orders(Q)
    BY DEF Init
  <2> HIDE DEF Q
  <2>3. queue \in Seq(Q)
    BY <2>1, <2>2, OrdersList
  <2>4. QED  BY <2>1, <2>3
<1>8. visited \in SUBSET Node /\ hasCycle \in BOOLEAN /\ result \in Seq(Node)
      /\ stack \in Seq(Frame)
  <2>1. hasCycle \in BOOLEAN
    BY <1>5
  <2>2. visited \in SUBSET Node /\ result \in Seq(Node) /\ stack \in Seq(Frame)
    BY <1>5
  <2>3. QED  BY <2>1, <2>2
<1>9. QED  BY <1>1, <1>2, <1>3, <1>4, <1>6, <1>7, <1>8 DEF TypeOK

(* Every step keeps the types.                                             *)
LEMMA TypeStep ==
  TypeOK /\ [Next]_vars => TypeOK'
<1> SUFFICES ASSUME TypeOK, [Next]_vars PROVE TypeOK'
  OBVIOUS
<1> USE DEF TypeOK
<1>1. ASSUME NEW t \in Node, StartCascade(t) PROVE TypeOK'
  <2>1. queue' \in Seq(Node)
    BY <1>1, GraphTypes, ReachedList DEF StartCascade
  <2>2. QED  BY <1>1, <2>1 DEF StartCascade, Frame
<1>2. ASSUME NEW t \in Node, StartSearch(t) PROVE TypeOK'
  <2>1. Enter(t) \in Frame
    BY GraphTypes DEF Enter, Frame
  <2>2. stack' \in Seq(Frame) /\ visited' \in SUBSET Node
    <3>1. CASE t \in visited
      BY <1>2, <3>1 DEF StartSearch, Frame
    <3>2. CASE t \notin visited
      <4>1. stack' = <<Enter(t)>> /\ visited' \in {visited \cup {t}, visited}
        BY <1>2, <3>2 DEF StartSearch
      <4>2. <<Enter(t)>> \in Seq(Frame)
        BY <2>1
      <4>3. QED  BY <4>1, <4>2
    <3>3. QED  BY <3>1, <3>2
  <2>3. QED  BY <1>2, <2>2 DEF StartSearch, Frame
<1>3. CASE CascadeStep
  <2>1. Head(queue) \in Node /\ Tail(queue) \in Seq(Node)
    BY <1>3, ListedTail DEF CascadeStep
  <2>2. skips' \in SUBSET Node
    BY <1>3, <2>1 DEF CascadeStep
  <2>3. queue' \in Seq(Node)
    <3>1. ASSUME NEW seq \in Reached({e \in Graph!Outgoing(Head(queue)) : e.target \notin skips'})
          PROVE  Tail(queue) \o seq \in Seq(Node)
      BY <2>1, GraphTypes, ReachedList, ListedConcat
    <3>2. QED  BY <1>3, <2>1, <3>1 DEF CascadeStep
  <2>4. QED  BY <1>3, <2>2, <2>3 DEF CascadeStep, Frame
<1>4. CASE SortStep
  <2>1. Head(queue) \in Node /\ Tail(queue) \in Seq(Node)
    BY <1>4, ListedTail DEF SortStep
  <2>2. result' \in Seq(Node)
    BY <1>4, <2>1 DEF SortStep
  <2>3. ASSUME NEW c \in Node, NEW n
        PROVE  Cardinality(Graph!Incoming(c) \cap Graph!Outgoing(n)) \in Nat
    BY GraphTypes, FS_Intersection, FS_CardinalityType
  <2>4. inDegree' \in [Node -> Int]
    <3>1. inDegree' = [c \in Node |-> inDegree[c]
                         - Cardinality(Graph!Incoming(c) \cap Graph!Outgoing(Head(queue)))]
      BY <1>4 DEF SortStep
    <3>2. ASSUME NEW c \in Node
          PROVE  inDegree[c] - Cardinality(Graph!Incoming(c) \cap Graph!Outgoing(Head(queue))) \in Int
      <4>1. inDegree[c] \in Int
        OBVIOUS
      <4>2. Cardinality(Graph!Incoming(c) \cap Graph!Outgoing(Head(queue))) \in Nat
        BY <2>3, Zenon
      <4>3. QED  BY <4>1, <4>2
    <3>3. QED  BY <3>1, <3>2
  <2>5. PICK seq \in Orders(Freed(Head(queue), inDegree')) : queue' = Tail(queue) \o seq
    BY <1>4 DEF SortStep
  <2>6. /\ Freed(Head(queue), inDegree') \in SUBSET Node
        /\ IsFiniteSet(Freed(Head(queue), inDegree'))
    BY GraphTypes, FS_Subset DEF Freed
  <2>7. seq \in Seq(Freed(Head(queue), inDegree'))
    BY <2>6, OrdersList
  <2>8. queue' \in Seq(Node)
    BY <2>1, <2>5, <2>6, <2>7, ListedConcat
  <2>9. QED  BY <1>4, <2>2, <2>4, <2>8 DEF SortStep, Frame
<1>5. ASSUME NEW e \in edges, SearchStep(e) PROVE TypeOK'
  <2> DEFINE popped == [stack[1] EXCEPT !.edges = @ \ {e}]
  <2>1. stack[1] \in Frame /\ Tail(stack) \in Seq(Frame)
    BY <1>5, ListedTail DEF SearchStep
  <2>2. Neighbour(e) \in Node /\ Enter(Neighbour(e)) \in Frame /\ popped \in Frame
    BY <2>1, GraphTypes DEF Enter, Neighbour, Frame
  <2> HIDE DEF popped
  <2>3. <<Enter(Neighbour(e)), popped>> \in Seq(Frame) /\ <<popped>> \in Seq(Frame)
    BY <2>2
  <2>4. stack' \in Seq(Frame) /\ visited' \in SUBSET Node
    <3>1. CASE Neighbour(e) \notin visited
      <4>1. /\ stack' = <<Enter(Neighbour(e)), popped>> \o Tail(stack)
            /\ visited' = visited \cup {Neighbour(e)}
        BY <1>5, <3>1 DEF SearchStep, Follow, popped
      <4>2. QED  BY <4>1, <2>1, <2>2, <2>3, ListedConcat
    <3>2. CASE Neighbour(e) \in visited
      <4>1. stack' = <<popped>> \o Tail(stack) /\ visited' = visited
        BY <1>5, <3>2 DEF SearchStep, Follow, popped
      <4>2. QED  BY <4>1, <2>1, <2>3, ListedConcat
    <3>3. QED  BY <3>1, <3>2
  <2>5. hasCycle' \in BOOLEAN
    BY <1>5 DEF SearchStep
  <2>6. QED  BY <1>5, <2>4, <2>5 DEF SearchStep, Frame
<1>6. CASE LeaveNode
  <2>1. stack[1] \in Frame /\ Tail(stack) \in Seq(Frame)
    BY <1>6, ListedTail DEF LeaveNode
  <2>2. QED  BY <1>6, <2>1 DEF LeaveNode, Frame
<1>7. CASE Return
  BY <1>7 DEF Return, Frame
<1>8. CASE UNCHANGED vars
  BY <1>8 DEF vars, Frame
<1>9. QED
  BY <1>1, <1>2, <1>3, <1>4, <1>5, <1>6, <1>7, <1>8 DEF Next

-----------------------------------------------------------------------------
(* The argument of an operation does not change.                           *)
LEMMA ArgumentsKept ==
  [Next]_vars => UNCHANGED <<operation, edges, given, targets>>
  BY DEF Next, vars, StartCascade, CascadeStep, SortStep, StartSearch, SearchStep,
         LeaveNode, Return

-----------------------------------------------------------------------------
(***************************************************************************)
(* The cascade stays within every closed skip set, because it looks at     *)
(* nothing but children of targets and of nodes it has itself skipped; and *)
(* a node whose parents are all skipped, one of them by a start that is    *)
(* made or by the cascade, is skipped or still in the queue.               *)
(***************************************************************************)
Added == skips \ (given \cup targets)

AllParentsIn(c, S) == \A e \in edges : e.target = c => e.source \in S

CascadeInv ==
  operation = "cascade" =>
    /\ left \subseteq targets /\ given \cup (targets \ left) \subseteq skips
    /\ \A T \in SUBSET Node :
         Graph!SkipClosed(T, targets, given \cup targets) => skips \subseteq T
    /\ \A c \in Listed(queue) : \E e \in edges : e.target = c /\ e.source \in targets \cup Added
    /\ \A e \in edges :
         (e.source \in (targets \ left) \cup Added /\ AllParentsIn(e.target, skips))
           => e.target \in skips \cup Listed(queue)

(* A closed set holds the targets that it closes over.                     *)
LEMMA ClosedUnderSkipping ==
  \A T, starts, S, e :
    /\ Graph!SkipClosed(T, starts, S) /\ e \in edges
    /\ e.source \in starts \cup (T \ S) /\ AllParentsIn(e.target, T)
    => S \subseteq T /\ e.target \in T
  BY DEF Graph!SkipClosed, Graph!Children, Graph!Outgoing, Graph!ShouldNodeBeSkipped,
         Graph!Incoming, Graph!Parents, AllParentsIn

(* ShouldNodeBeSkipped, in terms of edges.                                 *)
LEMMA SkippedMeans ==
  \A n : ShouldNodeBeSkipped(n) <=>
           (\E e \in edges : e.target = n) /\ AllParentsIn(n, skips)
  BY DEF ShouldNodeBeSkipped, Graph!ShouldNodeBeSkipped, Graph!Incoming, Graph!Parents,
         AllParentsIn

(* The cascade begins in its invariant.                                    *)
LEMMA CascadeInit ==
  Init => CascadeInv
<1> SUFFICES ASSUME Init, operation = "cascade" PROVE CascadeInv
  BY DEF CascadeInv
<1>1. left = targets /\ skips = given /\ queue \in Orders({})
  BY DEF Init
<1>2. Listed(queue) = {}
  BY <1>1 DEF Orders
<1>3. QED  BY <1>1, <1>2 DEF CascadeInv, Added, Graph!SkipClosed

(* Every step keeps the invariant of the cascade.                          *)
LEMMA CascadeKept ==
  TypeOK /\ CascadeInv /\ [Next]_vars => CascadeInv'
<1> SUFFICES ASSUME TypeOK, CascadeInv, [Next]_vars, operation = "cascade" PROVE CascadeInv'
  BY ArgumentsKept DEF CascadeInv
<1> DEFINE Closed(T) == Graph!SkipClosed(T, targets, given \cup targets)
<1>1. UNCHANGED <<operation, edges, given, targets>>
  BY ArgumentsKept
<1>2. \A T : Closed(T)' <=> Closed(T)
  BY <1>1 DEF Graph!SkipClosed, Graph!Children, Graph!Outgoing, Graph!ShouldNodeBeSkipped,
              Graph!Incoming, Graph!Parents
<1>3. /\ left \subseteq targets /\ given \cup (targets \ left) \subseteq skips
      /\ \A T \in SUBSET Node : Closed(T) => skips \subseteq T
      /\ \A c \in Listed(queue) : \E e \in edges : e.target = c /\ e.source \in targets \cup Added
      /\ \A e \in edges :
           (e.source \in (targets \ left) \cup Added /\ AllParentsIn(e.target, skips))
             => e.target \in skips \cup Listed(queue)
  BY DEF CascadeInv
<1>4. skips \in SUBSET Node /\ edges \in SUBSET Drawable
  BY DEF TypeOK
<1>5. ASSUME NEW n \in Node, skips' = skips \cup {n},
             Listed(queue) \subseteq Listed(queue') \cup {n},
             \A e \in edges : e.source = n => e.target \in skips' \cup Listed(queue'),
             \A c \in Listed(queue') : c \in Listed(queue) \/ \E e \in edges : e.target = c /\ e.source = n,
             \/ n \in left /\ left' = left \ {n}
             \/ /\ n \in Listed(queue) \ skips /\ left' = left
                /\ ShouldNodeBeSkipped(n)
      PROVE  CascadeInv'
  <2>1. n \in targets \cup Added'
    BY <1>1, <1>3, <1>5 DEF Added
  <2>2. Added \subseteq Added' /\ Added' \subseteq Added \cup {n}
    BY <1>1, <1>5 DEF Added
  <2>3. left' \subseteq targets /\ given \cup (targets \ left') \subseteq skips'
    BY <1>3, <1>5
  <2>4. ASSUME NEW T \in SUBSET Node, Closed(T)
        PROVE  skips' \subseteq T
    <3>1. skips \subseteq T
      BY <1>3, <2>4
    <3>2. CASE n \in left
      BY <1>3, <1>5, <2>4, <3>1, <3>2 DEF Graph!SkipClosed
    <3>3. CASE n \in Listed(queue) /\ ShouldNodeBeSkipped(n)
      <4>1. PICK e \in edges : e.target = n /\ e.source \in targets \cup Added
        BY <1>3, <3>3
      <4>2. AllParentsIn(n, T)
        BY <3>1, <3>3, SkippedMeans DEF AllParentsIn
      <4>3. e.source \in targets \cup (T \ (given \cup targets))
        BY <3>1, <4>1 DEF Added
      <4>4. n \in T
        BY <2>4, <4>1, <4>2, <4>3, ClosedUnderSkipping
      <4>5. QED  BY <1>5, <3>1, <4>4
    <3>4. QED  BY <1>5, <3>2, <3>3
  <2>5. ASSUME NEW c \in Listed(queue')
        PROVE  \E e \in edges : e.target = c /\ e.source \in targets \cup Added'
    BY <1>3, <1>5, <2>1, <2>2
  <2>6. ASSUME NEW e \in edges, e.source \in (targets \ left') \cup Added',
               AllParentsIn(e.target, skips')
        PROVE  e.target \in skips' \cup Listed(queue')
    <3>1. CASE e.source = n
      BY <1>5, <3>1
    <3>2. CASE e.source # n /\ AllParentsIn(e.target, skips)
      <4>1. e.source \in (targets \ left) \cup Added
        BY <1>5, <2>2, <2>6, <3>2
      <4>2. QED  BY <1>3, <1>5, <3>2, <4>1
    <3>3. CASE ~AllParentsIn(e.target, skips)
      <4>1. PICK d \in edges : d.target = e.target /\ d.source = n
        BY <1>5, <2>6, <3>3 DEF AllParentsIn
      <4>2. QED  BY <1>5, <4>1
    <3>4. QED  BY <3>1, <3>2, <3>3
  <2>7. QED
    BY <1>1, <1>2, <2>3, <2>4, <2>5, <2>6 DEF CascadeInv, AllParentsIn
<1>6. ASSUME skips' = skips, left' = left, Listed(queue') \subseteq Listed(queue),
             \A e \in edges : (e.target \in Listed(queue) \ Listed(queue')
                              /\ AllParentsIn(e.target, skips)) => e.target \in skips
      PROVE  CascadeInv'
  <2>1. Added' = Added
    BY <1>1, <1>6 DEF Added
  <2>2. \A c \in Listed(queue') : \E e \in edges : e.target = c /\ e.source \in targets \cup Added
    BY <1>3, <1>6
  <2>3. \A e \in edges :
          (e.source \in (targets \ left) \cup Added /\ AllParentsIn(e.target, skips))
            => e.target \in skips \cup Listed(queue')
    BY <1>3, <1>6
  <2>4. QED
    BY <1>1, <1>2, <1>3, <1>6, <2>1, <2>2, <2>3 DEF CascadeInv, AllParentsIn
<1>7. ASSUME NEW t \in Node, StartCascade(t) PROVE CascadeInv'
  <2>1. /\ queue = <<>> /\ t \in left /\ left' = left \ {t} /\ skips' = skips \cup {t}
        /\ queue' \in Reached({e \in Graph!Outgoing(t) : e.target \notin skips'})
    BY <1>7 DEF StartCascade
  <2>2. Listed(queue') = {e.target : e \in {d \in Graph!Outgoing(t) : d.target \notin skips'}}
    BY <1>4, <2>1, GraphTypes, ReachedList
  <2>3. Listed(queue) = {}
    BY <2>1 DEF Listed
  <2>4. QED  BY <1>5, <2>1, <2>2, <2>3 DEF Graph!Outgoing
<1>8. CASE CascadeStep
  <2> DEFINE n == Head(queue)
  <2> HIDE DEF n
  <2>1. /\ n \in Node /\ Tail(queue) \in Seq(Node) /\ n \in Listed(queue)
        /\ Listed(queue) = {n} \cup Listed(Tail(queue)) /\ left' = left
    BY <1>8, ListedTail DEF CascadeStep, TypeOK, n
  <2>2. CASE ShouldNodeBeSkipped(n) /\ n \notin skips
    <3>1. /\ skips' = skips \cup {n}
          /\ \E seq \in Reached({e \in Graph!Outgoing(n) : e.target \notin skips'}) :
               queue' = Tail(queue) \o seq
      BY <1>8, <2>2 DEF CascadeStep, n
    <3>2. PICK more \in Reached({e \in Graph!Outgoing(n) : e.target \notin skips'}) :
               queue' = Tail(queue) \o more
      BY <3>1
    <3>3. /\ more \in Seq(Node)
          /\ Listed(more) = {e.target : e \in {d \in Graph!Outgoing(n) : d.target \notin skips'}}
      BY <1>4, GraphTypes, ReachedList
    <3>4. Listed(queue') = Listed(Tail(queue)) \cup Listed(more)
      <4>1. Tail(queue) \in Seq(Node) /\ more \in Seq(Node)
        BY <2>1, <3>3
      <4>2. Listed(Tail(queue) \o more) = Listed(Tail(queue)) \cup Listed(more)
        BY <4>1, ListedConcat
      <4>3. QED  BY <3>2, <4>2
    <3>5. QED  BY <1>5, <2>1, <2>2, <3>1, <3>3, <3>4 DEF Graph!Outgoing
  <2>3. CASE ~(ShouldNodeBeSkipped(n) /\ n \notin skips)
    <3>1. queue' = Tail(queue) /\ skips' = skips
      BY <1>8, <2>3 DEF CascadeStep, n
    <3>2. ASSUME NEW e \in edges, e.target \in Listed(queue) \ Listed(queue'),
                 AllParentsIn(e.target, skips)
          PROVE  e.target \in skips
      BY <2>1, <2>3, <3>1, <3>2, SkippedMeans
    <3>3. QED  BY <1>6, <2>1, <3>1, <3>2
  <2>4. QED  BY <2>2, <2>3
<1>9. CASE UNCHANGED <<left, skips, queue>>
  <2>1. Listed(queue') = Listed(queue)
    BY <1>9
  <2>2. QED  BY <1>6, <1>9, <2>1
<1>10. QED
  <2>1. ~SortStep /\ ~LeaveNode /\ \A t : ~StartSearch(t) /\ ~SearchStep(t)
    BY DEF TypeOK, SortStep, LeaveNode, StartSearch, SearchStep
  <2>2. Return => UNCHANGED <<left, skips, queue>>
    BY DEF Return
  <2>3. QED  BY <1>7, <1>8, <1>9, <2>1, <2>2 DEF Next, vars

-----------------------------------------------------------------------------
(***************************************************************************)
(* The sort takes a node once its last parent is in the result.  So what   *)
(* it has listed has no cycle, in whatever it cannot list each node has a  *)
(* parent, and the in-degrees it counts down are those of the rest.        *)
(***************************************************************************)
Remaining(c) == {e \in edges : e.target = c /\ e.source \notin Listed(result)}

Rooted(S) == \E n \in S : \A e \in edges : e.target = n => e.source \notin S

SortInv ==
  operation = "sort" =>
    /\ Len(result) = Cardinality(Listed(result))
    /\ IsInjective(queue) /\ Listed(result) \cap Listed(queue) = {}
    /\ \A c \in Node : inDegree[c] = Cardinality(Remaining(c))
    /\ \A c \in Node : Remaining(c) = {} <=> c \in Listed(result) \cup Listed(queue)
    /\ \A e \in edges : e.target \in Listed(result) => Before(e.source, e.target)
    /\ \A S \in SUBSET Listed(result) : S # {} => Rooted(S)

(* A flow has no cycle when each set of its nodes has a root.              *)
LEMMA AcyclicMeans ==
  Graph!Acyclic <=> \A S \in SUBSET Node : S # {} => Rooted(S)
  BY DEF Graph!Acyclic, Graph!Parents, Graph!Incoming, Rooted

(* What remains of the edges to a node can be counted.                     *)
LEMMA RemainingFinite ==
  ASSUME TypeOK, NEW c
  PROVE  IsFiniteSet(Remaining(c)) /\ Cardinality(Remaining(c)) \in Nat
<1>1. IsFiniteSet(edges) /\ Remaining(c) \in SUBSET edges
  BY GraphTypes DEF TypeOK, Remaining
<1>2. QED  BY <1>1, FS_Subset, FS_CardinalityType

(* The head of a sequence without repetition is not in its tail.           *)
LEMMA InjectiveTail ==
  ASSUME NEW S, NEW seq \in Seq(S), seq # <<>>, IsInjective(seq)
  PROVE  IsInjective(Tail(seq)) /\ Head(seq) \notin Listed(Tail(seq))
<1>1. /\ Len(seq) \in Nat \ {0} /\ DOMAIN seq = 1..Len(seq) /\ Head(seq) = seq[1]
      /\ DOMAIN Tail(seq) = 1..Len(seq) - 1
      /\ \A i \in 1..Len(seq) - 1 : Tail(seq)[i] = seq[i + 1]
  OBVIOUS
<1>2. ASSUME NEW i \in DOMAIN Tail(seq), NEW j \in DOMAIN Tail(seq), Tail(seq)[i] = Tail(seq)[j]
      PROVE  i = j
  <2>1. i + 1 \in DOMAIN seq /\ j + 1 \in DOMAIN seq /\ seq[i + 1] = seq[j + 1]
    BY <1>1, <1>2
  <2>2. i + 1 = j + 1
    BY <2>1 DEF IsInjective
  <2>3. QED  BY <1>1, <2>2
<1>3. ASSUME NEW i \in DOMAIN Tail(seq)
      PROVE  Tail(seq)[i] # Head(seq)
  <2>1. i + 1 \in DOMAIN seq /\ 1 \in DOMAIN seq /\ i + 1 # 1 /\ Tail(seq)[i] = seq[i + 1]
    BY <1>1
  <2>2. QED  BY <1>1, <2>1 DEF IsInjective
<1>4. QED  BY <1>2, <1>3 DEF IsInjective, Listed

(* Disjoint sequences without repetition make one.                         *)
LEMMA InjectiveConcat ==
  ASSUME NEW S, NEW a \in Seq(S), NEW b \in Seq(S), IsInjective(a), IsInjective(b),
         Listed(a) \cap Listed(b) = {}
  PROVE  IsInjective(a \o b)
<1>1. /\ \A i \in 1..Len(a) : (a \o b)[i] = a[i]
      /\ \A i \in Len(a) + 1..Len(a) + Len(b) : (a \o b)[i] = b[i - Len(a)]
      /\ DOMAIN a = 1..Len(a) /\ DOMAIN b = 1..Len(b)
      /\ DOMAIN (a \o b) = 1..Len(a) + Len(b) /\ Len(a) \in Nat /\ Len(b) \in Nat
  OBVIOUS
<1>2. \A i \in 1..Len(a) : \A j \in 1..Len(b) : a[i] # b[j]
  BY <1>1 DEF Listed
<1>3. ASSUME NEW i \in DOMAIN (a \o b), NEW j \in DOMAIN (a \o b), (a \o b)[i] = (a \o b)[j]
      PROVE  i = j
  <2>1. CASE i \in 1..Len(a) /\ j \in 1..Len(a)
    BY <1>1, <1>3, <2>1 DEF IsInjective
  <2>2. CASE i \notin 1..Len(a) /\ j \notin 1..Len(a)
    <3>1. /\ i - Len(a) \in DOMAIN b /\ j - Len(a) \in DOMAIN b
          /\ b[i - Len(a)] = b[j - Len(a)]
      BY <1>1, <1>3, <2>2
    <3>2. i - Len(a) = j - Len(a)
      BY <3>1 DEF IsInjective
    <3>3. QED  BY <1>1, <3>2
  <2>3. CASE i \in 1..Len(a) /\ j \notin 1..Len(a)
    <3>1. j - Len(a) \in 1..Len(b) /\ a[i] = b[j - Len(a)]
      BY <1>1, <1>3, <2>3
    <3>2. QED  BY <1>2, <2>3, <3>1
  <2>4. CASE i \notin 1..Len(a) /\ j \in 1..Len(a)
    <3>1. i - Len(a) \in 1..Len(b) /\ a[j] = b[i - Len(a)]
      BY <1>1, <1>3, <2>4
    <3>2. QED  BY <1>2, <2>4, <3>1
  <2>5. QED  BY <2>1, <2>2, <2>3, <2>4
<1>4. QED  BY <1>3 DEF IsInjective

(* What is before something stays so when more is listed.                  *)
LEMMA BeforeAppend ==
  ASSUME result \in Seq(Node), NEW x \in Node, result' = Append(result, x)
  PROVE  /\ \A p, n : Before(p, n) => Before(p, n)'
         /\ \A p \in Listed(result) : Before(p, x)'
<1>1. /\ DOMAIN result = 1..Len(result) /\ DOMAIN result' = 1..Len(result) + 1
      /\ Len(result) \in Nat /\ result'[Len(result) + 1] = x
      /\ \A i \in 1..Len(result) : result'[i] = result[i]
  OBVIOUS
<1>2. ASSUME NEW p, NEW n, Before(p, n)
      PROVE  Before(p, n)'
  <2>1. PICK i, j \in DOMAIN result : i < j /\ result[i] = p /\ result[j] = n
    BY <1>2 DEF Before
  <2>2. QED  BY <1>1, <2>1 DEF Before
<1>3. ASSUME NEW p \in Listed(result)
      PROVE  Before(p, x)'
  <2>1. PICK i \in DOMAIN result : result[i] = p
    BY DEF Listed
  <2>2. QED  BY <1>1, <2>1 DEF Before
<1>4. QED  BY <1>2, <1>3

(* The sort begins in its invariant.                                       *)
LEMMA SortInit ==
  Init => SortInv
<1> SUFFICES ASSUME Init, operation = "sort" PROVE SortInv
  BY DEF SortInv
<1> DEFINE roots == {n \in Node : inDegree[n] = 0}
<1>1. result = <<>> /\ Listed(result) = {} /\ queue \in Orders(roots) /\ TypeOK
  BY TypeInit DEF Init, Listed
<1>2. queue \in Seq(roots) /\ Listed(queue) = roots /\ IsInjective(queue)
  <2>1. IsFiniteSet(roots)
    BY FlowsAssumption, FS_Subset
  <2> HIDE DEF roots
  <2>2. QED  BY <1>1, <2>1, OrdersList
<1>3. \A c : Remaining(c) = Graph!Incoming(c)
  BY <1>1 DEF Remaining, Graph!Incoming
<1>4. \A c \in Node : inDegree[c] = Cardinality(Remaining(c))
  BY <1>3 DEF Init
<1>5. \A c \in Node : Remaining(c) = {} <=> c \in roots
  BY <1>1, <1>4, RemainingFinite, FS_EmptySet
<1>6. Len(result) = Cardinality(Listed(result))
  BY <1>1, FS_EmptySet
<1>7. QED  BY <1>1, <1>2, <1>4, <1>5, <1>6 DEF SortInv

(* Every step keeps the invariant of the sort.                             *)
LEMMA SortKept ==
  TypeOK /\ SortInv /\ [Next]_vars => SortInv'
<1> SUFFICES ASSUME TypeOK, SortInv, [Next]_vars, operation = "sort" PROVE SortInv'
  BY ArgumentsKept DEF SortInv
<1>1. UNCHANGED <<operation, edges>>
  BY ArgumentsKept
<1>2. /\ Len(result) = Cardinality(Listed(result))
      /\ IsInjective(queue) /\ Listed(result) \cap Listed(queue) = {}
      /\ \A c \in Node : inDegree[c] = Cardinality(Remaining(c))
      /\ \A c \in Node : Remaining(c) = {} <=> c \in Listed(result) \cup Listed(queue)
      /\ \A e \in edges : e.target \in Listed(result) => Before(e.source, e.target)
      /\ \A S \in SUBSET Listed(result) : S # {} => Rooted(S)
  BY DEF SortInv
<1>3. CASE UNCHANGED <<queue, inDegree, result>>
  <2>1. /\ Listed(result)' = Listed(result) /\ Listed(queue)' = Listed(queue)
        /\ IsInjective(queue)' /\ \A p, n : Before(p, n)' <=> Before(p, n)
        /\ \A c : Remaining(c)' = Remaining(c) /\ \A S : Rooted(S)' <=> Rooted(S)
    BY <1>1, <1>2, <1>3 DEF Listed, IsInjective, Before, Remaining, Rooted
  <2>2. QED  BY <1>1, <1>2, <1>3, <2>1 DEF SortInv
<1>4. CASE SortStep
  <2> DEFINE n == Head(queue)
             freed == Freed(n, inDegree')
  <2> HIDE DEF n, freed
  <2>1. /\ queue # <<>> /\ result' = Append(result, n)
        /\ \E seq \in Orders(freed) : queue' = Tail(queue) \o seq
        /\ inDegree' = [c \in Node |->
                          inDegree[c] - Cardinality(Graph!Incoming(c) \cap Graph!Outgoing(n))]
    BY <1>4 DEF SortStep, n, freed
  <2>2. /\ n \in Node /\ Tail(queue) \in Seq(Node)
        /\ Listed(queue) = {n} \cup Listed(Tail(queue))
        /\ IsInjective(Tail(queue)) /\ n \notin Listed(Tail(queue)) /\ n \notin Listed(result)
    BY <1>2, <2>1, ListedTail, InjectiveTail DEF TypeOK, n
  <2>3. Listed(result') = Listed(result) \cup {n} /\ Len(result') = Len(result) + 1
    BY <2>1, <2>2, ListedAppend DEF TypeOK
  <2>4. Remaining(n) = {}
    BY <1>2, <2>2
  <2>5. \A c : /\ Remaining(c)' = Remaining(c) \ Graph!Outgoing(n)
               /\ Graph!Incoming(c) \cap Graph!Outgoing(n) = Remaining(c) \cap Graph!Outgoing(n)
    BY <1>1, <2>2, <2>3 DEF Remaining, Graph!Outgoing, Graph!Incoming
  <2>6. ASSUME NEW c \in Node
        PROVE  /\ inDegree'[c] = Cardinality(Remaining(c)')
               /\ inDegree'[c] = 0 <=> Remaining(c)' = {}
    <3>1. /\ IsFiniteSet(Remaining(c) \ Graph!Outgoing(n))
          /\ Cardinality(Remaining(c) \ Graph!Outgoing(n))
               = Cardinality(Remaining(c)) - Cardinality(Remaining(c) \cap Graph!Outgoing(n))
      BY RemainingFinite, FS_Difference
    <3>2. inDegree'[c] = inDegree[c] - Cardinality(Remaining(c) \cap Graph!Outgoing(n))
      BY <2>1, <2>5
    <3>3. inDegree'[c] = Cardinality(Remaining(c)')
      BY <1>2, <2>5, <3>1, <3>2
    <3>4. QED  BY <2>5, <3>1, <3>3, FS_EmptySet
  <2>7. freed = {c \in Node : Remaining(c)' = {} /\ \E e \in edges : e.source = n /\ e.target = c}
    BY <2>6, GraphTypes DEF freed, Freed, Graph!Children, Graph!Outgoing, TypeOK
  <2>8. freed \cap (Listed(result) \cup Listed(queue)) = {}
    <3>1. ASSUME NEW e \in edges, e.source = n
          PROVE  Remaining(e.target) # {}
      BY <2>2, <3>1 DEF Remaining
    <3>2. QED  BY <1>2, <2>7, <3>1
  <2>9. PICK more \in Orders(freed) : queue' = Tail(queue) \o more
    BY <2>1
  <2>10. more \in Seq(Node) /\ Listed(more) = freed /\ IsInjective(more)
    <3>1. freed \in SUBSET Node /\ IsFiniteSet(freed)
      BY <2>7, FlowsAssumption, FS_Subset
    <3>2. more \in Seq(freed) /\ Listed(more) = freed /\ IsInjective(more)
      BY <2>9, <3>1, OrdersList
    <3>3. QED  BY <3>1, <3>2
  <2>11. Listed(queue') = Listed(Tail(queue)) \cup freed /\ IsInjective(queue')
    <3>1. Tail(queue) \in Seq(Node) /\ more \in Seq(Node)
      BY <2>2, <2>10
    <3>2. Listed(Tail(queue) \o more) = Listed(Tail(queue)) \cup Listed(more)
      BY <3>1, ListedConcat
    <3>3. Listed(Tail(queue)) \cap Listed(more) = {}
      BY <2>2, <2>8, <2>10
    <3>4. IsInjective(Tail(queue) \o more)
      BY <2>2, <2>10, <3>3, InjectiveConcat
    <3>5. QED  BY <2>9, <2>10, <3>2, <3>4
  <2>12. Len(result') = Cardinality(Listed(result'))
    <3>1. IsFiniteSet(Listed(result))
      <4>1. Listed(result) \in SUBSET Node
        BY DEF Listed, TypeOK
      <4>2. QED  BY <4>1, FlowsAssumption, FS_Subset
    <3>2. QED  BY <1>2, <2>2, <2>3, <3>1, FS_AddElement
  <2>13. Listed(result') \cap Listed(queue') = {}
    <3>1. n \notin freed
      BY <2>2, <2>8
    <3>2. QED  BY <1>2, <2>2, <2>3, <2>8, <2>11, <3>1
  <2>14. ASSUME NEW c \in Node
         PROVE  Remaining(c)' = {} <=> c \in Listed(result') \cup Listed(queue')
    <3>1. CASE Remaining(c) = {}
      BY <1>2, <2>2, <2>3, <2>5, <2>11, <3>1
    <3>2. CASE Remaining(c) # {}
      <4>1. c \notin Listed(result) \cup Listed(queue)
        BY <1>2, <3>2
      <4>2. Remaining(c)' = {} => \E e \in edges : e.source = n /\ e.target = c
        BY <2>5, <3>2 DEF Remaining, Graph!Outgoing
      <4>3. QED  BY <2>2, <2>3, <2>7, <2>11, <4>1, <4>2
    <3>3. QED  BY <3>1, <3>2
  <2>15. ASSUME NEW e \in edges, e.target \in Listed(result')
         PROVE  Before(e.source, e.target)'
    <3>1. CASE e.target \in Listed(result)
      BY <1>2, <2>1, <2>2, <3>1, BeforeAppend DEF TypeOK
    <3>2. CASE e.target = n
      <4>1. e.source \in Listed(result)
        BY <2>4, <3>2 DEF Remaining
      <4>2. QED  BY <2>1, <2>2, <3>2, <4>1, BeforeAppend DEF TypeOK
    <3>3. QED  BY <2>3, <2>15, <3>1, <3>2
  <2>16. ASSUME NEW S \in SUBSET Listed(result'), S # {}
         PROVE  Rooted(S)
    <3>1. CASE S \ {n} = {}
      BY <2>2, <2>4, <2>16, <3>1 DEF Rooted, Remaining
    <3>2. CASE S \ {n} # {}
      <4>1. S \ {n} \in SUBSET Listed(result)
        BY <2>3
      <4>2. PICK m \in S \ {n} : \A e \in edges : e.target = m => e.source \notin S \ {n}
        BY <1>2, <3>2, <4>1 DEF Rooted
      <4>3. ASSUME NEW e \in edges, e.target = m
            PROVE  e.source # n
        <5>1. m \in Node /\ m \in Listed(result)
          BY <4>1 DEF Listed, TypeOK
        <5>2. Remaining(m) = {}
          BY <1>2, <5>1
        <5>3. QED  BY <2>2, <4>3, <5>2 DEF Remaining
      <4>4. QED  BY <4>2, <4>3 DEF Rooted
    <3>3. QED  BY <3>1, <3>2
  <2>17. QED
    <3>1. \A S : Rooted(S)' <=> Rooted(S)
      BY <1>1 DEF Rooted
    <3>2. Listed(result)' = Listed(result') /\ Listed(queue)' = Listed(queue')
          /\ IsInjective(queue)' = IsInjective(queue')
      BY DEF Listed, IsInjective
    <3>3. QED
      BY <1>1, <2>6, <2>11, <2>12, <2>13, <2>14, <2>15, <2>16, <3>1, <3>2 DEF SortInv
<1>5. QED
  <2>1. ~CascadeStep /\ ~LeaveNode /\ \A t : ~StartSearch(t) /\ ~SearchStep(t) /\ ~StartCascade(t)
    BY DEF TypeOK, CascadeStep, LeaveNode, StartSearch, SearchStep, StartCascade
  <2>2. Return => UNCHANGED <<queue, inDegree, result>>
    BY DEF Return
  <2>3. QED  BY <1>3, <1>4, <2>1, <2>2 DEF Next, vars

-----------------------------------------------------------------------------
(* The stack of a search: a call is entered, goes on, and ends.            *)
LEMMA StackMoves ==
  ASSUME NEW S, NEW s \in Seq(S), s # <<>>, NEW a \in S, NEW b \in S
  PROVE  /\ Len(s) \in Nat \ {0} /\ DOMAIN s = 1..Len(s)
         /\ \A i \in 1..Len(s) : s[i] \in S
         /\ LET t == <<a, b>> \o Tail(s)
            IN  /\ Len(t) = Len(s) + 1 /\ DOMAIN t = 1..Len(s) + 1
                /\ t[1] = a /\ t[2] = b /\ \A i \in 3..Len(s) + 1 : t[i] = s[i - 1]
         /\ LET t == <<b>> \o Tail(s)
            IN  /\ Len(t) = Len(s) /\ DOMAIN t = 1..Len(s)
                /\ t[1] = b /\ \A i \in 2..Len(s) : t[i] = s[i]
         /\ LET t == Tail(s)
            IN  /\ Len(t) = Len(s) - 1 /\ DOMAIN t = 1..Len(s) - 1
                /\ \A i \in 1..Len(s) - 1 : t[i] = s[i + 1]
<1>1. /\ Len(s) \in Nat \ {0} /\ DOMAIN s = 1..Len(s)
      /\ \A i \in 1..Len(s) : s[i] \in S
  OBVIOUS
<1>2. /\ Tail(s) \in Seq(S) /\ Len(Tail(s)) = Len(s) - 1
      /\ DOMAIN Tail(s) = 1..Len(s) - 1
      /\ \A i \in 1..Len(s) - 1 : Tail(s)[i] = s[i + 1]
  OBVIOUS
<1>3. LET t == <<a, b>> \o Tail(s)
      IN  /\ Len(t) = Len(s) + 1 /\ DOMAIN t = 1..Len(s) + 1
          /\ t[1] = a /\ t[2] = b /\ \A i \in 3..Len(s) + 1 : t[i] = s[i - 1]
  BY <1>1, <1>2
<1>4. LET t == <<b>> \o Tail(s)
      IN  /\ Len(t) = Len(s) /\ DOMAIN t = 1..Len(s)
          /\ t[1] = b /\ \A i \in 2..Len(s) : t[i] = s[i]
  BY <1>1, <1>2
<1>5. QED  BY <1>1, <1>2, <1>3, <1>4

(* A set of nodes each of which has a parent in the set is a cycle.        *)
LEMMA NoRootNoOrder ==
  ASSUME NEW S \in SUBSET Node, S # {},
         \A n \in S : \E e \in edges : e.target = n /\ e.source \in S
  PROVE  ~Graph!Acyclic
  BY AcyclicMeans DEF Rooted

-----------------------------------------------------------------------------
(***************************************************************************)
(* The detector has left the nodes that it has visited and that are not on *)
(* the stack; they lead nowhere else and have no cycle among them.  The    *)
(* stack is a path of the flow without repetition.                         *)
(***************************************************************************)
LeftBehind == visited \ OnStack

OnAPath ==
  /\ OnStack \subseteq visited
  /\ \A i, j \in DOMAIN stack : stack[i].node = stack[j].node => i = j
  /\ \A i \in 1..Len(stack) - 1 :
       \E e \in edges : e.source = stack[i + 1].node /\ e.target = stack[i].node
  /\ \A i \in DOMAIN stack : \A e \in stack[i].edges : e.source = stack[i].node
  /\ \A i \in DOMAIN stack : \A e \in edges \ stack[i].edges :
       e.source = stack[i].node =>
         e.target \in LeftBehind \/ (i > 1 /\ e.target = stack[i - 1].node)

DetectInv ==
  operation = "detect" =>
    /\ Node \ visited \subseteq left
    /\ hasCycle => ~Graph!Acyclic
    /\ ~hasCycle =>
         /\ OnAPath
         /\ \A e \in edges : e.source \in LeftBehind => e.target \in LeftBehind
         /\ \A S \in SUBSET LeftBehind : S # {} => Rooted(S)

(* The detector begins in its invariant.                                   *)
LEMMA DetectInit ==
  Init => DetectInv
  BY DEF Init, DetectInv, OnAPath, LeftBehind, OnStack

(* Every step keeps the invariant of the detector.                         *)
LEMMA DetectKept ==
  TypeOK /\ DetectInv /\ [Next]_vars => DetectInv'
<1> SUFFICES ASSUME TypeOK, DetectInv, [Next]_vars, operation = "detect" PROVE DetectInv'
  BY ArgumentsKept DEF DetectInv
<1>1. UNCHANGED <<operation, edges>>
  BY ArgumentsKept
<1>2. Graph!Acyclic' <=> Graph!Acyclic
  BY <1>1 DEF Graph!Acyclic, Graph!Parents, Graph!Incoming
<1>3. \A S : Rooted(S)' <=> Rooted(S)
  BY <1>1 DEF Rooted
<1>4. /\ Node \ visited \subseteq left
      /\ hasCycle => ~Graph!Acyclic
  BY DEF DetectInv
<1>5. CASE UNCHANGED <<left, visited, stack, hasCycle>>
  <2>1. OnStack' = OnStack /\ LeftBehind' = LeftBehind
    BY <1>5 DEF OnStack, LeftBehind
  <2>2. OnAPath' <=> OnAPath
    BY <1>1, <1>5, <2>1 DEF OnAPath
  <2>3. QED  BY <1>1, <1>2, <1>3, <1>5, <2>1, <2>2 DEF DetectInv
<1>6. ASSUME ~hasCycle
      PROVE  /\ OnAPath
             /\ \A e \in edges : e.source \in LeftBehind => e.target \in LeftBehind
             /\ \A S \in SUBSET LeftBehind : S # {} => Rooted(S)
  BY <1>6 DEF DetectInv
<1>7. ASSUME ~hasCycle, ~hasCycle', Node \ visited' \subseteq left', OnAPath',
             LeftBehind' = LeftBehind
      PROVE  DetectInv'
  BY <1>1, <1>3, <1>6, <1>7 DEF DetectInv
<1>8. ASSUME NEW n \in Node, StartSearch(n) PROVE DetectInv'
  <2>1. stack = <<>> /\ ~hasCycle /\ hasCycle' = hasCycle /\ left' = left \ {n}
    BY <1>8 DEF StartSearch
  <2>2. OnStack = {} /\ LeftBehind = visited
    BY <2>1 DEF OnStack, LeftBehind
  <2>3. CASE n \in visited
    <3>1. visited' = visited /\ stack' = stack
      BY <1>8, <2>3 DEF StartSearch
    <3>2. OnStack' = OnStack /\ LeftBehind' = LeftBehind
      BY <3>1 DEF OnStack, LeftBehind
    <3>3. OnAPath'
      <4>1. DOMAIN stack' = {} /\ 1..Len(stack') - 1 = {} /\ OnStack' = {}
        BY <2>1, <2>2, <3>1, <3>2
      <4>2. QED  BY <4>1 DEF OnAPath
    <3>4. QED  BY <1>4, <1>7, <2>1, <2>3, <3>1, <3>2, <3>3
  <2>4. CASE n \notin visited
    <3>1. visited' = visited \cup {n} /\ stack' = <<[node |-> n, edges |-> Graph!Outgoing(n)]>>
      BY <1>8, <2>4 DEF StartSearch, Enter
    <3>2. /\ DOMAIN stack' = {1} /\ Len(stack') = 1
          /\ stack'[1].node = n /\ stack'[1].edges = Graph!Outgoing(n)
      BY <3>1
    <3>3. OnStack' = {n} /\ LeftBehind' = LeftBehind
      BY <2>2, <2>4, <3>1, <3>2 DEF OnStack, LeftBehind
    <3>4. OnAPath'
      BY <1>1, <3>1, <3>2, <3>3 DEF OnAPath, Graph!Outgoing
    <3>5. Node \ visited' \subseteq left'
      BY <1>4, <2>1, <3>1
    <3>6. QED  BY <1>7, <2>1, <3>3, <3>4, <3>5
  <2>5. QED  BY <2>3, <2>4
<1>9. ASSUME NEW e \in edges, SearchStep(e) PROVE DetectInv'
  <2> DEFINE m == e.target
             popped == [stack[1] EXCEPT !.edges = @ \ {e}]
  <2>1. /\ stack # <<>> /\ ~hasCycle /\ e \in stack[1].edges /\ left' = left
        /\ hasCycle' = (m \in visited /\ m \in OnStack)
    BY <1>9 DEF SearchStep, Neighbour, ClosesCycle
  <2>2. stack \in Seq(Frame) /\ m \in Node /\ stack[1] \in Frame
    BY <2>1, GraphTypes, ListedTail DEF TypeOK
  <2>3. /\ popped \in Frame /\ popped.node = stack[1].node
        /\ popped.edges = stack[1].edges \ {e}
        /\ [node |-> m, edges |-> Graph!Outgoing(m)] \in Frame
    BY <2>2, GraphTypes DEF Frame, TypeOK
  <2>4. OnAPath
    BY <1>6, <2>1
  <2>5. Len(stack) \in Nat \ {0} /\ DOMAIN stack = 1..Len(stack) /\ e.source = stack[1].node
    BY <2>1, <2>2, <2>3, <2>4, StackMoves DEF OnAPath
  <2> HIDE DEF popped
  <2>6. CASE m \notin visited
    <3>1. /\ stack' = <<[node |-> m, edges |-> Graph!Outgoing(m)], popped>> \o Tail(stack)
          /\ visited' = visited \cup {m} /\ ~hasCycle'
      BY <1>9, <2>1, <2>6 DEF SearchStep, Follow, Neighbour, Enter, popped
    <3>2. /\ Len(stack') = Len(stack) + 1 /\ DOMAIN stack' = 1..Len(stack) + 1
          /\ stack'[1] = [node |-> m, edges |-> Graph!Outgoing(m)] /\ stack'[2] = popped
          /\ \A i \in 3..Len(stack) + 1 : stack'[i] = stack[i - 1]
      BY <2>1, <2>2, <2>3, <3>1, StackMoves
    <3>3. /\ stack'[1].node = m /\ stack'[1].edges = Graph!Outgoing(m)
          /\ \A i \in 2..Len(stack) + 1 : stack'[i].node = stack[i - 1].node
          /\ \A i \in 2..Len(stack) + 1 : stack'[i].edges \subseteq stack[i - 1].edges
          /\ \A i \in 2..Len(stack) + 1 :
               stack[i - 1].edges \subseteq stack'[i].edges \cup {e}
          /\ \A i \in 3..Len(stack) + 1 : stack'[i].edges = stack[i - 1].edges
      BY <2>3, <2>5, <3>2
    <3>4. OnStack' = OnStack \cup {m}
      <4>1. ASSUME NEW i \in 1..Len(stack)
            PROVE  \E j \in DOMAIN stack' : stack'[j].node = stack[i].node
        <5>1. i + 1 \in 2..Len(stack) + 1 /\ (i + 1) - 1 = i /\ i + 1 \in DOMAIN stack'
          BY <2>5, <3>2
        <5>2. QED  BY <3>3, <5>1
      <4>2. ASSUME NEW i \in DOMAIN stack', i # 1
            PROVE  \E j \in DOMAIN stack : stack'[i].node = stack[j].node
        <5>1. i \in 2..Len(stack) + 1 /\ i - 1 \in DOMAIN stack
          BY <2>5, <3>2, <4>2
        <5>2. QED  BY <3>3, <5>1
      <4>3. 1 \in DOMAIN stack' /\ stack'[1].node = m
        BY <2>5, <3>2, <3>3
      <4>4. QED  BY <2>5, <4>1, <4>2, <4>3 DEF OnStack
    <3>5. LeftBehind' = LeftBehind
      BY <2>6, <3>1, <3>4 DEF LeftBehind
    <3>6. OnStack' \subseteq visited'
      BY <2>4, <3>1, <3>4 DEF OnAPath
    <3>7. ASSUME NEW i \in DOMAIN stack', NEW j \in DOMAIN stack',
                 stack'[i].node = stack'[j].node
          PROVE  i = j
      <4>1. \A k \in 1..Len(stack) : stack[k].node # m
        BY <2>4, <2>5, <2>6 DEF OnAPath, OnStack
      <4>2. CASE i = 1 \/ j = 1
        BY <2>5, <3>2, <3>3, <3>7, <4>1, <4>2
      <4>3. CASE i # 1 /\ j # 1
        <5>1. /\ i \in 2..Len(stack) + 1 /\ j \in 2..Len(stack) + 1
              /\ i - 1 \in DOMAIN stack /\ j - 1 \in DOMAIN stack
          BY <2>5, <3>2, <4>3
        <5>2. stack[i - 1].node = stack[j - 1].node
          BY <3>3, <3>7, <5>1
        <5>3. i - 1 = j - 1
          BY <2>4, <5>1, <5>2 DEF OnAPath
        <5>4. QED  BY <2>5, <5>1, <5>3
      <4>4. QED  BY <4>2, <4>3
    <3>8. ASSUME NEW i \in 1..Len(stack') - 1
          PROVE  \E d \in edges : d.source = stack'[i + 1].node /\ d.target = stack'[i].node
      <4>1. CASE i = 1
        <5>1. stack'[2].node = stack[1].node
          BY <2>3, <3>2
        <5>2. QED  BY <2>5, <3>3, <4>1, <5>1
      <4>2. CASE i # 1
        <5>1. i - 1 \in 1..Len(stack) - 1 /\ (i - 1) + 1 = i /\ (i + 1) - 1 = i
              /\ i \in 2..Len(stack) + 1 /\ i + 1 \in 2..Len(stack) + 1
          BY <2>5, <3>2, <4>2
        <5>2. \E d \in edges : d.source = stack[(i - 1) + 1].node /\ d.target = stack[i - 1].node
          BY <2>4, <5>1 DEF OnAPath
        <5>3. stack'[i + 1].node = stack[i].node /\ stack'[i].node = stack[i - 1].node
          BY <3>3, <5>1
        <5>4. QED  BY <5>1, <5>2, <5>3
      <4>3. QED  BY <4>1, <4>2
    <3>9. ASSUME NEW i \in DOMAIN stack', NEW d \in stack'[i].edges
          PROVE  d.source = stack'[i].node
      <4>1. CASE i = 1
        BY <3>3, <3>9, <4>1 DEF Graph!Outgoing
      <4>2. CASE i # 1
        <5>1. i \in 2..Len(stack) + 1 /\ i - 1 \in DOMAIN stack
          BY <2>5, <3>2, <4>2
        <5>2. d \in stack[i - 1].edges /\ stack'[i].node = stack[i - 1].node
          BY <3>3, <5>1
        <5>3. QED  BY <2>4, <5>1, <5>2 DEF OnAPath
      <4>3. QED  BY <4>1, <4>2
    <3>10. ASSUME NEW i \in DOMAIN stack', NEW d \in edges \ stack'[i].edges,
                  d.source = stack'[i].node
           PROVE  d.target \in LeftBehind \/ (i > 1 /\ d.target = stack'[i - 1].node)
      <4>1. CASE i = 1
        BY <3>3, <3>10, <4>1 DEF Graph!Outgoing
      <4>2. CASE i = 2
        <5>1. d.source = stack[1].node /\ (d \in edges \ stack[1].edges \/ d = e)
          BY <2>3, <3>2, <3>10, <4>2
        <5>2. d = e \/ d.target \in LeftBehind
          BY <2>4, <2>5, <5>1 DEF OnAPath
        <5>3. QED  BY <3>3, <4>2, <5>2
      <4>3. CASE i > 2
        <5>1. /\ i \in 3..Len(stack) + 1 /\ i - 1 \in DOMAIN stack /\ i - 1 > 1
              /\ i \in 2..Len(stack) + 1 /\ i - 1 \in 2..Len(stack) + 1
          BY <2>5, <3>2, <4>3
        <5>2. d \in edges \ stack[i - 1].edges /\ d.source = stack[i - 1].node
          BY <3>3, <3>10, <5>1
        <5>3. d.target \in LeftBehind \/ d.target = stack[(i - 1) - 1].node
          BY <2>4, <5>1, <5>2 DEF OnAPath
        <5>4. stack'[i - 1].node = stack[(i - 1) - 1].node
          BY <3>3, <5>1
        <5>5. i > 1
          BY <2>5, <5>1
        <5>6. QED  BY <5>3, <5>4, <5>5
      <4>4. QED  BY <3>2, <4>1, <4>2, <4>3
    <3>11. OnAPath'
      BY <1>1, <3>5, <3>6, <3>7, <3>8, <3>9, <3>10 DEF OnAPath
    <3>12. Node \ visited' \subseteq left'
      BY <1>4, <2>1, <3>1
    <3>13. QED  BY <1>7, <2>1, <3>1, <3>5, <3>11, <3>12
  <2>7. CASE m \in visited /\ m \notin OnStack
    <3>1. stack' = <<popped>> \o Tail(stack) /\ visited' = visited /\ ~hasCycle'
      BY <1>9, <2>1, <2>7 DEF SearchStep, Follow, Neighbour, popped
    <3>2. /\ Len(stack') = Len(stack) /\ DOMAIN stack' = DOMAIN stack
          /\ stack'[1] = popped /\ \A i \in 2..Len(stack) : stack'[i] = stack[i]
      BY <2>1, <2>2, <2>3, <2>5, <3>1, StackMoves
    <3>3. /\ \A i \in 1..Len(stack) : stack'[i].node = stack[i].node
          /\ \A i \in 1..Len(stack) : stack'[i].edges \subseteq stack[i].edges
          /\ \A i \in 1..Len(stack) : stack[i].edges \subseteq stack'[i].edges \cup {e}
      BY <2>3, <2>5, <3>2
    <3>4. OnStack' = OnStack /\ LeftBehind' = LeftBehind
      <4>1. OnStack' = OnStack
        BY <2>5, <3>2, <3>3 DEF OnStack
      <4>2. QED  BY <3>1, <4>1 DEF LeftBehind
    <3>5. m \in LeftBehind
      BY <2>7 DEF LeftBehind
    <3>6. ASSUME NEW i \in DOMAIN stack', NEW d \in edges \ stack'[i].edges,
                 d.source = stack'[i].node
          PROVE  d.target \in LeftBehind \/ (i > 1 /\ d.target = stack'[i - 1].node)
      <4>1. i \in DOMAIN stack /\ d.source = stack[i].node
            /\ (d \in edges \ stack[i].edges \/ d = e)
        BY <2>5, <3>2, <3>3, <3>6
      <4>2. i > 1 => stack'[i - 1].node = stack[i - 1].node
        BY <2>5, <3>3, <4>1
      <4>3. QED  BY <2>4, <3>5, <4>1, <4>2 DEF OnAPath
    <3>7. ASSUME NEW i \in 1..Len(stack') - 1
          PROVE  \E d \in edges : d.source = stack'[i + 1].node /\ d.target = stack'[i].node
      BY <2>4, <2>5, <3>2, <3>3 DEF OnAPath
    <3>8. OnAPath'
      <4>1. OnStack' \subseteq visited'
        BY <2>4, <3>1, <3>4 DEF OnAPath
      <4>2. \A i, j \in DOMAIN stack' : stack'[i].node = stack'[j].node => i = j
        BY <2>4, <2>5, <3>2, <3>3 DEF OnAPath
      <4>3. \A i \in DOMAIN stack' : \A d \in stack'[i].edges : d.source = stack'[i].node
        BY <2>4, <2>5, <3>2, <3>3 DEF OnAPath
      <4>4. QED  BY <1>1, <3>4, <3>6, <3>7, <4>1, <4>2, <4>3 DEF OnAPath
    <3>9. QED  BY <1>4, <1>7, <2>1, <3>1, <3>4, <3>8
  <2>8. CASE m \in visited /\ m \in OnStack
    <3>1. hasCycle' /\ visited' = visited
      BY <1>9, <2>1, <2>8 DEF SearchStep, Follow, Neighbour
    <3>2. PICK k \in 1..Len(stack) : stack[k].node = m
      BY <2>5, <2>8 DEF OnStack
    <3> DEFINE cycle == {stack[i].node : i \in 1..k}
    <3>3. cycle \in SUBSET Node /\ m \in cycle /\ stack[1].node \in cycle
      <4>1. \A i \in 1..k : i \in DOMAIN stack /\ stack[i].node \in Node
        <5>1. \A i \in 1..Len(stack) : stack[i] \in Frame
          BY <2>1, <2>2, StackMoves
        <5>2. QED  BY <2>5, <3>2, <5>1 DEF Frame
      <4>2. QED  BY <2>5, <3>2, <4>1
    <3>4. ASSUME NEW i \in 1..k
          PROVE  \E d \in edges : d.target = stack[i].node /\ d.source \in cycle
      <4>1. CASE i = k
        BY <2>5, <3>2, <3>3, <4>1
      <4>2. CASE i # k
        <5>1. i \in 1..Len(stack) - 1 /\ i + 1 \in 1..k
          BY <2>5, <3>2, <4>2
        <5>2. QED  BY <2>4, <5>1 DEF OnAPath
      <4>3. QED  BY <4>1, <4>2
    <3>5. ~Graph!Acyclic
      <4>1. \A n \in cycle : \E d \in edges : d.target = n /\ d.source \in cycle
        BY <3>4
      <4> HIDE DEF cycle
      <4>2. QED  BY <3>3, <4>1, NoRootNoOrder
    <3>6. QED  BY <1>1, <1>2, <1>4, <2>1, <3>1, <3>5 DEF DetectInv
  <2>9. QED  BY <2>6, <2>7, <2>8
<1>10. CASE LeaveNode
  <2> DEFINE n == stack[1].node
  <2>1. /\ stack # <<>> /\ ~hasCycle /\ hasCycle' = hasCycle /\ stack[1].edges = {}
        /\ stack' = Tail(stack) /\ visited' = visited /\ left' = left
    BY <1>10 DEF LeaveNode
  <2>2. stack \in Seq(Frame) /\ stack[1] \in Frame
    BY <2>1, ListedTail DEF TypeOK
  <2>3. OnAPath
    BY <1>6, <2>1
  <2>4. /\ Len(stack) \in Nat \ {0} /\ DOMAIN stack = 1..Len(stack)
        /\ Len(stack') = Len(stack) - 1 /\ DOMAIN stack' = 1..Len(stack) - 1
        /\ \A i \in 1..Len(stack) - 1 : stack'[i] = stack[i + 1]
    BY <2>1, <2>2, StackMoves
  <2>5. n \in OnStack /\ OnStack' = OnStack \ {n}
    <3>1. ASSUME NEW i \in DOMAIN stack'
          PROVE  stack'[i].node \in OnStack \ {n}
      <4>1. /\ i + 1 \in DOMAIN stack /\ 1 \in DOMAIN stack /\ i + 1 # 1
            /\ stack'[i].node = stack[i + 1].node
        BY <2>4
      <4>2. QED  BY <2>3, <4>1 DEF OnStack, OnAPath
    <3>2. ASSUME NEW i \in DOMAIN stack, stack[i].node # n
          PROVE  stack[i].node \in OnStack'
      <4>1. i - 1 \in DOMAIN stack' /\ stack'[i - 1] = stack[i]
        BY <2>4, <3>2
      <4>2. QED  BY <4>1 DEF OnStack
    <3>3. 1 \in DOMAIN stack
      BY <2>4
    <3>4. QED  BY <3>1, <3>2, <3>3 DEF OnStack
  <2>6. n \in visited /\ LeftBehind' = LeftBehind \cup {n} /\ n \notin LeftBehind
    BY <2>1, <2>3, <2>5 DEF LeftBehind, OnAPath
  <2>7. \A e \in edges : e.source = n => e.target \in LeftBehind
    BY <2>1, <2>3, <2>4 DEF OnAPath
  <2>8. \A e \in edges : e.source \in LeftBehind => e.target \in LeftBehind
    BY <1>6, <2>1
  <2>9. \A e \in edges : e.source \in LeftBehind' => e.target \in LeftBehind'
    BY <2>6, <2>7, <2>8
  <2>10. ASSUME NEW S \in SUBSET LeftBehind', S # {}
         PROVE  Rooted(S)
    <3>1. CASE n \in S
      BY <2>6, <2>7, <2>8, <3>1 DEF Rooted
    <3>2. CASE n \notin S
      BY <1>6, <2>1, <2>6, <2>10, <3>2
    <3>3. QED  BY <3>1, <3>2
  <2>11. ASSUME NEW i \in DOMAIN stack', NEW d \in edges \ stack'[i].edges,
                d.source = stack'[i].node
         PROVE  d.target \in LeftBehind' \/ (i > 1 /\ d.target = stack'[i - 1].node)
    <3>1. /\ i + 1 \in DOMAIN stack /\ stack'[i] = stack[i + 1] /\ (i + 1) - 1 = i
      BY <2>4
    <3>2. d.target \in LeftBehind \/ d.target = stack[i].node
      BY <2>3, <2>11, <3>1 DEF OnAPath
    <3>3. i > 1 => stack'[i - 1] = stack[i]
      BY <2>4
    <3>4. CASE i = 1
      BY <2>6, <3>2, <3>4
    <3>5. CASE i # 1
      BY <2>4, <2>6, <3>2, <3>3, <3>5
    <3>6. QED  BY <3>4, <3>5
  <2>12. ASSUME NEW i \in DOMAIN stack', NEW j \in DOMAIN stack',
                stack'[i].node = stack'[j].node
         PROVE  i = j
    <3>1. i + 1 \in DOMAIN stack /\ j + 1 \in DOMAIN stack
          /\ stack[i + 1].node = stack[j + 1].node
      BY <2>4, <2>12
    <3>2. i + 1 = j + 1
      BY <2>3, <3>1 DEF OnAPath
    <3>3. QED  BY <2>4, <3>2
  <2>13. ASSUME NEW i \in 1..Len(stack') - 1
         PROVE  \E d \in edges : d.source = stack'[i + 1].node /\ d.target = stack'[i].node
    <3>1. /\ i + 1 \in 1..Len(stack) - 1
          /\ stack'[i] = stack[i + 1] /\ stack'[i + 1] = stack[(i + 1) + 1]
      BY <2>4
    <3>2. QED  BY <2>3, <3>1 DEF OnAPath
  <2>14. ASSUME NEW i \in DOMAIN stack', NEW d \in stack'[i].edges
         PROVE  d.source = stack'[i].node
    <3>1. i + 1 \in DOMAIN stack /\ stack'[i] = stack[i + 1]
      BY <2>4
    <3>2. QED  BY <2>3, <3>1 DEF OnAPath
  <2>15. OnAPath'
    BY <1>1, <2>1, <2>3, <2>5, <2>11, <2>12, <2>13, <2>14 DEF OnAPath
  <2>16. QED  BY <1>1, <1>3, <1>4, <2>1, <2>9, <2>10, <2>15 DEF DetectInv
<1>11. QED
  <2>1. ~CascadeStep /\ ~SortStep /\ \A t : ~StartCascade(t)
    BY DEF TypeOK, CascadeStep, SortStep, StartCascade
  <2>2. Return => UNCHANGED <<left, visited, stack, hasCycle>>
    BY DEF Return
  <2>3. QED  BY <1>5, <1>8, <1>9, <1>10, <2>1, <2>2 DEF Next, vars

-----------------------------------------------------------------------------
(***************************************************************************)
(* The search for a path stays upstream of its target.  What it has listed *)
(* and looked at has its parents visited; what is visited is listed or a   *)
(* dependency on the stack.  The stack is a path of the flow, so that a    *)
(* parent of the node on top that is on it too closes a cycle.             *)
(***************************************************************************)
Inner == {stack[i].node : i \in 1..Len(stack) - 1}

UpstreamClosed(T) == targets \subseteq T /\ \A e \in edges : e.target \in T => e.source \in T

PathInv ==
  operation = "path" =>
    /\ ~hasCycle /\ \E t \in Node : targets = {t}
    /\ \/ left = targets /\ stack = <<>> /\ visited = {} /\ result = <<>>
       \/ /\ left = {}
          /\ stack # <<>> => stack[Len(stack)].node \in targets
          /\ stack = <<>> => \A e \in edges : e.target \in targets => e.source \in visited
    /\ visited = Listed(result) \cup Inner
    /\ \A T \in SUBSET Node : UpstreamClosed(T) => visited \cup OnStack \subseteq T
    /\ \A e \in edges : e.target \in Listed(result) => e.source \in visited
    /\ \A i \in 1..Len(stack) - 1 :
         \E e \in edges : e.target = stack[i + 1].node /\ e.source = stack[i].node
    /\ \A i \in DOMAIN stack : \A e \in stack[i].edges : e.target = stack[i].node
    /\ \A i \in DOMAIN stack : \A e \in edges \ stack[i].edges :
         e.target = stack[i].node => e.source \in visited
    /\ Graph!Acyclic =>
         \A e \in edges : e.target \in Listed(result) => Before(e.source, e.target)

(* The search for a path begins in its invariant.                          *)
LEMMA PathInit ==
  Init => PathInv
<1> SUFFICES ASSUME Init, operation = "path" PROVE PathInv
  BY DEF PathInv
<1>1. /\ stack = <<>> /\ visited = {} /\ result = <<>> /\ ~hasCycle /\ left = targets
      /\ \E t \in Node : targets = {t}
  BY DEF Init
<1>2. /\ DOMAIN stack = {} /\ 1..Len(stack) - 1 = {} /\ Inner = {} /\ OnStack = {}
      /\ Listed(result) = {}
  BY <1>1 DEF Inner, OnStack, Listed
<1>3. QED  BY <1>1, <1>2 DEF PathInv

(* Every step keeps the invariant of the search.                           *)
LEMMA PathKept ==
  TypeOK /\ PathInv /\ [Next]_vars => PathInv'
<1> SUFFICES ASSUME TypeOK, PathInv, [Next]_vars, operation = "path" PROVE PathInv'
  BY ArgumentsKept DEF PathInv
<1>1. UNCHANGED <<operation, edges, targets>>
  BY ArgumentsKept
<1>2. /\ Graph!Acyclic' <=> Graph!Acyclic
      /\ \A T : UpstreamClosed(T)' <=> UpstreamClosed(T)
  BY <1>1 DEF Graph!Acyclic, Graph!Parents, Graph!Incoming, UpstreamClosed
<1>3. /\ ~hasCycle /\ \E t \in Node : targets = {t}
      /\ \/ left = targets /\ stack = <<>> /\ visited = {} /\ result = <<>>
         \/ /\ left = {}
            /\ stack # <<>> => stack[Len(stack)].node \in targets
            /\ stack = <<>> => \A e \in edges : e.target \in targets => e.source \in visited
      /\ visited = Listed(result) \cup Inner
      /\ \A T \in SUBSET Node : UpstreamClosed(T) => visited \cup OnStack \subseteq T
      /\ \A e \in edges : e.target \in Listed(result) => e.source \in visited
  BY DEF PathInv
<1>4. /\ \A i \in 1..Len(stack) - 1 :
           \E e \in edges : e.target = stack[i + 1].node /\ e.source = stack[i].node
      /\ \A i \in DOMAIN stack : \A e \in stack[i].edges : e.target = stack[i].node
      /\ \A i \in DOMAIN stack : \A e \in edges \ stack[i].edges :
           e.target = stack[i].node => e.source \in visited
  BY DEF PathInv
<1>5. Graph!Acyclic =>
        \A e \in edges : e.target \in Listed(result) => Before(e.source, e.target)
  BY DEF PathInv
<1>6. CASE UNCHANGED <<left, visited, stack, result, hasCycle>>
  <2>1. /\ OnStack' = OnStack /\ Inner' = Inner /\ Listed(result)' = Listed(result)
        /\ \A p, n : Before(p, n)' <=> Before(p, n)
    BY <1>6 DEF OnStack, Inner, Listed, Before
  <2>2. QED  BY <1>1, <1>2, <1>3, <1>4, <1>5, <1>6, <2>1 DEF PathInv
<1>7. ASSUME NEW n \in Node, StartSearch(n) PROVE PathInv'
  <2>1. stack = <<>> /\ n \in left /\ left' = left \ {n} /\ hasCycle' = hasCycle
        /\ result' = result
    BY <1>7 DEF StartSearch
  <2>2. left = targets /\ targets = {n} /\ visited = {} /\ result = <<>>
    BY <1>3, <2>1
  <2>3. visited' = {} /\ stack' = <<[node |-> n, edges |-> Graph!Incoming(n)]>> /\ left' = {}
    BY <1>7, <2>1, <2>2 DEF StartSearch, Enter
  <2>4. /\ DOMAIN stack' = {1} /\ Len(stack') = 1 /\ 1..Len(stack') - 1 = {}
        /\ stack'[1].node = n /\ stack'[1].edges = Graph!Incoming(n)
    BY <2>3
  <2>5. /\ OnStack' = {n} /\ Inner' = {} /\ Listed(result)' = {}
    BY <2>1, <2>2, <2>4 DEF OnStack, Inner, Listed
  <2>6. \A T : UpstreamClosed(T) => n \in T
    BY <2>2 DEF UpstreamClosed
  <2>7. \A e \in edges : e.target = n <=> e \in Graph!Incoming(n)
    BY DEF Graph!Incoming
  <2>8. /\ ~hasCycle' /\ \E t \in Node : targets' = {t}
        /\ stack' # <<>> /\ stack'[Len(stack')].node \in targets'
    BY <1>1, <1>3, <2>1, <2>2, <2>4
  <2>9. /\ \A e \in Graph!Incoming(n) : e.target = n
        /\ \A e \in edges \ Graph!Incoming(n) : e.target # n
    BY DEF Graph!Incoming
  <2>10. /\ \A T \in SUBSET Node : UpstreamClosed(T)' => visited' \cup OnStack' \subseteq T
         /\ visited' = Listed(result)' \cup Inner'
    BY <1>2, <2>3, <2>5, <2>6
  <2>11. QED
    BY <1>1, <2>3, <2>4, <2>5, <2>8, <2>9, <2>10 DEF PathInv
<1>8. ASSUME NEW e \in edges, SearchStep(e) PROVE PathInv'
  <2> DEFINE m == e.source
             popped == [stack[1] EXCEPT !.edges = @ \ {e}]
  <2>1. /\ stack # <<>> /\ e \in stack[1].edges /\ left' = left /\ result' = result
        /\ ~hasCycle'
    BY <1>8 DEF SearchStep
  <2>2. stack \in Seq(Frame) /\ m \in Node /\ stack[1] \in Frame
    BY <2>1, GraphTypes, ListedTail DEF TypeOK
  <2>3. /\ popped \in Frame /\ popped.node = stack[1].node
        /\ popped.edges = stack[1].edges \ {e}
        /\ [node |-> m, edges |-> Graph!Incoming(m)] \in Frame
    BY <2>2, GraphTypes DEF Frame, TypeOK
  <2>4. Len(stack) \in Nat \ {0} /\ DOMAIN stack = 1..Len(stack) /\ e.target = stack[1].node
    BY <1>4, <2>1, <2>2, <2>3, StackMoves
  <2>5. stack[Len(stack)].node \in targets /\ left = {}
    BY <1>3, <2>1
  <2>6. Listed(result)' = Listed(result) /\ \A p, n : Before(p, n)' <=> Before(p, n)
    BY <2>1 DEF Listed, Before
  <2>7. \A T \in SUBSET Node : UpstreamClosed(T) => m \in T
    BY <1>3, <2>4 DEF UpstreamClosed, OnStack
  <2> HIDE DEF popped
  <2>8. CASE m \notin visited
    <3>1. /\ stack' = <<[node |-> m, edges |-> Graph!Incoming(m)], popped>> \o Tail(stack)
          /\ visited' = visited \cup {m}
      BY <1>8, <2>1, <2>8 DEF SearchStep, Follow, Neighbour, Enter, popped
    <3>2. /\ Len(stack') = Len(stack) + 1 /\ DOMAIN stack' = 1..Len(stack) + 1
          /\ stack'[1] = [node |-> m, edges |-> Graph!Incoming(m)] /\ stack'[2] = popped
          /\ \A i \in 3..Len(stack) + 1 : stack'[i] = stack[i - 1]
      BY <2>1, <2>2, <2>3, <3>1, StackMoves
    <3>3. /\ stack'[1].node = m /\ stack'[1].edges = Graph!Incoming(m)
          /\ \A i \in 2..Len(stack) + 1 : stack'[i].node = stack[i - 1].node
          /\ \A i \in 2..Len(stack) + 1 : stack'[i].edges \subseteq stack[i - 1].edges
          /\ \A i \in 2..Len(stack) + 1 :
               stack[i - 1].edges \subseteq stack'[i].edges \cup {e}
      BY <2>3, <2>4, <3>2
    <3>4. ASSUME NEW k \in 1..Len(stack)
          PROVE  {stack'[i].node : i \in 1..k + 1} = {m} \cup {stack[i].node : i \in 1..k}
      <4>1. ASSUME NEW i \in 1..k
            PROVE  stack[i].node \in {stack'[j].node : j \in 1..k + 1}
        <5>1. i + 1 \in 2..Len(stack) + 1 /\ (i + 1) - 1 = i /\ i + 1 \in 1..k + 1
          BY <2>4
        <5>2. QED  BY <3>3, <5>1
      <4>2. ASSUME NEW i \in 1..k + 1, i # 1
            PROVE  stack'[i].node \in {stack[j].node : j \in 1..k}
        <5>1. i \in 2..Len(stack) + 1 /\ i - 1 \in 1..k
          BY <2>4, <4>2
        <5>2. QED  BY <3>3, <5>1
      <4>3. 1 \in 1..k + 1
        BY <2>4
      <4>4. QED  BY <3>3, <4>1, <4>2, <4>3
    <3>5. OnStack' = OnStack \cup {m}
      <4>1. Len(stack) \in 1..Len(stack)
        BY <2>4
      <4>2. QED  BY <2>4, <3>2, <3>4, <4>1 DEF OnStack
    <3>6. Inner' = Inner \cup {m}
      <4>1. CASE Len(stack) = 1
        <5>1. 1..Len(stack) - 1 = {} /\ 1..Len(stack') - 1 = {1}
          BY <3>2, <4>1
        <5>2. QED  BY <3>3, <5>1 DEF Inner
      <4>2. CASE Len(stack) # 1
        <5>1. /\ Len(stack) - 1 \in 1..Len(stack)
              /\ 1..Len(stack') - 1 = 1..(Len(stack) - 1) + 1
          BY <2>4, <3>2, <4>2
        <5>2. QED  BY <3>4, <5>1 DEF Inner
      <4>3. QED  BY <4>1, <4>2
    <3>7. stack' # <<>> /\ stack'[Len(stack')].node \in targets
      <4>1. Len(stack') \in 2..Len(stack) + 1 /\ Len(stack') - 1 = Len(stack)
        BY <2>4, <3>2
      <4>2. QED  BY <2>4, <2>5, <3>2, <3>3, <4>1
    <3>8. ASSUME NEW i \in 1..Len(stack') - 1
          PROVE  \E d \in edges : d.target = stack'[i + 1].node /\ d.source = stack'[i].node
      <4>1. CASE i = 1
        <5>1. stack'[2].node = stack[1].node
          BY <2>3, <3>2
        <5>2. QED  BY <2>4, <3>3, <4>1, <5>1
      <4>2. CASE i # 1
        <5>1. i - 1 \in 1..Len(stack) - 1 /\ (i - 1) + 1 = i /\ (i + 1) - 1 = i
              /\ i \in 2..Len(stack) + 1 /\ i + 1 \in 2..Len(stack) + 1
          BY <2>4, <3>2, <4>2
        <5>2. \E d \in edges : d.target = stack[(i - 1) + 1].node /\ d.source = stack[i - 1].node
          BY <1>4, <5>1
        <5>3. stack'[i + 1].node = stack[i].node /\ stack'[i].node = stack[i - 1].node
          BY <3>3, <5>1
        <5>4. QED  BY <5>1, <5>2, <5>3
      <4>3. QED  BY <4>1, <4>2
    <3>9. ASSUME NEW i \in DOMAIN stack'
          PROVE  /\ \A d \in stack'[i].edges : d.target = stack'[i].node
                 /\ \A d \in edges \ stack'[i].edges :
                      d.target = stack'[i].node => d.source \in visited'
      <4>1. CASE i = 1
        BY <3>3, <4>1 DEF Graph!Incoming
      <4>2. CASE i # 1
        <5>1. i \in 2..Len(stack) + 1 /\ i - 1 \in DOMAIN stack
          BY <2>4, <3>2, <4>2
        <5>2. QED  BY <1>4, <3>1, <3>3, <5>1
      <4>3. QED  BY <4>1, <4>2
    <3>10. /\ visited' = Listed(result)' \cup Inner'
           /\ \A T \in SUBSET Node : UpstreamClosed(T)' => visited' \cup OnStack' \subseteq T
           /\ \A d \in edges : d.target \in Listed(result) => d.source \in visited'
      BY <1>2, <1>3, <2>6, <2>7, <3>1, <3>5, <3>6
    <3>11. QED
      BY <1>1, <1>2, <1>3, <1>5, <2>1, <2>5, <2>6, <3>7, <3>8, <3>9, <3>10 DEF PathInv
  <2>9. CASE m \in visited
    <3>1. stack' = <<popped>> \o Tail(stack) /\ visited' = visited
      BY <1>8, <2>1, <2>9 DEF SearchStep, Follow, Neighbour, popped
    <3>2. /\ Len(stack') = Len(stack) /\ DOMAIN stack' = DOMAIN stack
          /\ stack'[1] = popped /\ \A i \in 2..Len(stack) : stack'[i] = stack[i]
      BY <2>1, <2>2, <2>3, <2>4, <3>1, StackMoves
    <3>3. /\ \A i \in 1..Len(stack) : stack'[i].node = stack[i].node
          /\ \A i \in 1..Len(stack) : stack'[i].edges \subseteq stack[i].edges
          /\ \A i \in 1..Len(stack) : stack[i].edges \subseteq stack'[i].edges \cup {e}
      BY <2>3, <2>4, <3>2
    <3>4. OnStack' = OnStack
      BY <2>4, <3>2, <3>3 DEF OnStack
    <3>5. Inner' = Inner
      <4>1. \A i \in 1..Len(stack) - 1 : i \in 1..Len(stack)
        BY <2>4
      <4>2. QED  BY <3>2, <3>3, <4>1 DEF Inner
    <3>6. stack' # <<>> /\ stack'[Len(stack')].node \in targets
      <4>1. Len(stack) \in 1..Len(stack)
        BY <2>4
      <4>2. QED  BY <2>4, <2>5, <3>2, <3>3, <4>1
    <3>7. ASSUME NEW i \in 1..Len(stack') - 1
          PROVE  \E d \in edges : d.target = stack'[i + 1].node /\ d.source = stack'[i].node
      BY <1>4, <2>4, <3>2, <3>3
    <3>8. ASSUME NEW i \in DOMAIN stack'
          PROVE  /\ \A d \in stack'[i].edges : d.target = stack'[i].node
                 /\ \A d \in edges \ stack'[i].edges :
                      d.target = stack'[i].node => d.source \in visited'
      BY <1>4, <2>4, <2>9, <3>1, <3>2, <3>3
    <3>9. QED
      BY <1>1, <1>2, <1>3, <1>5, <2>1, <2>5, <2>6, <3>1, <3>4, <3>5, <3>6, <3>7, <3>8 DEF PathInv
  <2>10. QED  BY <2>8, <2>9
<1>9. CASE LeaveNode
  <2> DEFINE n == stack[1].node
  <2>1. /\ stack # <<>> /\ ~hasCycle' /\ stack[1].edges = {} /\ left' = left
        /\ stack' = Tail(stack) /\ visited' = visited
        /\ result' = IF Len(stack) > 1 THEN Append(result, n) ELSE result
    BY <1>9 DEF LeaveNode
  <2>2. stack \in Seq(Frame) /\ stack[1] \in Frame /\ n \in Node
    <3>1. stack \in Seq(Frame) /\ stack[1] \in Frame
      BY <2>1, ListedTail DEF TypeOK
    <3>2. QED  BY <3>1 DEF Frame
  <2>3. /\ Len(stack) \in Nat \ {0} /\ DOMAIN stack = 1..Len(stack)
        /\ \A i \in 1..Len(stack) : stack[i] \in Frame
        /\ Len(stack') = Len(stack) - 1 /\ DOMAIN stack' = 1..Len(stack) - 1
        /\ \A i \in 1..Len(stack) - 1 : stack'[i] = stack[i + 1]
    BY <2>1, <2>2, StackMoves
  <2>4. \A e \in edges : e.target = n => e.source \in visited
    BY <1>4, <2>1, <2>3
  <2>5. OnStack' \subseteq OnStack
    <3>1. \A i \in DOMAIN stack' : i + 1 \in DOMAIN stack /\ stack'[i] = stack[i + 1]
      BY <2>3
    <3>2. QED  BY <3>1 DEF OnStack
  <2>6. stack[Len(stack)].node \in targets /\ left = {}
    BY <1>3, <2>1
  <2>7. /\ \A i \in 1..Len(stack') - 1 :
             \E e \in edges : e.target = stack'[i + 1].node /\ e.source = stack'[i].node
        /\ \A i \in DOMAIN stack' : \A e \in stack'[i].edges : e.target = stack'[i].node
        /\ \A i \in DOMAIN stack' : \A e \in edges \ stack'[i].edges :
             e.target = stack'[i].node => e.source \in visited
    <3>1. ASSUME NEW i \in 1..Len(stack') - 1
          PROVE  \E e \in edges : e.target = stack'[i + 1].node /\ e.source = stack'[i].node
      <4>1. /\ i + 1 \in 1..Len(stack) - 1
            /\ stack'[i] = stack[i + 1] /\ stack'[i + 1] = stack[(i + 1) + 1]
        BY <2>3
      <4>2. QED  BY <1>4, <4>1
    <3>2. ASSUME NEW i \in DOMAIN stack'
          PROVE  /\ \A e \in stack'[i].edges : e.target = stack'[i].node
                 /\ \A e \in edges \ stack'[i].edges :
                      e.target = stack'[i].node => e.source \in visited
      <4>1. i + 1 \in DOMAIN stack /\ stack'[i] = stack[i + 1]
        BY <2>3
      <4>2. QED  BY <1>4, <4>1
    <3>3. QED  BY <3>1, <3>2
  <2>8. CASE Len(stack) = 1
    <3>1. stack' = <<>> /\ result' = result /\ Inner = {} /\ Inner' = {}
      BY <2>1, <2>3, <2>8 DEF Inner
    <3>2. \A e \in edges : e.target \in targets => e.source \in visited
      BY <1>3, <2>4, <2>6, <2>8
    <3>3. Listed(result)' = Listed(result) /\ \A p, q : Before(p, q)' <=> Before(p, q)
      BY <3>1 DEF Listed, Before
    <3>4. QED
      BY <1>1, <1>2, <1>3, <1>5, <2>1, <2>5, <2>6, <2>7, <3>1, <3>2, <3>3 DEF PathInv
  <2>9. CASE Len(stack) > 1
    <3>1. result' = Append(result, n) /\ stack' # <<>>
      BY <2>1, <2>3, <2>9
    <3>2. Listed(result)' = Listed(result) \cup {n}
      <4>1. Listed(Append(result, n)) = Listed(result) \cup {n}
        BY <2>2, ListedAppend DEF TypeOK
      <4>2. QED  BY <3>1, <4>1 DEF Listed
    <3>3. Inner = Inner' \cup {n}
      <4>1. ASSUME NEW i \in 1..Len(stack) - 1, i # 1
            PROVE  stack[i].node \in Inner'
        <5>1. i - 1 \in 1..Len(stack') - 1 /\ stack'[i - 1] = stack[i]
          BY <2>3, <4>1
        <5>2. QED  BY <5>1 DEF Inner
      <4>2. ASSUME NEW i \in 1..Len(stack') - 1
            PROVE  stack'[i].node \in Inner
        <5>1. i + 1 \in 1..Len(stack) - 1 /\ stack'[i] = stack[i + 1]
          BY <2>3
        <5>2. QED  BY <5>1 DEF Inner
      <4>3. n \in Inner
        BY <2>3, <2>9 DEF Inner
      <4>4. QED  BY <4>1, <4>2, <4>3 DEF Inner
    <3>4. visited' = Listed(result)' \cup Inner'
      BY <1>3, <2>1, <3>2, <3>3
    <3>5. stack'[Len(stack')].node \in targets
      BY <2>3, <2>6, <2>9
    <3>6. ASSUME Graph!Acyclic, NEW e \in edges, e.target = n
          PROVE  e.source \in Listed(result)
      <4>1. SUFFICES ASSUME e.source \in Inner PROVE FALSE
        BY <1>3, <2>4, <3>6
      <4>2. PICK k \in 1..Len(stack) - 1 : stack[k].node = e.source
        BY <4>1 DEF Inner
      <4> DEFINE cycle == {stack[i].node : i \in 1..k}
      <4>3. cycle \in SUBSET Node /\ e.source \in cycle
        BY <2>3, <4>2 DEF Frame
      <4>4. ASSUME NEW i \in 1..k
            PROVE  \E d \in edges : d.target = stack[i].node /\ d.source \in cycle
        <5>1. CASE i = 1
          BY <3>6, <4>3, <5>1
        <5>2. CASE i # 1
          <6>1. i - 1 \in 1..Len(stack) - 1 /\ i - 1 \in 1..k /\ (i - 1) + 1 = i
            BY <2>3, <4>2, <5>2
          <6>2. QED  BY <1>4, <6>1
        <5>3. QED  BY <5>1, <5>2
      <4>5. \A q \in cycle : \E d \in edges : d.target = q /\ d.source \in cycle
        BY <4>4
      <4> HIDE DEF cycle
      <4>6. QED  BY <3>6, <4>3, <4>5, NoRootNoOrder
    <3>7. ASSUME Graph!Acyclic, NEW e \in edges, e.target \in Listed(result) \cup {n}
          PROVE  Before(e.source, e.target)'
      <4>1. CASE e.target \in Listed(result)
        BY <1>5, <2>2, <3>1, <3>7, <4>1, BeforeAppend DEF TypeOK
      <4>2. CASE e.target = n
        BY <2>2, <3>1, <3>6, <3>7, <4>2, BeforeAppend DEF TypeOK
      <4>3. QED  BY <3>7, <4>1, <4>2
    <3>8. \A e \in edges : e.target \in Listed(result) \cup {n} => e.source \in visited
      BY <1>3, <2>4
    <3>9. QED
      BY <1>1, <1>2, <1>3, <2>1, <2>5, <2>6, <2>7, <3>1, <3>2, <3>4, <3>5, <3>7, <3>8 DEF PathInv
  <2>10. QED  BY <2>3, <2>8, <2>9
<1>10. QED
  <2>1. ~CascadeStep /\ ~SortStep /\ \A t : ~StartCascade(t)
    BY DEF TypeOK, CascadeStep, SortStep, StartCascade
  <2>2. Return => UNCHANGED <<left, visited, stack, result, hasCycle>>
    BY DEF Return
  <2>3. QED  BY <1>6, <1>7, <1>8, <1>9, <2>1, <2>2 DEF Next, vars

-----------------------------------------------------------------------------
(* An operation returns when its work is done.                             *)

EndInv ==
  /\ hasCycle => operation = "detect"
  /\ call = "returned" => hasCycle \/ (queue = <<>> /\ left = {} /\ stack = <<>>)

Inv == TypeOK /\ CascadeInv /\ SortInv /\ DetectInv /\ PathInv /\ EndInv

(* Every step keeps that an operation ends with its work done.             *)
LEMMA EndKept ==
  TypeOK /\ EndInv /\ [Next]_vars => EndInv'
<1> SUFFICES ASSUME TypeOK, EndInv, [Next]_vars PROVE EndInv'
  OBVIOUS
<1>1. CASE \E t \in Node : StartCascade(t) \/ StartSearch(t)
  BY <1>1 DEF EndInv, StartCascade, StartSearch
<1>2. CASE CascadeStep \/ SortStep
  BY <1>2 DEF EndInv, CascadeStep, SortStep
<1>3. CASE \E e \in edges : SearchStep(e)
  BY <1>3 DEF EndInv, SearchStep
<1>4. CASE LeaveNode
  BY <1>4 DEF EndInv, LeaveNode
<1>5. CASE Return
  BY <1>5 DEF EndInv, Return
<1>6. CASE UNCHANGED vars
  BY <1>6 DEF EndInv, vars
<1>7. QED  BY <1>1, <1>2, <1>3, <1>4, <1>5, <1>6 DEF Next

(* The four invariants hold together, whatever the flow.                   *)
THEOREM Invariance ==
  Spec => []Inv
<1>1. Init => Inv
  <2>1. Init => EndInv
    BY DEF Init, EndInv
  <2>2. QED  BY <2>1, TypeInit, CascadeInit, SortInit, DetectInit, PathInit DEF Inv
<1>2. Inv /\ [Next]_vars => Inv'
  BY TypeStep, CascadeKept, SortKept, DetectKept, PathKept, EndKept DEF Inv
<1>3. QED  BY <1>1, <1>2, PTL DEF Spec

(***************************************************************************)
(* For every finite flow, markDownstreamNodesAsSkipped over the inactive   *)
(* targets of handleBranchSkipping returns the least closed skip set,      *)
(* whichever order it comes to them and to the edges in.                   *)
(***************************************************************************)
THEOREM CascadeIsLeastCorrect ==
  Spec => []CascadeIsLeast
<1>1. ASSUME Inv, Returned("cascade")
      PROVE  skips = Graph!MarkDownstreamNodesAsSkipped(targets, given \cup targets)
  <2>1. queue = <<>> /\ left = {} /\ operation = "cascade"
    BY <1>1 DEF Inv, EndInv, Returned
  <2>2. Listed(queue) = {}
    BY <2>1 DEF Listed
  <2>3. /\ given \cup targets \subseteq skips /\ skips \in SUBSET Node
        /\ \A T \in SUBSET Node : Graph!SkipClosed(T, targets, given \cup targets) => skips \subseteq T
        /\ \A e \in edges : (e.source \in targets \cup Added /\ AllParentsIn(e.target, skips))
             => e.target \in skips
    BY <1>1, <2>1, <2>2 DEF Inv, CascadeInv, TypeOK
  <2>4. Graph!SkipClosed(skips, targets, given \cup targets)
    BY <2>3 DEF Graph!SkipClosed, Graph!Children, Graph!Outgoing, Graph!ShouldNodeBeSkipped,
                Graph!Incoming, Graph!Parents, AllParentsIn, Added
  <2>5. QED  BY <2>3, <2>4 DEF Graph!MarkDownstreamNodesAsSkipped
<1>2. Inv => CascadeIsLeast
  BY <1>1 DEF CascadeIsLeast
<1>3. QED  BY <1>2, Invariance, PTL

(***************************************************************************)
(* For every finite flow, hasCycleDetection and topologicalSort refuse     *)
(* exactly the flows with a cycle, and the sort lists every node after its *)
(* parents.                                                                *)
(***************************************************************************)
THEOREM CyclesAreFoundCorrect ==
  Spec => []CyclesAreFound
<1>1. ASSUME Inv, Returned("detect")
      PROVE  hasCycle = ~Graph!Acyclic
  <2>1. CASE hasCycle
    BY <1>1, <2>1 DEF Inv, DetectInv, Returned
  <2>2. CASE ~hasCycle
    <3>1. stack = <<>> /\ left = {}
      BY <1>1, <2>2 DEF Inv, EndInv, Returned
    <3>2. LeftBehind = visited /\ Node \subseteq visited
      BY <1>1, <3>1 DEF Inv, DetectInv, Returned, LeftBehind, OnStack
    <3>3. \A S \in SUBSET Node : S # {} => Rooted(S)
      BY <1>1, <2>2, <3>2 DEF Inv, DetectInv, Returned
    <3>4. Graph!Acyclic
      BY <3>3, AcyclicMeans
    <3>5. QED  BY <1>1, <2>2, <3>4 DEF Inv, TypeOK
  <2>3. QED  BY <2>1, <2>2
<1>2. ASSUME Inv, Returned("sort")
      PROVE  /\ (Len(result) = Cardinality(Node)) = Graph!Acyclic
             /\ Graph!Acyclic => \A n \in Node : \A p \in Graph!Parents(n) : Before(p, n)
  <2>1. queue = <<>> /\ operation = "sort"
    BY <1>2 DEF Inv, EndInv, Returned
  <2>2. Listed(queue) = {} /\ Listed(result) \in SUBSET Node
    BY <1>2, <2>1 DEF Listed, Inv, TypeOK
  <2>3. /\ Len(result) = Cardinality(Listed(result))
        /\ \A c \in Node : Remaining(c) = {} <=> c \in Listed(result)
        /\ \A e \in edges : e.target \in Listed(result) => Before(e.source, e.target)
        /\ \A S \in SUBSET Listed(result) : S # {} => Rooted(S)
    BY <1>2, <2>1, <2>2 DEF Inv, SortInv
  <2>4. Graph!Acyclic => Listed(result) = Node
    <3>1. ~Rooted(Node \ Listed(result))
      <4>1. ASSUME NEW n \in Node \ Listed(result)
            PROVE  \E e \in edges : e.target = n /\ e.source \in Node \ Listed(result)
        <5>1. Remaining(n) # {}
          BY <2>3
        <5>2. \A e \in edges : e.source \in Node
          BY <1>2, GraphTypes DEF Inv, TypeOK
        <5>3. QED  BY <5>1, <5>2 DEF Remaining
      <4>2. QED  BY <4>1 DEF Rooted
    <3>2. QED  BY <2>2, <3>1, AcyclicMeans
  <2>5. Listed(result) = Node => Graph!Acyclic
    BY <2>3, AcyclicMeans
  <2>6. Len(result) = Cardinality(Node) <=> Listed(result) = Node
    BY <2>2, <2>3, FlowsAssumption, FS_Subset
  <2>7. Graph!Acyclic => \A n \in Node : \A p \in Graph!Parents(n) : Before(p, n)
    BY <2>3, <2>4 DEF Graph!Parents, Graph!Incoming
  <2>8. Graph!Acyclic \in BOOLEAN
    BY DEF Graph!Acyclic
  <2>9. QED  BY <2>4, <2>5, <2>6, <2>7, <2>8
<1>3. Inv => CyclesAreFound
  BY <1>1, <1>2 DEF CyclesAreFound
<1>4. QED  BY <1>3, Invariance, PTL

(***************************************************************************)
(* For every finite flow, getExecutionPathToNode returns the target and    *)
(* all that is upstream of it and, without cycles, lists each node after   *)
(* its dependencies.                                                       *)
(***************************************************************************)
THEOREM PathIsUpstreamCorrect ==
  Spec => []PathIsUpstream
<1>1. ASSUME Inv, Returned("path"), NEW t \in targets
      PROVE  /\ Listed(result) \cup {t} = Graph!ExecutionPathToNode(t)
             /\ Graph!Acyclic => \A n \in Listed(result) : \A p \in Graph!Parents(n) : Before(p, n)
  <2>1. /\ operation = "path" /\ stack = <<>> /\ left = {}
        /\ targets = {t} /\ t \in Node
    BY <1>1 DEF Inv, EndInv, PathInv, Returned
  <2>2. Inner = {} /\ OnStack = {}
    <3>1. DOMAIN stack = {} /\ 1..Len(stack) - 1 = {}
      BY <2>1
    <3>2. QED  BY <3>1 DEF Inner, OnStack
  <2>3. /\ visited = Listed(result)
        /\ \A T \in SUBSET Node : UpstreamClosed(T) => visited \subseteq T
        /\ \A e \in edges : e.target \in Listed(result) => e.source \in visited
        /\ \A e \in edges : e.target = t => e.source \in visited
        /\ Graph!Acyclic =>
             \A e \in edges : e.target \in Listed(result) => Before(e.source, e.target)
    BY <1>1, <2>1, <2>2 DEF Inv, PathInv
  <2>4. \A T \in SUBSET Node : UpstreamClosed(T) <=> (t \in T /\ Graph!AncestorClosed(T))
    BY <2>1 DEF UpstreamClosed, Graph!AncestorClosed, Graph!Parents, Graph!Incoming
  <2>5. Listed(result) \cup {t} \in SUBSET Node /\ UpstreamClosed(Listed(result) \cup {t})
    BY <1>1, <2>1, <2>3 DEF Inv, TypeOK, UpstreamClosed
  <2>6. Listed(result) \cup {t} = Graph!ExecutionPathToNode(t)
    BY <2>3, <2>4, <2>5 DEF Graph!ExecutionPathToNode
  <2>7. QED  BY <2>3, <2>6 DEF Graph!Parents, Graph!Incoming
<1>2. Inv => PathIsUpstream
  BY <1>1 DEF PathIsUpstream
<1>3. QED  BY <1>2, Invariance, PTL
=============================================================================
