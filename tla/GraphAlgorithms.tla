--------------------------- MODULE GraphAlgorithms ---------------------------
(***************************************************************************)
(* The loops of GraphService, step by step, on every small graph: the work *)
(* queue of the skip cascade, Kahn's algorithm, the depth-first cycle      *)
(* detector of the flow validator and the depth-first search for the path  *)
(* of a partial run.  Module FlowGraph says in one formula each what they  *)
(* compute; the properties below compare the two.                          *)
(*                                                                         *)
(* Where a loop runs over the edges in the order they were drawn in, a     *)
(* step here takes any of them.  An edge joins nodes of the flow.          *)
(***************************************************************************)
EXTENDS Integers, Sequences, FiniteSets

CONSTANTS
  Node,
  Handle,
  NoHandle,
  Drawable         \* the edges a flow may have

ASSUME FlowsAssumption ==
  /\ IsFiniteSet(Node) /\ IsFiniteSet(Drawable)
  /\ Drawable \subseteq [source : Node, target : Node, handle : Handle \cup {NoHandle}]

VARIABLES
  call,            \* the operation running, or "returned"
  operation,       \* the operation called
  edges,           \* its argument: the edges of the flow
  given,           \* the skip set at the call of the cascade
  targets,         \* the inactive targets to start it from
  left,            \* those of them not started from yet
  skips,           \* the skip set
  queue,           \* the work queue of the cascade and of Kahn's algorithm
  inDegree,        \* Kahn: edges from nodes not yet in result
  visited,         \* depth-first: nodes seen
  stack,           \* depth-first: [node, edges] still to look at, innermost first
  result,          \* the sequence of nodes built
  hasCycle         \* the detector found a cycle

vars == <<call, operation, edges, given, targets, left, skips, queue, inDegree,
          visited, stack, result, hasCycle>>

Graph == INSTANCE FlowGraph WITH Edge <- edges

Listed(seq) == {seq[i] : i \in DOMAIN seq}

(* The orders in which a loop may come to the members of a set.            *)
Orders(S) == {seq \in [1..Cardinality(S) -> S] : Listed(seq) = S}

(* The targets of some edges, one for each, as a loop comes to the edges.  *)
Reached(E) == {[i \in DOMAIN seq |-> seq[i].target] : seq \in Orders(E)}

Init ==
  /\ operation \in {"cascade", "sort", "detect", "path"}
  /\ call = operation
  /\ edges \in SUBSET Drawable
  /\ IF operation = "cascade"
     THEN given \in SUBSET Node /\ targets \in SUBSET (Node \ given)
     ELSE given = {} /\ IF operation = "path" THEN \E t \in Node : targets = {t}
                                              ELSE targets = {}
  /\ left = (IF operation = "detect" THEN Node ELSE targets)
  /\ skips = given
  /\ inDegree = [n \in Node |-> Cardinality(Graph!Incoming(n))]
  /\ queue \in Orders(IF operation = "sort" THEN {n \in Node : inDegree[n] = 0} ELSE {})
  /\ visited = {} /\ stack = <<>> /\ result = <<>> /\ hasCycle = FALSE

-----------------------------------------------------------------------------
(* handleBranchSkipping's last loop and markDownstreamNodesAsSkipped.      *)

(* The next inactive target is skipped, and its children are looked at.    *)
StartCascade(t) ==
  /\ call = "cascade" /\ queue = <<>> /\ t \in left
  /\ left' = left \ {t}
  /\ skips' = skips \cup {t}
  /\ queue' \in Reached({e \in Graph!Outgoing(t) : e.target \notin skips'})
  /\ UNCHANGED <<call, operation, edges, given, targets, inDegree, visited, stack,
                 result, hasCycle>>

MistakenAnyParentSkipped(n) == Graph!Parents(n) \cap skips # {}

ShouldNodeBeSkipped(n) == Graph!ShouldNodeBeSkipped(n, skips)

MistakenRequeue ==
  /\ call = "cascade" /\ queue # <<>>
  /\ LET n == Head(queue)
     IN  IF ShouldNodeBeSkipped(n)
         THEN /\ skips' = skips \cup {n}
              /\ \E seq \in Reached({e \in Graph!Outgoing(n) : e.target \notin skips'}) :
                   queue' = Tail(queue) \o seq
         ELSE queue' = Append(Tail(queue), n) /\ UNCHANGED skips
  /\ UNCHANGED <<call, operation, edges, given, targets, left, inDegree, visited,
                 stack, result, hasCycle>>

CascadeStep ==
  /\ call = "cascade" /\ queue # <<>>
  /\ LET n == Head(queue)
     IN  IF ShouldNodeBeSkipped(n) /\ n \notin skips
         THEN /\ skips' = skips \cup {n}
              /\ \E seq \in Reached({e \in Graph!Outgoing(n) : e.target \notin skips'}) :
                   queue' = Tail(queue) \o seq
         ELSE /\ queue' = Tail(queue)
              /\ UNCHANGED skips
  /\ UNCHANGED <<call, operation, edges, given, targets, left, inDegree, visited,
                 stack, result, hasCycle>>

-----------------------------------------------------------------------------
(* topologicalSort.                                                        *)

MistakenFreed(n, degree) == {c \in Graph!Children(n) : degree[c] <= 1}

(* The neighbours whose last incoming edge this was.                       *)
Freed(n, degree) == {c \in Graph!Children(n) : degree[c] = 0}

SortStep ==
  /\ call = "sort" /\ queue # <<>>
  /\ LET n == Head(queue)
     IN  /\ result' = Append(result, n)
         /\ inDegree' = [c \in Node |-> inDegree[c] - Cardinality(Graph!Incoming(c) \cap Graph!Outgoing(n))]
         /\ \E seq \in Orders(Freed(n, inDegree')) : queue' = Tail(queue) \o seq
  /\ UNCHANGED <<call, operation, edges, given, targets, left, skips, visited, stack,
                 hasCycle>>

-----------------------------------------------------------------------------
(* hasCycleDetection and getUpstreamNodes: the recursion as a stack.       *)

OnStack == {stack[i].node : i \in DOMAIN stack}

Enter(n) ==
  [node |-> n, edges |-> IF operation = "detect" THEN Graph!Outgoing(n) ELSE Graph!Incoming(n)]

Neighbour(e) == IF operation = "detect" THEN e.target ELSE e.source

(* The detector starts from every unvisited node, the path from its target.*)
StartSearch(n) ==
  /\ call \in {"detect", "path"} /\ stack = <<>> /\ n \in left
  /\ ~hasCycle
  /\ left' = left \ {n}
  /\ IF n \in visited
     THEN UNCHANGED <<visited, stack>>
     ELSE /\ visited' = IF operation = "detect" THEN visited \cup {n} ELSE visited
          /\ stack' = <<Enter(n)>>
  /\ UNCHANGED <<call, operation, edges, given, targets, skips, queue, inDegree,
                 result, hasCycle>>

ClosesCycle(m) == m \in OnStack

Follow(e) ==
  IF Neighbour(e) \notin visited
  THEN /\ stack' = <<Enter(Neighbour(e)), [stack[1] EXCEPT !.edges = @ \ {e}]>> \o Tail(stack)
       /\ visited' = visited \cup {Neighbour(e)}
  ELSE /\ stack' = <<[stack[1] EXCEPT !.edges = @ \ {e}]>> \o Tail(stack)
       /\ UNCHANGED visited

SearchStep(e) ==
  /\ call \in {"detect", "path"} /\ stack # <<>> /\ ~hasCycle
  /\ e \in stack[1].edges
  /\ Follow(e)
  /\ hasCycle' = (operation = "detect" /\ Neighbour(e) \in visited /\ ClosesCycle(Neighbour(e)))
  /\ UNCHANGED <<call, operation, edges, given, targets, left, skips, queue, inDegree,
                 result>>

MistakenLeaveInFront ==
  /\ call \in {"detect", "path"} /\ stack # <<>> /\ ~hasCycle
  /\ stack[1].edges = {}
  /\ stack' = Tail(stack)
  /\ result' = IF operation = "path" /\ Len(stack) > 1
               THEN <<stack[1].node>> \o result ELSE result
  /\ UNCHANGED <<call, operation, edges, given, targets, left, skips, queue, inDegree,
                 visited, hasCycle>>

(* The call for a node ends; the path lists it after what it depends on.   *)
LeaveNode ==
  /\ call \in {"detect", "path"} /\ stack # <<>> /\ ~hasCycle
  /\ stack[1].edges = {}
  /\ stack' = Tail(stack)
  /\ result' = IF operation = "path" /\ Len(stack) > 1
               THEN Append(result, stack[1].node) ELSE result
  /\ UNCHANGED <<call, operation, edges, given, targets, left, skips, queue, inDegree,
                 visited, hasCycle>>

Return ==
  /\ call # "returned"
  /\ hasCycle \/ (queue = <<>> /\ left = {} /\ stack = <<>>)
  /\ call' = "returned"
  /\ UNCHANGED <<operation, edges, given, targets, left, skips, queue, inDegree,
                 visited, stack, result, hasCycle>>

Next ==
  \/ \E t \in Node : StartCascade(t) \/ StartSearch(t)
  \/ CascadeStep
  \/ SortStep
  \/ \E e \in edges : SearchStep(e)
  \/ LeaveNode
  \/ Return

Spec == Init /\ [][Next]_vars /\ WF_vars(Next)

-----------------------------------------------------------------------------

(* A call of a search; the types are proved in GraphAlgorithmsProofs.      *)
Frame == [node : Node, edges : SUBSET edges]

TypeOK ==
  /\ operation \in {"cascade", "sort", "detect", "path"} /\ call \in {operation, "returned"}
  /\ edges \in SUBSET Drawable
  /\ {given, targets, left, skips, visited} \subseteq SUBSET Node
  /\ queue \in Seq(Node) /\ result \in Seq(Node)
  /\ inDegree \in [Node -> Int]
  /\ stack \in Seq(Frame)
  /\ hasCycle \in BOOLEAN

Returned(op) == call = "returned" /\ operation = op

(***************************************************************************)
(* Whatever the order of the targets, of the edges and of the queue, and   *)
(* although each target is skipped only when its turn comes, the cascade   *)
(* ends with the least closed skip set.                                    *)
(***************************************************************************)
CascadeIsLeast ==
  Returned("cascade") =>
    skips = Graph!MarkDownstreamNodesAsSkipped(targets, given \cup targets)

(* Before(p, n): p is listed, and earlier than n.                          *)
Before(p, n) ==
  \E i, j \in DOMAIN result : i < j /\ result[i] = p /\ result[j] = n

(***************************************************************************)
(* The detector that the validator asks finds a cycle, and topologicalSort *)
(* throws (a result shorter than the node list), on the same flows, those  *)
(* with a cycle; otherwise the sort has every node after its parents.      *)
(***************************************************************************)
CyclesAreFound ==
  /\ Returned("detect") => hasCycle = ~Graph!Acyclic
  /\ Returned("sort") =>
       /\ (Len(result) = Cardinality(Node)) = Graph!Acyclic
       /\ Graph!Acyclic => \A n \in Node : \A p \in Graph!Parents(n) : Before(p, n)

(***************************************************************************)
(* The path to a node holds the node and all it depends on; without cycles *)
(* the dependencies come first.                                            *)
(***************************************************************************)
PathIsUpstream ==
  Returned("path") => \A t \in targets :
    /\ Listed(result) \cup {t} = Graph!ExecutionPathToNode(t)
    /\ Graph!Acyclic => \A n \in Listed(result) : \A p \in Graph!Parents(n) : Before(p, n)

(* Every operation returns, also on flows with cycles.                     *)
OperationsReturn == <>(call = "returned")
=============================================================================
