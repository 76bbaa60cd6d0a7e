------------------------------ MODULE FlowGraph ------------------------------
(***************************************************************************)
(* The flow definition as a graph, and the pure graph operations that the  *)
(* orchestration layer applies to it: the adjacency helpers and the skip   *)
(* cascade of GraphService, the branch decision of FlowRunCoordinator, the *)
(* cycle guard and the path of a partial run.                              *)
(*                                                                         *)
(* An edge carries the output handle it leaves its source from; an edge    *)
(* drawn without a sourceHandle carries NoHandle.                          *)
(*                                                                         *)
(* The code computes the closures below with a work queue.  Here they are  *)
(* least sets, so that they can be reasoned about; module GraphAlgorithms  *)
(* checks the work queues against them.                                    *)
(***************************************************************************)
EXTENDS Naturals, FiniteSets

CONSTANTS
  Node,        \* the node ids of the flow definition
  Handle,      \* the source handles that occur on its edges
  NoHandle,    \* an edge without a sourceHandle
  Edge         \* the edges of the flow definition

ASSUME GraphAssumption ==
  /\ IsFiniteSet(Node)
  /\ Edge \subseteq [source: Node, target: Node, handle: Handle \cup {NoHandle}]

Incoming(n) == {e \in Edge : e.target = n}
Outgoing(n) == {e \in Edge : e.source = n}

Parents(n)  == {e.source : e \in Incoming(n)}
Children(n) == {e.target : e \in Outgoing(n)}

(***************************************************************************)
(* GraphService.topologicalSort returns an order of the nodes unless the   *)
(* graph has a cycle: Kahn's algorithm gets stuck exactly on a set of      *)
(* nodes each of which has a parent in the set.                            *)
(***************************************************************************)
Acyclic == \A S \in SUBSET Node : S # {} => \E n \in S : Parents(n) \cap S = {}

-----------------------------------------------------------------------------

(* A node is skipped with its parents; a root never is.                    *)
ShouldNodeBeSkipped(n, S) == Incoming(n) # {} /\ Parents(n) \subseteq S

(***************************************************************************)
(* The cascade only visits children of the nodes it starts from and of     *)
(* nodes it has itself added.                                              *)
(***************************************************************************)
SkipClosed(T, starts, S) ==
  /\ S \subseteq T
  /\ \A p \in starts \cup (T \ S) : \A c \in Children(p) :
       ShouldNodeBeSkipped(c, T) => c \in T

MarkDownstreamNodesAsSkipped(starts, S) ==
  {n \in Node : \A T \in SUBSET Node : SkipClosed(T, starts, S) => n \in T}

(***************************************************************************)
(* handleBranchSkipping: `active' is the set of connected handles for      *)
(* which the node's output variables have a value.                         *)
(***************************************************************************)
ConnectedHandles(n) == {e.handle : e \in Outgoing(n)} \ {NoHandle}

TargetsOf(n, handles) == {e.target : e \in {x \in Outgoing(n) : x.handle \in handles}}

InactiveTargets(n, active, S) ==
  {t \in TargetsOf(n, ConnectedHandles(n) \ active) \ TargetsOf(n, active) :
      Parents(t) \ {n} \subseteq S}

HandleBranchSkipping(n, active, S) ==
  LET targets == InactiveTargets(n, active, S)
  IN  MarkDownstreamNodesAsSkipped(targets, S \cup targets)

-----------------------------------------------------------------------------

(***************************************************************************)
(* The nodes that "run to here" may schedule: the target and everything    *)
(* upstream of it.                                                         *)
(***************************************************************************)
AncestorClosed(T) == \A n \in T : Parents(n) \subseteq T

ExecutionPathToNode(t) ==
  {n \in Node : \A T \in SUBSET Node : (t \in T /\ AncestorClosed(T)) => n \in T}

(***************************************************************************)
(* applyTriggerSkip: a run started by one trigger skips the other triggers *)
(* and what only they lead to.                                             *)
(***************************************************************************)
TriggerSkips(triggers, active) ==
  LET others == triggers \ {active}
  IN  MarkDownstreamNodesAsSkipped(others, others)
=============================================================================
