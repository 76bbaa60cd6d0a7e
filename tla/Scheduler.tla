------------------------------ MODULE Scheduler ------------------------------
(***************************************************************************)
(* The ready-set scheduler that runs one segment of a flow                 *)
(* (services/flow-orchestration/scheduler.ts), together with the branch    *)
(* skipping that FlowRunCoordinator plugs into it as onNodeSuccess.        *)
(*                                                                         *)
(* JavaScript runs the scheduler between two awaits without interruption.  *)
(* The only await of run() is the race over the in-flight promises, so an  *)
(* abort can arrive before run() and while pc = "racing", never between    *)
(* handling a completion and launching its successors.                     *)
(*                                                                         *)
(* readyQueue and readySet hold the same ids; they are one set here, and   *)
(* shift() takes any of them, since the order in the queue is the order in *)
(* which the author of the flow drew its edges.                            *)
(***************************************************************************)
EXTENDS FlowGraph

CONSTANTS
  Concurrency,     \* opts.concurrency
  Starts,          \* the segments run, [nodes, complete, skipped]
  None             \* no failure yet

ASSUME ConcurrencyAssumption == Concurrency \in Nat \ {0}

ASSUME NoneAssumption == None \notin Node

(***************************************************************************)
(* A segment starts from sets that contain, with a node, all its parents:  *)
(* the coordinator starts a fresh run from triggers, which have no parent, *)
(* and what is skipped with them, and a resumed one from nodes that ran or *)
(* were skipped before.  A parent outside the segment ran before it, so    *)
(* its own parents are in these sets.  (For a resumed run this holds as    *)
(* far as the skip set is rebuilt as it was: see FlowRunCoordinator.)      *)
(***************************************************************************)
ASSUME StartsAssumption ==
  \A s \in Starts :
    /\ s.nodes \subseteq Node
    /\ s.complete \subseteq Node
    /\ s.skipped \subseteq Node
    /\ s.complete \cap s.skipped = {}
    /\ AncestorClosed(s.complete \cup s.skipped)
    /\ \A n \in s.nodes : \A p \in Parents(n) \ s.nodes :
         Parents(p) \subseteq s.complete \cup s.skipped

VARIABLES
  pc,              \* where run() is: idle, launching, racing, returned
  nodes,           \* opts.nodes, the schedulable nodes
  ready,           \* readyQueue / readySet
  inFlight,        \* nodes whose executeNode promise is pending
  terminal,        \* SUCCESS or SKIPPED: children may become ready
  done,            \* all completed nodes
  skipped,         \* opts.skippedNodeIds, shared with the coordinator
  lastSkippedSize, \* its size when it was last absorbed
  nodeOutputs,     \* keys of opts.nodeOutputs
  firstFailure,    \* the node that failed first, or None
  batchPending,    \* batchPendingNodeIds
  paused,          \* a node returned BATCH_SUBMITTED
  aborted          \* signal.aborted

vars == <<pc, nodes, ready, inFlight, terminal, done, skipped, lastSkippedSize,
          nodeOutputs, firstFailure, batchPending, paused, aborted>>

TypeOK ==
  /\ pc \in {"idle", "launching", "racing", "returned"}
  /\ nodes \subseteq Node
  /\ ready \subseteq Node
  /\ inFlight \subseteq nodes
  /\ terminal \subseteq Node
  /\ done \subseteq Node
  /\ skipped \subseteq Node
  /\ lastSkippedSize \in Nat
  /\ nodeOutputs \subseteq Node
  /\ firstFailure \in Node \cup {None}
  /\ batchPending \subseteq Node
  /\ paused \in BOOLEAN
  /\ aborted \in BOOLEAN

Init ==
  /\ pc = "idle"
  /\ nodes = {} /\ ready = {} /\ inFlight = {} /\ terminal = {} /\ done = {}
  /\ skipped = {} /\ lastSkippedSize = 0 /\ nodeOutputs = {}
  /\ firstFailure = None /\ batchPending = {} /\ paused = FALSE
  /\ aborted \in BOOLEAN

-----------------------------------------------------------------------------

(***************************************************************************)
(* Operators named Mistaken... are never used: each is a plausible mistake *)
(* in the definition that follows it, for checking that the properties     *)
(* would notice.                                                           *)
(***************************************************************************)
MistakenAnyParentTerminal(n, scope, term) ==
  n \in scope => Parents(n) = {} \/ Parents(n) \cap term # {}

(***************************************************************************)
(* incomingByNode has an entry for the nodes of the segment only: a node   *)
(* outside it looks like one without parents.                              *)
(***************************************************************************)
AllParentsTerminal(n, scope, term) == n \in scope => Parents(n) \subseteq term

(* The constructor, then seedReady.                                        *)
StartSegment(s) ==
  LET start == s.complete \cup s.skipped
  IN  /\ pc' = "launching"
      /\ nodes' = s.nodes
      /\ nodeOutputs' = s.complete
      /\ skipped' = s.skipped
      /\ lastSkippedSize' = Cardinality(s.skipped)
      /\ terminal' = start
      /\ done' = start
      /\ ready' = {n \in s.nodes \ start : AllParentsTerminal(n, s.nodes, start)}
      /\ inFlight' = {} /\ firstFailure' = None /\ batchPending' = {}
      /\ paused' = FALSE

Run(s) ==
  /\ pc = "idle"
  /\ StartSegment(s)
  /\ UNCHANGED aborted

MistakenLaunchOneMore ==
  /\ ready # {}
  /\ Cardinality(inFlight) <= Concurrency
  /\ ~aborted
  /\ firstFailure = None
  /\ ~paused

CanLaunch ==
  /\ ready # {}
  /\ Cardinality(inFlight) < Concurrency
  /\ ~aborted
  /\ firstFailure = None
  /\ ~paused

(* An id without a node definition is dropped with a warning.              *)
Launch(n) ==
  /\ pc = "launching"
  /\ CanLaunch
  /\ n \in ready
  /\ ready' = ready \ {n}
  /\ inFlight' = inFlight \cup ({n} \cap nodes)
  /\ UNCHANGED <<pc, nodes, terminal, done, skipped, lastSkippedSize, nodeOutputs,
                 firstFailure, batchPending, paused, aborted>>

MistakenRaceWhenFull ==
  /\ pc = "launching"
  /\ ~CanLaunch
  /\ Cardinality(inFlight) = Concurrency
  /\ pc' = "racing"
  /\ UNCHANGED <<nodes, ready, inFlight, terminal, done, skipped, lastSkippedSize,
                 nodeOutputs, firstFailure, batchPending, paused, aborted>>

RaceCompletion ==
  /\ pc = "launching"
  /\ ~CanLaunch
  /\ inFlight # {}
  /\ pc' = "racing"
  /\ UNCHANGED <<nodes, ready, inFlight, terminal, done, skipped, lastSkippedSize,
                 nodeOutputs, firstFailure, batchPending, paused, aborted>>

Return ==
  /\ pc = "launching"
  /\ ~CanLaunch
  /\ inFlight = {}
  /\ pc' = "returned"
  /\ UNCHANGED <<nodes, ready, inFlight, terminal, done, skipped, lastSkippedSize,
                 nodeOutputs, firstFailure, batchPending, paused, aborted>>

(***************************************************************************)
(* handleCompletion.  Settled(n) is the part common to all its cases.      *)
(***************************************************************************)
Settled(n) ==
  /\ pc = "racing"
  /\ n \in inFlight
  /\ inFlight' = inFlight \ {n}
  /\ pc' = "launching"
  /\ UNCHANGED <<nodes, aborted>>

(***************************************************************************)
(* absorbNewlySkipped looks at the skip set only when its size changed.    *)
(***************************************************************************)
NewlySkipped(n, skips) ==
  IF Cardinality(skips) = lastSkippedSize THEN {} ELSE skips \ (done \cup {n})

MistakenPromoteSkipped(n, newly, skips) ==
  {c \in UNION {Children(p) : p \in ({n} \cup newly) \cap nodes} :
      /\ c \notin done \cup {n} \cup inFlight' \cup ready
      /\ AllParentsTerminal(c, nodes, terminal')}

MistakenPromoteOnlyOfCompleted(n, newly, skips) ==
  {c \in UNION {Children(p) : p \in {n} \cap nodes} :
      /\ c \notin done \cup {n} \cup inFlight' \cup ready \cup skips
      /\ AllParentsTerminal(c, nodes, terminal \cup {n})}

(***************************************************************************)
(* promoteChildren for n and for every node absorbed with it: the children *)
(* not dealt with before nor skipped whose parents are now all terminal.   *)
(***************************************************************************)
Promoted(n, newly, skips) ==
  {c \in UNION {Children(p) : p \in ({n} \cup newly) \cap nodes} :
      /\ c \notin done \cup {n} \cup inFlight' \cup ready \cup skips
      /\ AllParentsTerminal(c, nodes, terminal')}

(***************************************************************************)
(* The tail of the SUCCESS and SKIPPED cases: n becomes terminal, its      *)
(* children are promoted, and the new members of the skip set are absorbed *)
(* in the same way.                                                        *)
(***************************************************************************)
Finish(n, skips) ==
  LET newly == NewlySkipped(n, skips)
  IN  /\ Settled(n)
      /\ skipped' = skips
      /\ lastSkippedSize' = Cardinality(skips)
      /\ done' = done \cup {n} \cup newly
      /\ terminal' = terminal \cup {n} \cup newly
      /\ ready' = ready \cup Promoted(n, newly, skips)
      /\ UNCHANGED <<firstFailure, batchPending, paused>>

(* SUCCESS, with outputs for the handles in `active'.                      *)
CompleteSuccess(n, active) ==
  /\ Finish(n, HandleBranchSkipping(n, active, skipped))
  /\ nodeOutputs' = nodeOutputs \cup {n}

(* SKIPPED: a beforeNodeExecute hook skipped the node.                     *)
CompleteSkipped(n) ==
  /\ Finish(n, skipped \cup {n})
  /\ UNCHANGED nodeOutputs

(* A FAILED trace, or executeNode threw.                                   *)
CompleteFailed(n) ==
  /\ Settled(n)
  /\ done' = done \cup {n}
  /\ firstFailure' = IF firstFailure = None THEN n ELSE firstFailure
  /\ UNCHANGED <<ready, terminal, skipped, lastSkippedSize, nodeOutputs,
                 batchPending, paused>>

CompleteBatchSubmitted(n) ==
  /\ Settled(n)
  /\ done' = done \cup {n}
  /\ batchPending' = batchPending \cup {n}
  /\ paused' = TRUE
  /\ UNCHANGED <<ready, terminal, skipped, lastSkippedSize, nodeOutputs,
                 firstFailure>>

Complete(n) ==
  \/ \E active \in SUBSET ConnectedHandles(n) : CompleteSuccess(n, active)
  \/ CompleteSkipped(n)
  \/ CompleteFailed(n)
  \/ CompleteBatchSubmitted(n)

(* abortRun, from cancelExecution, while nothing else runs.                *)
Abort ==
  /\ pc = "racing"
  /\ ~aborted
  /\ aborted' = TRUE
  /\ UNCHANGED <<pc, nodes, ready, inFlight, terminal, done, skipped,
                 lastSkippedSize, nodeOutputs, firstFailure, batchPending, paused>>

Next ==
  \/ \E s \in Starts : Run(s)
  \/ \E n \in Node : Launch(n) \/ Complete(n)
  \/ RaceCompletion
  \/ Return
  \/ Abort

(***************************************************************************)
(* The loop goes on whenever it can, and every node execution settles in   *)
(* the end, whatever its result.  Nobody has to abort.                     *)
(***************************************************************************)
Fairness ==
  /\ WF_vars(\E s \in Starts : Run(s))
  /\ WF_vars(RaceCompletion)
  /\ WF_vars(Return)
  /\ WF_vars(\E n \in Node : Launch(n))
  /\ WF_vars(\E n \in Node : Complete(n))

Spec == Init /\ [][Next]_vars
FairSpec == Spec /\ Fairness

-----------------------------------------------------------------------------

(***************************************************************************)
(* What the executeNode closure reads when a node is launched: every       *)
(* parent of a running node is terminal, and has either left its outputs   *)
(* in nodeOutputs or been skipped.  Violating it takes a node promoted by  *)
(* one parent while another still runs.                                    *)
(***************************************************************************)
InputsAvailable ==
  \A n \in inFlight : Parents(n) \subseteq terminal /\ Parents(n) \subseteq nodeOutputs \cup skipped

(***************************************************************************)
(* A node runs or is skipped, never both: launch() does not look at the    *)
(* skip set, so no completion may ever skip a node that is queued, running *)
(* or has produced outputs.  (Ids outside the segment may be queued too;   *)
(* Launch drops them.)                                                     *)
(***************************************************************************)
RunXorSkipped == skipped \cap ((ready \cap nodes) \cup inFlight \cup nodeOutputs) = {}

(***************************************************************************)
(* A node is executed at most once in a segment: what has completed,       *)
(* whatever the way, is neither running nor queued again.                  *)
(***************************************************************************)
ExecutedAtMostOnce ==
  /\ done \cap inFlight = {}
  /\ done \cap ready \cap nodes = {}
  /\ ready \cap inFlight = {}

(***************************************************************************)
(* absorbNewlySkipped, which compares sizes only, misses nothing: between  *)
(* two completions the whole skip set has been made terminal.              *)
(***************************************************************************)
SkipsAbsorbed == skipped \subseteq terminal

(***************************************************************************)
(* After a failure, a submitted batch or an abort nothing new is launched; *)
(* what is in flight may only settle.                                      *)
(***************************************************************************)
Halted == firstFailure # None \/ paused \/ aborted

NoLaunchWhenHalted == [][Halted => inFlight' \subseteq inFlight]_vars

(***************************************************************************)
(* A segment that returns without failure, pause or abort leaves no node   *)
(* of an acyclic flow behind: each has run or been skipped.  The scheduler *)
(* is readiness-based, so a node it forgot to promote would simply be      *)
(* missing from a run reported as SUCCESS.                                 *)
(***************************************************************************)
NothingLeftBehind ==
  (pc = "returned" /\ ~Halted /\ Acyclic /\ AncestorClosed(nodes))
     => nodes \subseteq nodeOutputs \cup skipped

(***************************************************************************)
(* Why the properties above hold: the bookkeeping sets agree with each     *)
(* other, everything considered so far was considered after its parents,   *)
(* and everything not yet considered still waits for one of them.          *)
(***************************************************************************)
BookkeepingAgrees ==
  /\ lastSkippedSize = Cardinality(skipped)
  /\ terminal = nodeOutputs \cup skipped
  /\ terminal \subseteq done
  /\ batchPending \subseteq done \ terminal
  /\ (firstFailure = None /\ ~paused) => done = terminal

ParentsFirst ==
  \A n \in done \cup (ready \cap nodes) \cup inFlight : Parents(n) \subseteq terminal

OutsideSettled ==
  \A n \in nodes : \A p \in Parents(n) \ nodes : Parents(p) \subseteq terminal

NothingForgotten ==
  pc # "idle" =>
    \A n \in nodes \ (done \cup inFlight \cup ready) : ~(Parents(n) \subseteq terminal)

PhasesAgree ==
  /\ pc = "idle" => /\ inFlight = {} /\ ready = {} /\ batchPending = {}
                    /\ firstFailure = None /\ ~paused
  /\ pc = "returned" => inFlight = {} /\ (ready = {} \/ Halted)

Inv ==
  /\ TypeOK
  /\ BookkeepingAgrees
  /\ ExecutedAtMostOnce
  /\ RunXorSkipped
  /\ ParentsFirst
  /\ OutsideSettled
  /\ NothingForgotten
  /\ PhasesAgree

(***************************************************************************)
(* run() returns, whatever the nodes do, as long as each of them settles.  *)
(***************************************************************************)
RunReturns == <>(pc = "returned")

(***************************************************************************)
(* The scheduler implements FlowExecution: its queue, size check and       *)
(* promotion rules are one way of letting every node wait for its parents. *)
(***************************************************************************)
absPhase == IF pc \in {"launching", "racing"} THEN "running" ELSE pc

absStatus ==
  [n \in Node |-> CASE n \in inFlight     -> "running"
                    [] n \in skipped      -> "skipped"
                    [] n \in nodeOutputs  -> "succeeded"
                    [] n \in batchPending -> "submitted"
                    [] n \in done \ (skipped \cup nodeOutputs \cup batchPending) -> "failed"
                    [] OTHER -> "waiting"]

Abs == INSTANCE FlowExecution
         WITH phase <- absPhase, scope <- nodes, status <- absStatus, halted <- Halted

ImplementsFlowExecution == Abs!AbsSpec
=============================================================================
