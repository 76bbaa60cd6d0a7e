-------------------------- MODULE FlowRunCoordinator --------------------------
(***************************************************************************)
(* One flow run across its segments (flow-run-coordinator.ts): a fresh run *)
(* or a run to one node starts a segment of the scheduler; a segment that  *)
(* submitted batch jobs leaves the run PAUSED_FOR_BATCH; the resumption    *)
(* sweep of FlowOrchestrationService finds the paused run when one of its  *)
(* jobs has finished and starts another segment from what the traces say.  *)
(*                                                                         *)
(* Nothing but the traces, the batch jobs and the run row outlives a       *)
(* segment: outputs are read back from the traces, which are written to    *)
(* the database one by one (persistence "per-node", the default), and      *)
(* skips are replayed from them.  There is one sweeper here, and nobody    *)
(* cancels: the run row under several writers is the subject of module     *)
(* RunLifecycle.  The flow is acyclic, which executeFlowDefinition and a   *)
(* resume insist on (topologicalSort throws), and is not edited while the  *)
(* run is paused.                                                          *)
(***************************************************************************)
EXTENDS Scheduler, Sequences

CONSTANTS
  Trigger,         \* the nodes of a type "trigger.*"
  ActiveTriggers,  \* the values of __triggerNodeId tried, None for a manual run
  Targets,         \* the target nodes of executeFlowToNode tried
  MayFail,         \* the nodes that may fail,
  MaySkip,         \* be skipped by a beforeNodeExecute hook,
  MaySubmit        \* or submit a batch job

ASSUME CoordinatorAssumption ==
  /\ Acyclic
  /\ Trigger \subseteq Node
  /\ ActiveTriggers \subseteq Trigger \cup {None}
  /\ Targets \subseteq Node
  /\ MayFail \subseteq Node /\ MaySkip \subseteq Node /\ MaySubmit \subseteq Node

(* Model and agent nodes submit batches; branching is done by others.      *)
ASSUME BatchNodesDoNotBranch == \A n \in MaySubmit : ConnectedHandles(n) = {}

VARIABLES
  row,             \* status of the flow_runs row
  target,          \* the target of a run to one node, or None
  traces,          \* the node executions, in the order of started_at
  job,             \* the batch job of each node
  hasFailure,      \* the batch result of a resumed node was a failure
  toResume         \* nodes left in the list of findFlowsReadyForResumption

runVars == <<row, target, traces, job, hasFailure, toResume>>
coordinatorVars == <<vars, runVars>>

Trace == [node: Node,
          status: {"RUNNING", "SUCCESS", "FAILED", "SKIPPED", "BATCH_SUBMITTED"},
          active: SUBSET Handle]

(***************************************************************************)
(* COMPLETED with a failed result and FAILED are different things: the     *)
(* provider answered for the first, the job itself failed for the second.  *)
(***************************************************************************)
JobStatus == {"none", "SUBMITTED", "COMPLETED", "COMPLETED_WITH_FAILURE", "FAILED"}

FinishedJobs == {n \in Node : job[n] \notin {"none", "SUBMITTED"}}

CoordinatorTypeOK ==
  /\ TypeOK
  /\ row \in {"PENDING", "RUNNING", "PAUSED_FOR_BATCH", "SUCCESS", "FAILED"}
  /\ target \in Targets \cup {None}
  /\ traces \in Seq(Trace)
  /\ job \in [Node -> JobStatus]
  /\ hasFailure \in BOOLEAN
  /\ toResume \subseteq Node

CoordinatorInit ==
  /\ Init /\ ~aborted
  /\ row = "PENDING"
  /\ target = None
  /\ traces = <<>>
  /\ job = [n \in Node |-> "none"]
  /\ hasFailure = FALSE
  /\ toResume = {}

-----------------------------------------------------------------------------

(* A fresh run: markExecutionRunning, applyTriggerSkip, runSchedulerLoop.  *)
ExecuteFlowDefinition(trigger) ==
  /\ row = "PENDING"
  /\ row' = "RUNNING"
  /\ Run([nodes    |-> Node,
          complete |-> {},
          skipped  |-> IF trigger = None THEN {} ELSE TriggerSkips(Trigger, trigger)])
  /\ UNCHANGED <<target, traces, job, hasFailure, toResume>>

(* "Run to here": the nodes on the path, with all the edges of the flow.   *)
ExecuteFlowToNode(t) ==
  /\ row = "PENDING"
  /\ row' = "RUNNING"
  /\ target' = t
  /\ Run([nodes |-> ExecutionPathToNode(t), complete |-> {}, skipped |-> {}])
  /\ UNCHANGED <<traces, job, hasFailure, toResume>>

(* A launched node has a RUNNING trace; an unknown id is dropped.          *)
LaunchNode(n) ==
  /\ Launch(n)
  /\ traces' = IF n \in nodes
               THEN Append(traces, [node |-> n, status |-> "RUNNING", active |-> {}])
               ELSE traces
  /\ UNCHANGED <<row, target, job, hasFailure, toResume>>

Record(n, status, active) ==
  traces' = [i \in DOMAIN traces |->
               IF traces[i].node = n
               THEN [node |-> n, status |-> status, active |-> active]
               ELSE traces[i]]

NodeSucceeds(n, active) ==
  /\ CompleteSuccess(n, active)
  /\ Record(n, "SUCCESS", active)
  /\ UNCHANGED <<row, target, job, hasFailure, toResume>>

NodeSkippedByHook(n) ==
  /\ n \in MaySkip
  /\ CompleteSkipped(n)
  /\ Record(n, "SKIPPED", {})
  /\ UNCHANGED <<row, target, job, hasFailure, toResume>>

NodeFails(n) ==
  /\ n \in MayFail
  /\ CompleteFailed(n)
  /\ Record(n, "FAILED", {})
  /\ UNCHANGED <<row, target, job, hasFailure, toResume>>

NodeSubmitsBatch(n) ==
  /\ n \in MaySubmit
  /\ CompleteBatchSubmitted(n)
  /\ Record(n, "BATCH_SUBMITTED", {})
  /\ job' = [job EXCEPT ![n] = "SUBMITTED"]
  /\ UNCHANGED <<row, target, hasFailure, toResume>>

NodeSettles(n) ==
  \/ \E active \in SUBSET ConnectedHandles(n) : NodeSucceeds(n, active)
  \/ NodeSkippedByHook(n)
  \/ NodeFails(n)
  \/ NodeSubmitsBatch(n)

WaitForNodes ==
  /\ RaceCompletion
  /\ UNCHANGED runVars

MistakenOutcomeIgnoresPause ==
  IF hasFailure \/ firstFailure # None THEN "FAILED" ELSE "SUCCESS"

(* What the run becomes: a pause outranks a failure.                       *)
SegmentOutcome ==
  IF paused THEN "PAUSED_FOR_BATCH"
  ELSE IF hasFailure \/ firstFailure # None THEN "FAILED"
  ELSE "SUCCESS"

(* runSchedulerLoop returned: pauseFlowForBatch or markExecution...        *)
ConcludeSegment ==
  /\ Return
  /\ row' = SegmentOutcome
  /\ UNCHANGED <<target, traces, job, hasFailure, toResume>>

-----------------------------------------------------------------------------

(* The provider polling finds the job finished, in one way or another.     *)
JobFinishes(n) ==
  /\ job[n] = "SUBMITTED"
  /\ \E result \in {"COMPLETED", "COMPLETED_WITH_FAILURE", "FAILED"} :
       job' = [job EXCEPT ![n] = result]
  /\ UNCHANGED <<vars, row, target, traces, hasFailure, toResume>>

MistakenSweepCompletedOnly ==
  /\ toResume = {}
  /\ row = "PAUSED_FOR_BATCH"
  /\ toResume' = {n \in FinishedJobs : job[n] = "COMPLETED"}
  /\ toResume' # {}
  /\ UNCHANGED <<vars, row, target, traces, job, hasFailure>>

(***************************************************************************)
(* findFlowsReadyForResumption lists a paused run once for each of its     *)
(* finished jobs.  A job that has been consumed by an earlier resume stays *)
(* finished, and is listed again when the run has paused again.            *)
(***************************************************************************)
FindFlowsReadyForResumption ==
  /\ toResume = {}
  /\ row = "PAUSED_FOR_BATCH"
  /\ FinishedJobs # {}
  /\ toResume' = FinishedJobs
  /\ UNCHANGED <<vars, row, target, traces, job, hasFailure>>

MistakenReplayPersistedOnly(tr) ==
  {tr[i].node : i \in {j \in DOMAIN tr : tr[j].status = "SKIPPED"}}

(* What one trace adds to the skip set of a resumed segment.               *)
ReplayTrace(t, skips) ==
  CASE t.status = "SUCCESS" -> HandleBranchSkipping(t.node, t.active, skips)
    [] t.status = "SKIPPED" -> skips \cup {t.node}
    [] OTHER                -> skips

(***************************************************************************)
(* That skip set: findByFlowRunId returns the traces with the latest       *)
(* started_at first, and they are replayed in that order.                  *)
(***************************************************************************)
ReplaySkips(tr) ==
  LET from[k \in 0..Len(tr)] ==
        IF k = 0 THEN {} ELSE ReplayTrace(tr[Len(tr) + 1 - k], from[k - 1])
  IN  from[Len(tr)]

(* A submitted node takes the result of its job, if it is there.           *)
Resolved(t) ==
  IF t.status # "BATCH_SUBMITTED" THEN t
  ELSE [t EXCEPT !.status = CASE job[t.node] = "COMPLETED" -> "SUCCESS"
                              [] job[t.node] = "COMPLETED_WITH_FAILURE" -> "FAILED"
                              [] OTHER -> t.status]

NodesOf(tr, statuses) == {tr[i].node : i \in {j \in DOMAIN tr : tr[j].status \in statuses}}

MistakenSegmentReruns(tr, skips) ==
  [nodes    |-> Node,
   complete |-> NodesOf(tr, {"SUCCESS"}),
   skipped  |-> skips]

MistakenSegmentWithoutOutputs(tr, skips) ==
  LET processed == {tr[i].node : i \in DOMAIN tr}
  IN  [nodes    |-> Node \ (processed \ skips),
       complete |-> {},
       skipped  |-> skips]

(* The nodes without a trace, and those known to be complete or skipped.   *)
ResumedSegment(tr, skips) ==
  LET processed == {tr[i].node : i \in DOMAIN tr}
      complete  == NodesOf(tr, {"SUCCESS"})
  IN  [nodes    |-> (Node \ processed) \cup complete \cup skips,
       complete |-> complete,
       skipped  |-> skips]

(* resumeFromBatchCompletion with a batchError.                            *)
ResumeWithError(n) ==
  /\ pc = "returned"
  /\ n \in toResume
  /\ job[n] = "FAILED"
  /\ toResume' = toResume \ {n}
  /\ row' = "FAILED"
  /\ UNCHANGED <<vars, target, traces, job, hasFailure>>

(***************************************************************************)
(* resumeFromBatchCompletion without one, then continueFlowRunFromBatch.   *)
(* The row is made RUNNING whatever it is, and the target of a run to one  *)
(* node is not known here.                                                 *)
(***************************************************************************)
ResumeFromBatchCompletion(n) ==
  LET resolved == [i \in DOMAIN traces |-> Resolved(traces[i])]
  IN  /\ pc = "returned"
      /\ n \in toResume
      /\ job[n] # "FAILED"
      /\ toResume' = toResume \ {n}
      /\ row' = "RUNNING"
      /\ traces' = resolved
      /\ hasFailure' = \E i \in DOMAIN traces : /\ traces[i].status = "BATCH_SUBMITTED"
                                                /\ resolved[i].status = "FAILED"
      /\ StartSegment(ResumedSegment(resolved, ReplaySkips(traces)))
      /\ UNCHANGED <<aborted, target, job>>

-----------------------------------------------------------------------------

CoordinatorNext ==
  \/ \E trigger \in ActiveTriggers : ExecuteFlowDefinition(trigger)
  \/ \E t \in Targets : ExecuteFlowToNode(t)
  \/ \E n \in Node : \/ LaunchNode(n)
                     \/ NodeSettles(n)
                     \/ JobFinishes(n)
                     \/ ResumeWithError(n)
                     \/ ResumeFromBatchCompletion(n)
  \/ WaitForNodes
  \/ ConcludeSegment
  \/ FindFlowsReadyForResumption

(***************************************************************************)
(* Nodes settle, providers answer, and the sweep runs again and again and  *)
(* works through its list.  (A request need not come.)                     *)
(***************************************************************************)
CoordinatorFairness ==
  /\ WF_coordinatorVars(WaitForNodes)
  /\ WF_coordinatorVars(ConcludeSegment)
  /\ WF_coordinatorVars(\E n \in Node : LaunchNode(n))
  /\ WF_coordinatorVars(\E n \in Node : NodeSettles(n))
  /\ WF_coordinatorVars(\E n \in Node : JobFinishes(n))
  /\ WF_coordinatorVars(FindFlowsReadyForResumption)
  /\ WF_coordinatorVars(\E n \in Node : ResumeWithError(n) \/ ResumeFromBatchCompletion(n))

CoordinatorSpec == CoordinatorInit /\ [][CoordinatorNext]_coordinatorVars
CoordinatorFairSpec == CoordinatorSpec /\ CoordinatorFairness

-----------------------------------------------------------------------------

(***************************************************************************)
(* No node is executed twice in a run, however often it pauses: what has a *)
(* trace is never launched again, although outputs, skips and the ready    *)
(* set are rebuilt from nothing at each resume.                            *)
(***************************************************************************)
ExecutedOncePerRun ==
  \A i, j \in DOMAIN traces : traces[i].node = traces[j].node => i = j

(***************************************************************************)
(* No output is lost over a pause: what a node has put into nodeOutputs is *)
(* there for every later segment to read.                                  *)
(***************************************************************************)
OutputsSurvive == [][nodeOutputs \subseteq nodeOutputs']_coordinatorVars

(***************************************************************************)
(* A node skipped with its branch, its trigger or by a hook does not run   *)
(* later in the same run.  Skips have no record of their own; a resume has *)
(* to come to the same set again.                                          *)
(***************************************************************************)
SkippedNeverRuns == \A n \in Node : [](n \in skipped => [](n \notin inFlight))

(***************************************************************************)
(* A run is reported as SUCCESS when all it was asked for has run or was   *)
(* skipped: every node, or every node on the path to the target.           *)
(***************************************************************************)
Wanted == IF target = None THEN Node ELSE ExecutionPathToNode(target)

SuccessMeansDone == row = "SUCCESS" => Wanted \subseteq nodeOutputs \cup skipped

(* Every run that was started ends, however often it pauses.               *)
RunEnds == (row # "PENDING") ~> [](row \in {"SUCCESS", "FAILED"})

-----------------------------------------------------------------------------

(***************************************************************************)
(* Why the properties above hold, and of which flows.  On every flow the   *)
(* row, the traces and the sets of the scheduler agree; as long as no      *)
(* trace is left unsettled, the scheduler has all the nodes of the run in  *)
(* its segment and forgets none.                                           *)
(***************************************************************************)
Processed == {traces[i].node : i \in DOMAIN traces}
Submitted == NodesOf(traces, {"BATCH_SUBMITTED"})
Failed    == NodesOf(traces, {"FAILED"})
Unsettled == Submitted \cup Failed

RowFollowsScheduler ==
  /\ ~aborted
  /\ row = "PENDING" <=> pc = "idle"
  /\ row = "RUNNING" <=> pc \in {"launching", "racing"}
  /\ pc = "idle" => traces = <<>> /\ target = None /\ \A n \in Node : job[n] = "none"
  /\ pc = "returned" => inFlight = {} /\ (ready = {} \/ Halted)
  /\ row = "SUCCESS" => ~Halted /\ ~hasFailure
  /\ row = "PAUSED_FOR_BATCH" => paused
  /\ toResume \subseteq FinishedJobs

TracesAgree ==
  /\ ExecutedOncePerRun
  /\ inFlight = NodesOf(traces, {"RUNNING"})
  /\ nodeOutputs = NodesOf(traces, {"SUCCESS"})
  /\ Processed \cap nodes \subseteq done \cup inFlight
  /\ Processed \cap nodes \cap ready = {}
  /\ \A n \in Node : job[n] # "none" => n \in (MaySubmit \cap Processed) \ inFlight

NoneLost ==
  /\ lastSkippedSize = Cardinality(skipped)
  /\ terminal \subseteq nodeOutputs \cup skipped
  /\ skipped \cup terminal \subseteq done
  /\ done \subseteq terminal \cup Unsettled
  /\ (pc # "idle" /\ Unsettled = {}) =>
       /\ Wanted \subseteq nodes
       /\ AncestorClosed(nodes)
       /\ \A n \in nodes \ (done \cup inFlight \cup ready) : ~(Parents(n) \subseteq terminal)

RunInv == CoordinatorTypeOK /\ RowFollowsScheduler /\ TracesAgree /\ NoneLost

(***************************************************************************)
(* Flows whose skips a resume can rebuild.  The target of a branch has no  *)
(* other parent, no hook skips a node and no trigger skips the others, so  *)
(* that the skip set is a function of the branches decided so far: what    *)
(* they rule out and whatever has no parent but skipped ones.              *)
(***************************************************************************)
OneParentBranches ==
  \A e \in Edge : e.handle # NoHandle => Parents(e.target) = {e.source}

SkipsRebuildable ==
  OneParentBranches /\ MaySkip = {} /\ ActiveTriggers \subseteq {None}

SkipClosure(S) ==
  {n \in Node : \A T \in SUBSET Node :
     (S \subseteq T /\ \A c \in Node : ShouldNodeBeSkipped(c, T) => c \in T) => n \in T}

RuledOut(t) ==
  IF t.status = "SUCCESS"
  THEN TargetsOf(t.node, ConnectedHandles(t.node) \ t.active) \ TargetsOf(t.node, t.active)
  ELSE {}

SkipsFollowTraces ==
  /\ skipped = SkipClosure(UNION {RuledOut(traces[i]) : i \in DOMAIN traces})
  /\ NodesOf(traces, {"SKIPPED"}) = {}
  /\ Processed \cap skipped = {}
  /\ \A n \in Processed : Parents(n) \subseteq terminal

RebuiltInv == RunInv /\ Inv /\ SkipsFollowTraces

(***************************************************************************)
(* Runs that pause once: at most one node submits a batch.  A failure is   *)
(* never paused over when each node that may fail lies before or after it. *)
(***************************************************************************)
OneBatchNode == \A m, n \in MaySubmit : m = n

NoFailureBeside ==
  \A f \in MayFail, n \in MaySubmit :
     f \in ExecutionPathToNode(n) \/ n \in ExecutionPathToNode(f)

TriggersAreRoots == \A t \in Trigger : Incoming(t) = {}

ListedWhilePaused == toResume # {} => row = "PAUSED_FOR_BATCH"

OneBatchInv == RunInv /\ ListedWhilePaused

FirstSegment == Submitted # {} \/ \A n \in Node : job[n] = "none"

FailuresKept ==
  /\ \A n \in Submitted : job[n] # "none"
  /\ paused <=> Submitted # {}
  /\ Failed # {} => firstFailure # None \/ hasFailure
  /\ FirstSegment => /\ Inv
                      /\ Failed \subseteq MayFail
                      /\ Processed \subseteq nodes
                      /\ Unsettled \cap terminal = {}

OnePauseInv == OneBatchInv /\ FailuresKept
=============================================================================
