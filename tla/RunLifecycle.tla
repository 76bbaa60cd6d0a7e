----------------------------- MODULE RunLifecycle -----------------------------
(***************************************************************************)
(* The row of one flow run and all who write it: the invocations that      *)
(* execute it (executePendingRun, executeFlowToNode and the resumes of the *)
(* batch sweep), cancelExecution and the stale-run reaper, on processes    *)
(* that may crash.  What a segment does is the subject of Scheduler and    *)
(* FlowRunCoordinator; here it only takes time and has an outcome.         *)
(*                                                                         *)
(* Every write of the row's status is unconditional (updateRunStatus,      *)
(* updateMany by id), and every await between a check and a write is a     *)
(* place where another writer may come in: each is a step of its own.      *)
(*                                                                         *)
(* Heartbeats may be switched off; where they are on, nobody waits for     *)
(* their writes, which may come late or fail unnoticed.                    *)
(*                                                                         *)
(* Time: a row is stale when its last heartbeat, or without one its start, *)
(* is older than flowTimeoutMs.  It does not become stale while a timer    *)
(* runs whose latest write has landed, heartbeatIntervalMs being well      *)
(* below flowTimeoutMs.                                                    *)
(***************************************************************************)
EXTENDS Integers, FiniteSets

CONSTANTS
  Proc,            \* the processes serving the same database
  Worker,          \* the invocations that may execute the run, as they come
  NoProc,
  FirstKinds,      \* how the run may be started: "pending", "toNode"
  MaxDeliveries,   \* times the job of the run is delivered
  MaxPauses,       \* segments that submit a batch
  MaxCrashes,
  MaxCancels,
  MaxSweeps        \* sweeps at a time that have the run in hand

ASSUME LifecycleAssumption ==
  /\ IsFiniteSet(Worker) /\ Worker \subseteq Nat /\ NoProc \notin Proc
  /\ FirstKinds \subseteq {"pending", "toNode"}
  /\ {MaxDeliveries, MaxPauses, MaxCrashes, MaxCancels, MaxSweeps} \subseteq Nat

VARIABLES
  row,             \* status of the flow_runs row
  stale,           \* its heartbeat is older than flowTimeoutMs
  heartbeats,      \* heartbeatIntervalMs > 0
  beat,            \* the latest heartbeat write of each process
  pc,              \* where each invocation is
  kind,            \* pending, toNode or resume
  home,            \* the process it runs on
  outcome,         \* the status it is about to write
  signal,          \* the abort signal its segment was given has fired
  timers,          \* heartbeat timers running on each process
  tracked,         \* one of them is in heartbeatTimers and can be stopped
  controller,      \* abortControllers of each process: "none", "live", "aborted"
  job,             \* the batch jobs of the run: "none", "submitted", "finished"
  canceller,       \* the process inside cancelExecution, past its check
  aborted,         \* and past abortRun
  reaping,         \* failStaleRuns has listed the run
  deliveries, pauses, crashes, cancels   \* used up of the bounds

counters == <<deliveries, pauses, crashes, cancels>>
segments == <<pc, kind, home, outcome, signal>>
equipment == <<heartbeats, beat, timers, tracked, controller>>
others == <<canceller, aborted, reaping>>
vars == <<row, stale, segments, equipment, job, others, counters>>

Active == {"starting", "marked", "executing", "concluding"}

TypeOK ==
  /\ row \in {"PENDING", "RUNNING", "PAUSED_FOR_BATCH", "SUCCESS", "FAILED", "CANCELLED"}
  /\ stale \in BOOLEAN /\ heartbeats \in BOOLEAN
  /\ beat \in [Proc -> {"none", "sent", "landed", "lost"}]
  /\ pc \in [Worker -> Active \cup {"unused", "ended"}]
  /\ kind \in [Worker -> {"pending", "toNode", "resume"}]
  /\ home \in [Worker -> Proc \cup {NoProc}]
  /\ outcome \in [Worker -> {"none", "PAUSED_FOR_BATCH", "SUCCESS", "FAILED"}]
  /\ signal \in [Worker -> BOOLEAN]
  /\ timers \in [Proc -> Nat]
  /\ tracked \in [Proc -> BOOLEAN]
  /\ controller \in [Proc -> {"none", "live", "aborted"}]
  /\ job \in {"none", "submitted", "finished"}
  /\ canceller \in Proc \cup {NoProc}
  /\ aborted \in BOOLEAN /\ reaping \in BOOLEAN
  /\ deliveries \in 0..MaxDeliveries /\ pauses \in 0..MaxPauses
  /\ crashes \in 0..MaxCrashes /\ cancels \in 0..MaxCancels

Init ==
  /\ row = "PENDING" /\ stale = FALSE
  /\ heartbeats \in BOOLEAN /\ beat = [p \in Proc |-> "none"]
  /\ pc = [w \in Worker |-> "unused"]
  /\ kind = [w \in Worker |-> "pending"]
  /\ home = [w \in Worker |-> NoProc]
  /\ outcome = [w \in Worker |-> "none"]
  /\ signal = [w \in Worker |-> FALSE]
  /\ timers = [p \in Proc |-> 0]
  /\ tracked = [p \in Proc |-> FALSE]
  /\ controller = [p \in Proc |-> "none"]
  /\ job = "none" /\ canceller = NoProc /\ aborted = FALSE /\ reaping = FALSE
  /\ deliveries = 0 /\ pauses = 0 /\ crashes = 0 /\ cancels = 0

-----------------------------------------------------------------------------
(* Executing the run.                                                      *)

Invoke(w, p, k) ==
  /\ pc[w] = "unused" /\ \A v \in Worker : v < w => pc[v] # "unused"
  /\ pc' = [pc EXCEPT ![w] = "starting"]
  /\ kind' = [kind EXCEPT ![w] = k]
  /\ home' = [home EXCEPT ![w] = p]
  /\ UNCHANGED <<row, stale, outcome, signal, equipment, job, others, pauses, crashes, cancels>>

(* The job of the run is delivered.  The status of the row is not looked at.*)
Deliver(w, p) ==
  /\ deliveries < MaxDeliveries
  /\ deliveries' = deliveries + 1
  /\ \E k \in FirstKinds : Invoke(w, p, k)

(* markExecutionRunning, up to the write of the status.                    *)
MarkRunning(w) ==
  /\ pc[w] = "starting" /\ kind[w] # "resume"
  /\ row' = "RUNNING"
  /\ pc' = [pc EXCEPT ![w] = "marked"]
  /\ UNCHANGED <<stale, kind, home, outcome, signal, equipment, job, others, counters>>

(* A new timer takes the place of one already there; its first write is    *)
(* sent and not waited for.                                                *)
StartHeartbeat(p) ==
  IF heartbeats
  THEN /\ timers' = [timers EXCEPT ![p] = @ + 1]
       /\ tracked' = [tracked EXCEPT ![p] = TRUE]
       /\ beat' = [beat EXCEPT ![p] = "sent"]
  ELSE UNCHANGED <<timers, tracked, beat>>

MistakenStartWithoutHeartbeat(w) ==
  /\ pc[w] = "marked"
  /\ controller' = [controller EXCEPT ![home[w]] = "live"]
  /\ pc' = [pc EXCEPT ![w] = "executing"]
  /\ UNCHANGED <<row, stale, kind, home, outcome, signal, heartbeats, beat, timers, tracked,
                 job, others, counters>>

MistakenStartWithoutController(w) ==
  /\ pc[w] = "marked"
  /\ StartHeartbeat(home[w])
  /\ pc' = [pc EXCEPT ![w] = "executing"]
  /\ UNCHANGED <<row, stale, kind, home, outcome, signal, heartbeats, controller, job, others,
                 counters>>

(* The rest of it: startAbortController keeps a controller that has not    *)
(* fired, and replaces one that has.                                       *)
StartSegment(w) ==
  /\ pc[w] = "marked"
  /\ StartHeartbeat(home[w])
  /\ controller' = [controller EXCEPT ![home[w]] = "live"]
  /\ pc' = [pc EXCEPT ![w] = "executing"]
  /\ UNCHANGED <<row, stale, kind, home, outcome, signal, heartbeats, job, others, counters>>

Beat(p, state) ==
  /\ beat' = [beat EXCEPT ![p] = state]
  /\ UNCHANGED <<row, segments, heartbeats, timers, tracked, controller, job, others, counters>>

(* The interval of a timer is over: the next heartbeat is sent.            *)
TimerFires(p) == timers[p] > 0 /\ beat[p] # "sent" /\ Beat(p, "sent") /\ UNCHANGED stale

(* A heartbeat sent may land when its timer has already been stopped.      *)
BeatLands(p) == beat[p] = "sent" /\ Beat(p, "landed") /\ stale' = FALSE

BeatFails(p) == beat[p] = "sent" /\ Beat(p, "lost") /\ UNCHANGED stale

Sweeping == {w \in Worker : pc[w] \in Active /\ kind[w] = "resume"}
Listed == {w \in Sweeping : pc[w] = "starting"}

MistakenFindAnyStatus(w, p) ==
  /\ job # "none"
  /\ Cardinality(Sweeping) < MaxSweeps
  /\ Invoke(w, p, "resume") /\ UNCHANGED deliveries

(***************************************************************************)
(* A sweep lists the paused run, and will call resumeFromBatchCompletion   *)
(* when it comes to it.  Sweeps overlap: every process has a timer for     *)
(* them, which does not wait for the sweep before, and nothing claims the  *)
(* run.                                                                    *)
(***************************************************************************)
FindReadyForResumption(w, p) ==
  /\ row = "PAUSED_FOR_BATCH" /\ job = "finished"
  /\ Cardinality(Sweeping) < MaxSweeps
  /\ Invoke(w, p, "resume") /\ UNCHANGED deliveries

MistakenResumeLeavesRow(w) ==
  /\ w \in Listed
  /\ pc' = [pc EXCEPT ![w] = "executing"]
  /\ UNCHANGED <<row, stale, kind, home, outcome, signal, equipment, job, others, counters>>

(* No heartbeat and no abort controller are started for a resumed segment. *)
ResumeRunning(w) ==
  /\ w \in Listed
  /\ row' = "RUNNING"
  /\ pc' = [pc EXCEPT ![w] = "executing"]
  /\ UNCHANGED <<stale, kind, home, outcome, signal, equipment, job, others, counters>>

(* stopHeartbeat and clearAbortController, for the process.                *)
StopHeartbeat(p) ==
  /\ timers' = [timers EXCEPT ![p] = IF tracked[p] THEN @ - 1 ELSE @]
  /\ tracked' = [tracked EXCEPT ![p] = FALSE]
  /\ controller' = [controller EXCEPT ![p] = "none"]
  /\ UNCHANGED <<heartbeats, beat>>

Conclude(w, status) ==
  /\ pc' = [pc EXCEPT ![w] = "concluding"]
  /\ outcome' = [outcome EXCEPT ![w] = status]

(* A resume whose job failed: markExecutionFailed and no segment.          *)
ResumeWithError(w) ==
  /\ w \in Listed
  /\ Conclude(w, "FAILED")
  /\ StopHeartbeat(home[w])
  /\ UNCHANGED <<row, stale, kind, home, signal, job, others, counters>>

(* The segment returns; markExecution... stops the heartbeat, then writes. *)
SegmentReturns(w) ==
  /\ pc[w] = "executing"
  /\ \E status \in {"SUCCESS", "FAILED"} : Conclude(w, status)
  /\ StopHeartbeat(home[w])
  /\ UNCHANGED <<row, stale, kind, home, signal, job, others, counters>>

(* The segment returns with batch jobs submitted: pauseFlowForBatch.       *)
SegmentPauses(w) ==
  /\ pc[w] = "executing" /\ pauses < MaxPauses
  /\ pauses' = pauses + 1
  /\ job' = "submitted"
  /\ Conclude(w, "PAUSED_FOR_BATCH")
  /\ StopHeartbeat(home[w])
  /\ UNCHANGED <<row, stale, kind, home, signal, others, deliveries, crashes, cancels>>

(***************************************************************************)
(* Something throws after the run was marked RUNNING (the database, a      *)
(* hook, topologicalSort).  executePendingRun catches it and writes FAILED *)
(* itself; executeFlowToNode and the sweep only report it.                 *)
(***************************************************************************)
SegmentThrows(w) ==
  /\ pc[w] = "executing"
  /\ IF kind[w] = "pending"
     THEN Conclude(w, "FAILED")
     ELSE pc' = [pc EXCEPT ![w] = "ended"] /\ UNCHANGED outcome
  /\ UNCHANGED <<row, stale, kind, home, signal, equipment, job, others, counters>>

WriteOutcome(w) ==
  /\ pc[w] = "concluding"
  /\ row' = outcome[w]
  /\ pc' = [pc EXCEPT ![w] = "ended"]
  /\ UNCHANGED <<stale, kind, home, outcome, signal, equipment, job, others, counters>>

JobFinishes ==
  /\ job = "submitted"
  /\ job' = "finished"
  /\ UNCHANGED <<row, stale, segments, equipment, others, counters>>

-----------------------------------------------------------------------------
(* The others.                                                             *)

CancelCheck(p) ==
  /\ cancels < MaxCancels /\ canceller = NoProc
  /\ row \in {"PENDING", "RUNNING"}
  /\ cancels' = cancels + 1
  /\ canceller' = p
  /\ UNCHANGED <<row, stale, segments, equipment, job, aborted, reaping, deliveries, pauses,
                 crashes>>

(* abortRun: the controller this process has for the run, if it has one.   *)
CancelAbort(p) ==
  /\ canceller = p /\ ~aborted
  /\ aborted' = TRUE
  /\ controller' = [controller EXCEPT ![p] = IF @ = "live" THEN "aborted" ELSE @]
  /\ signal' = [w \in Worker |-> \/ signal[w]
                                 \/ /\ controller[p] = "live"
                                    /\ home[w] = p /\ pc[w] = "executing"
                                    /\ kind[w] # "resume"]
  /\ UNCHANGED <<row, stale, pc, kind, home, outcome, heartbeats, beat, timers, tracked, job,
                 canceller, reaping, counters>>

(* The write, awaited after it: a segment may have started meanwhile.      *)
CancelWrite(p) ==
  /\ canceller = p /\ aborted
  /\ row' = "CANCELLED"
  /\ canceller' = NoProc /\ aborted' = FALSE
  /\ UNCHANGED <<stale, segments, equipment, job, reaping, counters>>

MistakenReapPendingOnly ==
  /\ row = "PENDING" /\ stale /\ ~reaping
  /\ reaping' = TRUE
  /\ UNCHANGED <<row, stale, segments, equipment, job, canceller, aborted, counters>>

FindStaleRuns ==
  /\ row \in {"RUNNING", "PENDING"} /\ stale /\ ~reaping
  /\ reaping' = TRUE
  /\ UNCHANGED <<row, stale, segments, equipment, job, canceller, aborted, counters>>

FailStaleRuns ==
  /\ reaping
  /\ reaping' = FALSE
  /\ row' = "FAILED"
  /\ UNCHANGED <<stale, segments, equipment, job, canceller, aborted, counters>>

TimePasses ==
  /\ ~stale /\ \A p \in Proc : timers[p] > 0 => beat[p] # "landed"
  /\ stale' = TRUE
  /\ UNCHANGED <<row, segments, equipment, job, others, counters>>

(* Whatever the process was doing for the run is gone; the row stays, and  *)
(* a heartbeat it has sent may still land.                                 *)
Crash(p) ==
  /\ crashes < MaxCrashes
  /\ crashes' = crashes + 1
  /\ pc' = [w \in Worker |-> IF home[w] = p /\ pc[w] \in Active THEN "ended" ELSE pc[w]]
  /\ timers' = [timers EXCEPT ![p] = 0]
  /\ tracked' = [tracked EXCEPT ![p] = FALSE]
  /\ controller' = [controller EXCEPT ![p] = "none"]
  /\ canceller' = IF canceller = p THEN NoProc ELSE canceller
  /\ aborted' = (canceller # p /\ aborted)
  /\ UNCHANGED <<row, stale, kind, home, outcome, signal, heartbeats, beat, job, reaping,
                 deliveries, pauses, cancels>>

-----------------------------------------------------------------------------

Progress(w) == \/ MarkRunning(w) \/ StartSegment(w)
               \/ ResumeRunning(w) \/ ResumeWithError(w)
               \/ SegmentReturns(w) \/ SegmentPauses(w) \/ SegmentThrows(w)
               \/ WriteOutcome(w)

Sweep == \E w \in Worker, p \in Proc : FindReadyForResumption(w, p)

Next ==
  \/ \E w \in Worker, p \in Proc : Deliver(w, p)
  \/ \E w \in Worker : Progress(w)
  \/ Sweep
  \/ JobFinishes
  \/ \E p \in Proc : \/ TimerFires(p) \/ BeatLands(p) \/ BeatFails(p)
                     \/ CancelCheck(p) \/ CancelAbort(p) \/ CancelWrite(p) \/ Crash(p)
  \/ FindStaleRuns \/ FailStaleRuns
  \/ TimePasses

(***************************************************************************)
(* An invocation goes on until it ends or its process crashes; a sweep     *)
(* and the reaper run again and again on some process; time passes.  The   *)
(* job may be lost, so nothing is assumed of Deliver, and a heartbeat may  *)
(* hang or fail, so nothing is assumed of its writes.                      *)
(***************************************************************************)
Fairness ==
  /\ \A w \in Worker : WF_vars(Progress(w))
  /\ WF_vars(Sweep)
  /\ WF_vars(JobFinishes)
  /\ \A p \in Proc : WF_vars(CancelAbort(p) \/ CancelWrite(p))
  /\ WF_vars(FindStaleRuns) /\ WF_vars(FailStaleRuns)
  /\ WF_vars(TimePasses)

Spec == Init /\ [][Next]_vars
FairSpec == Spec /\ Fairness

-----------------------------------------------------------------------------

Executing == {w \in Worker : pc[w] = "executing"}

(***************************************************************************)
(* The first segment and the resumes of a run never overlap, however       *)
(* sweeps, cancellations, reaping and crashes fall: nobody else executes   *)
(* the run before the first segment has ended and its outcome is written.  *)
(***************************************************************************)
FirstSegmentAlone ==
  \A v, w \in Worker :
    (pc[v] \in {"executing", "concluding"} /\ kind[v] # "resume" /\ pc[w] = "executing")
      => v = w

(***************************************************************************)
(* As long as a first segment is executed its heartbeat timer runs, where  *)
(* heartbeats are on: no other invocation's pause, end or crash stops it.  *)
(* And once its latest heartbeat has landed the reaper cannot list the run *)
(* (findStaleRuns).  Before the first one has, or when it was lost, it can.*)
(***************************************************************************)
HeartbeatWhileExecuting ==
  heartbeats => \A w \in Executing : kind[w] # "resume" =>
                  timers[home[w]] > 0 /\ (beat[home[w]] = "landed" => ~stale)

(***************************************************************************)
(* No run is left RUNNING or PENDING for ever: when its job is lost or its *)
(* process crashed the reaper fails it, since then nothing beats for it.   *)
(***************************************************************************)
RunIsSettled == (row \in {"PENDING", "RUNNING"}) ~> (row \notin {"PENDING", "RUNNING"})

(* A run parked for a batch is taken up again when the batch has finished, *)
(* whatever crashes meanwhile.                                             *)
ParkedRunIsResumed ==
  (row = "PAUSED_FOR_BATCH" /\ job = "finished") ~> (row # "PAUSED_FOR_BATCH")

(***************************************************************************)
(* When cancelExecution aborts the run on the process that executes its    *)
(* first segment, the nodes in flight get the signal: whatever ended there *)
(* before, and whoever wrote the row since the check, the controller of    *)
(* the run is the one whose signal they were given.  A segment that starts *)
(* between the abort and the write of CANCELLED is not reached.            *)
(***************************************************************************)
CancelReachesNodes ==
  [][\A p \in Proc : (canceller = p /\ ~aborted /\ aborted') =>
       \A w \in Executing : (home[w] = p /\ kind[w] # "resume") => signal'[w]]_vars
=============================================================================
