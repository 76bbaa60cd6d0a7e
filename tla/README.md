# Verification of flowlib

This directory holds a TLA+ development of the parts of flowlib that coordinate:
the graph service, the ready-set scheduler, the flow run coordinator with its
batch pauses and resumes, the life of the run row under several processes, batch
jobs and their polling, the in-process job runner, cron triggers, chat sessions,
and the version control plugin's synchronisation. TLC checks the modules on
small instances; TLAPS proves their safety for every value of the constants, that of
the coordinator across its segments under conditions on the flow that are named and
needed.

All paths below are relative to the repository; `services/` stands for
`pkg/core/src/services/`. The line-by-line correspondence of every definition
is the `map` of `PROJECT.json`.

## 1. The system

flowlib runs flows: directed acyclic graphs of nodes (models, agents, mappers,
branching nodes, triggers) whose edges carry outputs from a source handle to a
node. It is a TypeScript library inside a host's Node.js processes, which share
one SQL database.

A request creates a `flow_runs` row (PENDING) and enqueues a job. A process
takes the job, marks the run RUNNING, starts a heartbeat and an abort
controller, and lets the scheduler run nodes, up to `concurrency` at a time. A
node execution leaves a trace row. A node may submit a request to a provider's
batch API instead of an answer: nothing more is launched, the rest settles, and
the run becomes PAUSED_FOR_BATCH. A polling loop asks the providers; a sweep
finds paused runs with finished jobs and resumes them, from the traces alone. A
reaper fails runs whose heartbeat is old, and users cancel runs.

### Components

| component | source | state it keeps | operations | model |
|---|---|---|---|---|
| Flow graph | `services/graph.service.ts` | none (caches of edges) | sort, cycle check, skip cascade, execution path | `FlowGraph`, `GraphAlgorithms` |
| Scheduler | `services/flow-orchestration/scheduler.ts` | ready queue, in-flight, terminal, done and skip sets, first failure | run, launch, handle a completion | `Scheduler`, abstractly `FlowExecution` |
| Flow run coordinator | `services/flow-orchestration/flow-run-coordinator.ts` | heartbeat timers and abort controllers per run | execute, execute to a node, pause, resume, branch and trigger skips | `FlowRunCoordinator`, `RunLifecycle` |
| Orchestration service | `services/flow-orchestration.service.ts` | polling timers | start, cancel, sweeps, recovery | partly, in both |
| Flow runs | `services/flow-runs/` | `flow_runs` rows | status writes, heartbeat, stale runs | partly, `RunLifecycle` |
| Node execution coordinator | `services/flow-orchestration/node-execution-coordinator.ts` | none | execute a node, mapper iterations, hooks | outcomes only |
| Node executions | `services/node-executions/` | trace rows, buffers per run | record, update, list, flush | per-node mode |
| Batch jobs, provider polling | `services/batch-jobs/`, `services/ai/base-client.ts` | `batch_jobs` rows, a timer | submit, poll, complete, fail | `BatchPolling` |
| In-process job runner | `services/job-runner/` | queue, idempotency map | enqueue, process, retry | `JobRunner`, abstractly `JobDelivery` |
| Triggers and cron | `services/triggers/` | trigger rows, registrations, cron jobs | start, refresh, stop, run due triggers | `CronTriggers` |
| Chat sessions | `services/chat/active-chat-sessions.ts` | sessions, replay buffers, timers | start, push, close, subscribe, evict, shut down | `ChatSession` |
| Version control sync | `pkg/plugins/version-control/src/backend/` | sync configurations, import records, position; locks in memory | pull, push, force both, batch push, reconcile | `VersionControlSync` |
| Event bus | `services/execution-event-bus.ts` | listeners, recent events | publish, subscribe | no: synchronous, no state that outlives a call matters |
| Credentials, OAuth2 | `services/credentials/` | encrypted rows | refresh on use | no (section 6) |
| Validator, flows, versions, settings, authorization, templating, plugin manager, database, AI adapters | `services/...` | rows, or nothing | | no: pure checks, single statements, data, or I/O |
| HTTP layer, framework adapters, other plugins, UI, CLI, SDK, editor extension | `pkg/http`, `pkg/express`, ... | | | no: callers of the above |

How they interact: the orchestration service calls the coordinator directly and
through the job runner; the coordinator gives the scheduler two callbacks
(`executeNode`, `onNodeSuccess`) and *shares* its skip set and output map with
it; everything that must outlive a segment goes through the database, whose
writes of the run's status are plain updates without a comparison; the abort
signal crosses from a cancelling request into the scheduler and the nodes of
the same process only. The job runner delivers queued runs and knows nothing of
them but a key; triggers start runs through the orchestration service, on a
long-lived process by timers and on serverless hosts by a call that the platform
makes every minute; polls write the rows of batch jobs, and the resumption sweep
reads them. Chat sessions and the version control plugin stand beside all this:
the one fans events out to HTTP streams of one process, the other writes versions
of flows that later runs execute.

### What is hard, and what must hold

- *Completions in any order.* Joins are promoted by whichever parent finishes
  or is skipped last; the skip set grows under the scheduler by a callback and
  is noticed by its size. A node must run with its inputs present, at most
  once, never when skipped, and none may be lost.
- *Halting.* After a failure, a batch or an abort, what is in flight settles and
  nothing is launched.
- *Pause and resume.* Outputs, skips and the ready set are rebuilt from traces,
  repeatedly; a list of runs to resume grows old while it is worked through.
  No node runs twice, no output is lost, failures are not forgotten, a parked
  run waits for something and ends.
- *Several writers of a run row*, crashes between two steps, heartbeats and the
  reaper. A run is executed by one invocation at a time, a living one is not
  reaped, a dead one is.
- *Polls that overlap.* Each acts on the list it read and writes without a
  comparison, so a late answer may put a finished job back; no answer may get
  lost and no run take the wrong one.
- *A queue spliced under its readers.* Every accepted job starts a loop that
  walks the same array by index and sleeps in the middle of it.
- *Timers registered across an await.* A refresh reads the table and schedules
  later; another one may have begun. Sweeps on several hosts claim a minute.
- *Streams that are replayed while they grow*, from a bounded buffer, and ended
  by timers and sweeps that do not know who reads.
- *Two sources of truth.* Flows change in the database and on a branch, under
  locks of one process, mutexes of one process and tokens in the database.
- *Graphs as authors draw them*: cycles, self loops, parallel edges, joins
  below nested branches. Searches return and compute what they are for.

`PROJECT.json` lists each hazard at the line where it bites and the properties
that would notice.

## 2. Modules

```
FlowGraph --- Scheduler --- FlowRunCoordinator        RunLifecycle     CronTriggers
    |             |                                   BatchPolling     ChatSession
GraphAlgorithms   +- implements -> FlowExecution      JobRunner        VersionControlSync
                                                          +- implements -> JobDelivery
```

`Scheduler` extends `FlowGraph`, and `FlowRunCoordinator` extends `Scheduler`: a
segment of a run in the coordinator *is* a run of the scheduler. `GraphAlgorithms`
instantiates `FlowGraph` with a variable set of edges. The other modules stand
alone and take what lies beside them as actions of an environment (the outcomes
of a segment, the answers of a provider, commits of other people). `MC...` modules
fix the constants of an instance; only those of the cron and the synchronisation model
also name its symmetry, its initial states and its view. An operator named
`Mistaken...` is a plausible bug, used by no specification: it stands next to the
definition it would replace, and the runs were seen to notice it.

**FlowGraph** states in one formula each what the graph operations compute:
parents and children, the acyclicity that `topologicalSort` insists on, the skip
cascade as a least closed set, the decision of `handleBranchSkipping`, the path of
a partial run, the skips of a trigger.

**GraphAlgorithms** has the loops that compute them: the work queue of the
cascade, Kahn's algorithm with its in-degrees, the depth-first cycle detector and
the depth-first upstream search, with the recursion as a stack. A state has the
call (`operation`), its arguments and the locals of the loop; a loop over edges
takes them in any order.

**Scheduler** is one segment: `StartSegment` seeds the ready set from completed
and skipped nodes; `Launch`, `RaceCompletion` and the four kinds of `Complete`
are the loop; `Abort` may come while it waits. One action is what runs between two
awaits. `ready` is the queue together with the set that mirrors it, `terminal`,
`done`, `skipped` and `absorbed` are the sets of the class, `halt` its three
reasons to stop. The branch skipping that the coordinator plugs in as a callback
is part of `CompleteSuccess`. **FlowExecution** is what this promises, with no
queue: a node waits for its parents, at most `Concurrency` run, each runs or is
skipped, nothing starts once the segment is halted.

**FlowRunCoordinator** is one run over its segments: a fresh start, one by a
trigger or to a node; execution with traces; the pause; the sweep's list; resume
from a finished batch or from an error, which rebuild outputs and skips from the
traces. The traces, the batch jobs and the row survive a segment, nothing else.

**RunLifecycle** is the row of one run under its writers: invocations that
execute it (delivered, or resumed by a sweep), a cancellation, the reaper, on
processes that crash. Every await between a check and a write is a step of its
own: a cancellation is a check, an abort and a write. A heartbeat is sent when its
timer starts or fires, and lands, late perhaps, or is lost; heartbeats may be off
(`heartbeatIntervalMs <= 0`). A segment only takes time and has an outcome here.

**BatchPolling** follows a batch job from the row of `submitBatch` over the provider to
the polls that overlap, chunk by chunk, and to the run that takes the outcome; `erred`
remembers, for the properties, which jobs were checked with an error. **JobRunner** is
the queue of `InProcessJobRunner` with one loop per accepted job; **JobDelivery** what
callers may rely on. **CronTriggers** has the in-process scheduler (operations suspended
in their read of the table, jobs its map knows and jobs that live, whose names croner
keeps unique) and the sweeps of serverless workers, over the same rows; reads, claims
and executions may fail. **ChatSession** has a session's producer, replay buffer,
clients (replay, then tail) and timers. **VersionControlSync** has the workers of one or
several processes that pull, push and tick under the lock manager and the reconciler's
mutex, the tables, and a branch that others commit to; each await of an operation (a
read of the configuration, of a file, of the import records, the version inserted, made
live, recorded) ends a step.

The modules `...Proofs` hold the theorems (section 5), those of a segment and of a
run together in `FlowRunCoordinatorProofs`. The invariants of the coordinator that
only its proofs use stand at the end of `FlowRunCoordinator`.

## 3. Runs

| run | instance | question |
|---|---|---|
| `scheduler_nested` | 6 nodes: a branch inside a branch, joins below both, a second root; 5 kinds of segment; concurrency 2 | is a node run with its inputs, at most once, never when skipped; is none lost; does the segment end; does it implement `FlowExecution` |
| `coordinator_nested` | a branch inside a branch, a batch node beside the inner one, a join of four; failures before, at and after the batch node, hooks that skip, runs to a node | does a resume rebuild the skips from traces read latest first: does the scheduler's invariant hold in every segment, does what was skipped never run; does SUCCESS mean that all was done |
| `coordinator_chain` | two batch nodes in a row, failures, a run to a node | over several pauses: no node twice, no output lost, the run ends |
| `coordinator_chain_success` | the same without failures | **violated**: SUCCESS with nodes that never ran |
| `graph_algorithms` | every flow on 4 nodes with edges among 9: all pairs up the order, one of them twice, a loop of one, of two and of three nodes | do the loops compute what `FlowGraph` says, and return |
| `lifecycle_crashes` | 2 processes, 4 invocations; 1 delivery, pause, crash and cancellation; 2 sweeps; heartbeats that land, get lost or are off | is the first segment alone, does its heartbeat timer run undisturbed, does an abort on its process reach its nodes, is no run stuck |
| `job_runner` | 4 jobs: two with one key, one delayed and tried twice, one without handler; a key lives for 1, the clock reaches 1 | is an entry handled by one loop, a key admitted once, every job settled; does it implement `JobDelivery` |
| `cron_triggers` | 1 trigger, 2 calls at a time and any number of stops, 2 workers; 3 minutes, 1 edit, failures at every read, claim and execution; symmetric | does the map know every job, does a refresh take effect, is no trigger left unscheduled, is each minute executed once and not missed |
| `batch_polling` | 2 jobs, 2 polls, chunks of 1, 1 provider error, 1 crash | has a completed row its answer, does a run take the verdict on its own job, does a submitted job end |
| `chat_session` | 2 clients, a buffer of 2, 4 events | is the stream of a client in order and complete but for the known gaps, does a subscription end |
| `vc_sync` | 1 flow, 2 texts, 2 workers on 1 or 2 processes; 3 commits, 1 operation, 1 fault | do locks exclude, do import records and configurations name texts that exist, does a push lose nothing unseen, does the position reach the head |
| `vc_in_sync` | 1 worker, 5 commits, no other operation and no fault | **violated**: the branch reverts to an earlier text |

*Bounds.* Each instance is the least in which its hazards meet. Two branching levels are
needed for a cascade to reach a node queued by another branch, and the second root for a
join above which nothing is decided yet. Two batch nodes give a job consumed by an
earlier resume. In `coordinator_nested` the batch node runs beside the inner branch, so
that a pause falls between the two decisions or after both, and a resume then replays
them in the wrong order. Four nodes give every way two paths part and join again; a
parallel edge counts twice in an in-degree and enters the work queue twice. Two polls,
two sweeps, two clients and two workers overlap; a third adds no new kind of step, as
each only acts on rows and lists. In `job_runner`, the delayed job makes the loops of
the other jobs pass over its entry, and the second attempt puts an entry back while
others walk. A buffer smaller than the session drops what a late client wants. Three
commits let a tick write a position older than one written meanwhile.
`MCVersionControlSync` fixes the initial states up to the names of texts, workers and
processes, and lets the one requested operation be the first worker's; that loses
nothing, as workers differ in name only and the other's process is left open. Its view
leaves out `live`, which no step reads and no property of that run names. In
`cron_triggers` the jobs that a scheduler makes in the first minute fire in the two
others, so that a sweep meets what they have written and minutes end in which they
fired; two calls at a time make one come while another waits for the table. The theorems
of section 5 do not depend on these bounds.

*Deadlock* is not checked: every system here may come to rest (a run that has
ended, a session that is over, an operation that has returned), which the
liveness properties tell apart from getting stuck.

*Fairness* is weak fairness of what the runtime does by itself:

- the scheduler's loop, and its nodes, which settle (a promise is settled by a
  result, an error or the abort; a node that hangs would hang the run);
- the coordinator also of the provider, which finishes a batch, and of the sweep,
  which a timer calls;
- the lifecycle of each invocation that is not crashed, of a cancellation past its
  check, of the timers of sweep and reaper, and of time; none of crashes,
  cancellations, deliveries and the writes of heartbeats;
- the job runner of each loop: handlers return, timers fire;
- batch polling of provider, polls and the run that takes an outcome; none of
  errors and crashes;
- chat sessions of a client that reads, of time and of the lifetime timer; none
  of the producer;
- synchronisation of each worker's operation or ticks, so that the timer of the
  reconciler fires and calls return; none of commits and faults;
- the graph loops of their next step.

The cron model and `coordinator_nested` have safety properties only. A `TypeOK` is
stated in each module and proved instead of run, but for `VersionControlSync`, whose
proof needs no bounds and has a type invariant of its own (`Types`).

## 4. What does not hold

Two runs expect a violation and are listed as findings:

- **A second pause is ended by the first job** (`coordinator_chain_success`).
  `findFlowsReadyForResumption` lists every finished job of a paused run, so a run
  that pauses again is resumed at once because of a job that an earlier resume has
  consumed. The node that waits is neither run nor skipped, and the run ends
  SUCCESS.
- **A branch that goes back** (`vc_in_sync`). An import is skipped when the flow
  and blob have a record already. After a revert the configuration says that the
  flow is in sync at the reverted text while the newer version stays the live one.

Met while modelling, in the models, and kept out of the properties by what these
say; no run is spent on them:

*Runs.* A pause outranks a failure in the same segment, which is then forgotten
(`flow-run-coordinator.ts:380`). Trigger skips are not applied again on resume
(`:502`); branch decisions are replayed latest first (`:508`), so where the target of
a branch has other parents skips may be rebuilt differently. A node that has run, one
of its parents skipped by a hook and the others with a branch, is taken for skipped
after a resume if the branch was decided first: the replay sees the hook's skip before
the branch. A run to one node that pauses resumes the whole flow
(`:684`), and its queue holds nodes outside the path (`scheduler.ts:196`) which are
never launched. A node below the inactive sides of two branching nodes runs or not
depending on which decides first (`:805`). A resumed segment has no heartbeat and
no abort signal (`:482`): the reaper may fail it alive, and a cancellation does not
stop its nodes. The first heartbeat of a run is sent and not waited for, its errors
are swallowed (`:126`), and none is sent when they are off (`:121`): a run may
be failed alive until one has landed. A segment that starts between the abort of a
cancellation and its write of CANCELLED (`flow-orchestration.service.ts:760`) is not
aborted. Status writes are unconditional (`flow-runs.service.ts:338`,
`flow-orchestration.service.ts:620`): a cancelled run may be overwritten by its end.
Two sweeps that overlap both execute a resume (`flow-orchestration.service.ts:850`),
and the later takes a result back that the earlier has reported; so does a sweep whose
list has grown old (`:985`). No result of a resumed run is final, and no property says so.
A sweep sees a hundred runs at most, the limit of `listRuns`, which the models leave out.
The heartbeat timer of a run that throws goes on (`:672`), and `executeFlowToNode`
only reports a throw (`:594`). A run that one batch error has failed may be resumed
by the entry of another job on an older list.

*Batches.* The row left behind by a failed submission is marked failed under the id of
the node, not of the job (`base-client.ts:377`), and stays SUBMITTED without a batch id;
the polls pass it over. A transient provider error fails a job, whose batch may complete
at the provider all the same, so that a run may be told FAILED for it; and a poll with
an older list may put a finished row back to PROCESSING or FAILED. `RunGetsTheVerdict`
says no more than that such a FAILED comes of an error met in checking the same job. The
functions that cancel jobs or time them out have no caller.

*Job runner.* A delayed entry that falls due has no timer: only the loop of a
later enqueue runs it. `JobsSettle` is about jobs enqueued without delay.

*Cron.* The name of a job is taken while the job lives, and croner refuses a second one
(`cron-scheduler.service.ts:137`, `:170`). So when two refreshes overlap the one that
schedules first wins, with the table as it read it, and an older expression may stay; a
stop while a start or a refresh waits for the table is forgotten, and jobs fire until
the next refresh or stop. Hence the condition of `RefreshTakesEffect`, that no call came
during another. A refresh whose read fails leaves no job. The in-process jobs do not
claim a minute, so beside sweeps both execute it. A sweep that goes on into the next
minute, or a late write of `last_triggered_at`, may execute a minute twice or hide one.
An execution that fails after its claim is counted and its minute lost
(`flow-triggers.service.ts:354`), as is that of a worker which dies then; a list or a
claim that throws ends the whole sweep. A new version of a flow changes trigger rows
without a refresh of the scheduler.

*Chat.* The marker of dropped events is looked for by a message, `__buffer_truncated__`,
which is not the one it is made with (`active-chat-sessions.ts:145`), so that a full
buffer grows by one with each push, where the comments promise a bounded buffer (`:9`)
and a hard cap (`:25`). What is pushed while a client replays reaches it by neither way,
and when the session closes meanwhile the stream ends silently. `evictExpired` counts
the grace period from the start of a session. A client that registers after an
unfinished session was evicted waits for ever, unless it is aborted.

*Synchronisation.* A file that failed to import, or whose flow was locked, is
passed over and not tried again before the next commit (`reconciler.ts:248`). A
direct commit stores the sha of the commit where the next push sends the sha of a
blob, so that the second push without a pull between them conflicts; a pushed file
is pulled back as a new version. The record of an import is inserted after the
version, where a comment in `schema.ts` says before: two processes may import a blob
twice. A slow process writes an older live version, configuration or position over
a newer one; a failed tick clears the position. A batch push overwrites a remote
change it has not seen; `PushLosesNothing` is about the pushes of one flow. In
the code a batch whose export of one flow fails goes on without it; in the model the
batch ends, as one without that flow is a batch of its own. Force push and force
pull take no lock.

## 5. Proofs

All theorems are about the specifications the runs check, without fairness, for
every value of the constants that satisfies the named assumptions: finite sets,
bounds that are natural numbers, `GraphAssumption` and `FlowsAssumption` (edges join
nodes), `StartsAssumption` (segments begin as the coordinator begins them),
`CoordinatorAssumption` (flows are acyclic) and the like. Each follows one scheme: a
lemma that the initial states satisfy an inductive invariant, one that every step
keeps it with a step per action, and theorems that draw the properties from it. TLC
checked each inductive invariant on the instances before it was proved.

- **FlowRunCoordinatorProofs, a segment.** First lemmas about the graph: the cascade
  is closed, least, adds only nodes all of whose parents are in it, and does not reach
  what was decided before (`BranchSkipping`). The invariant `Inv` says what each set of
  the scheduler holds: a node seen has all its parents seen, ready and running nodes are
  not terminal, the skip set grows by what is not seen, `absorbed` is what the size
  comparison saw. It gives `InputsAvailable`, `RunXorSkipped`, at most one
  execution, no launch after a halt, and, for acyclic flows, `NothingLeftBehind`.
  `Refinement` shows that every step is one of `FlowExecution` or a stutter. That a
  segment of an admissible kind starts in `Inv` (`RunStartsInv`) is a lemma, which the
  proof about runs uses for resumed segments.
- **FlowRunCoordinatorProofs, a run.** Three invariants, each for more special flows.
  - `RunInv`, on *every* acyclic flow: the row follows the scheduler; each node has one
    trace, outputs are the traces that succeeded and running nodes those that run;
    what has a trace is never again in the ready set; and as long as no trace is left
    submitted or failed, the segment holds all the nodes of the run with their
    ancestors, and no node whose parents are all terminal is forgotten. It does *not*
    say that skips are rebuilt, since on some flows they are not. Hence
    `ExecutedOncePerRun` and `OutputsSurvive` without any condition, and that a false
    SUCCESS has one cause: a failed or submitted trace that a resume has passed over
    (`SuccessMeansDoneUnlessUnsettled`), which is what the violated run shows.
  - `RebuiltInv`, if `SkipsRebuildable`: the target of a branch has no other parent, no
    hook skips a node and no trigger the others. Then the skip set is, at each moment, the
    least closed set around the targets that the branches decided so far rule out
    (`SkipClosure`), whatever order they were decided in; the replay of the traces, in
    whatever order, comes to the same set. That the recursive function of the
    replay does so is an induction over the traces, done with `LeastNumber`: take
    the least prefix at which it fails. Hence a resumed segment is admissible and `Inv`
    holds over all pauses, and `SkippedNeverRuns`. The conditions are where section 4
    says that the code differs; the run has hooks too, of kinds that do no harm.
  - `OneBatchInv` and `OnePauseInv`, if at most one node submits a batch
    (`OneBatchNode`): a list of finished jobs is only about a paused run. If moreover a
    node that may fail lies before or after the batch node (`NoFailureBeside`) and
    triggers are roots, a failure is never paused over, and SUCCESS means done. Without
    the first condition `coordinator_chain_success` is a counterexample, without the
    second the forgotten failure of section 4.
- **GraphAlgorithmsProofs.** Partial correctness of the four loops on every finite
  flow. *Cascade*: it stays within every closed set, and a node whose parents are all
  skipped is skipped or queued; so it ends with the least closed set. *Sort*:
  in-degrees count the edges from nodes not listed, a node is listed or queued when
  none remain, and what is listed has no cycle; what cannot be listed is a set without
  a root. *Detector*: the stack is a path of the flow without repetition, and what was
  left has no cycle and leads nowhere else. *Path*: all that was looked at has its
  parents visited, and a visited parent that is still on the stack closes a cycle. That
  the loops end is checked, not proved.
- **RunLifecycleProofs.** `FirstSegmentAlone`, `HeartbeatWhileExecuting` and
  `CancelReachesNodes` for any number of processes, crashes, pauses, sweeps and
  cancellations, if the job of a run is delivered at most once
  (`MaxDeliveries <= 1`). That is what the idempotency key of the runner gives while it
  lives; without it the properties are false. The invariant: until the first segment has
  written its outcome, the row was never PAUSED_FOR_BATCH and nobody else has taken the
  run, so that nobody else stops its timer or clears its controller; the controller fires
  only with the signal of its nodes; and a run whose latest heartbeat has landed does not
  become stale. Nothing is claimed of a heartbeat that is late, lost or off, nor of a
  segment that starts after the abort.
- **BatchPollingProofs.** An inductive invariant that follows an answer from the
  provider, or the error of a check, through the poll that carries it into the row and
  the list into the run; hence `CompletedHasResponse` and `RunGetsTheVerdict`,
  whichever polls overlap. That a row stays COMPLETED is false, and not claimed.
- **JobRunnerProofs.** Each entry is held by one loop, a loop that holds one has
  entered, attempts are bounded, and the map of keys agrees with the queue; hence
  `OneHolder`, `OncePerKey` and that the runner implements `JobDelivery`.
- **CronTriggersProofs.** The map of the scheduler equals the live jobs, as a name is
  made known with its job and freed with it; while no call overlaps, what a suspended
  operation has read is what the table says of each trigger not edited since; and, for
  sweeps, what a worker has read, claimed, executed or failed to execute against the
  row and the minute. Hence the four properties of the run.
- **ChatSessionProofs.** What a client has been given, its replay and its queue, one
  after the other, are one increasing sequence; a client that has its end, or an end in
  its queue, is pushed nothing more. Hence `InOrder` and `NothingElseMissed`.
- **VersionControlSyncProofs.** Versions and commits only grow, and each fact that
  an operation carries over its awaits (the text it read, the version it made) stays
  true; hence the locks exclude, records and configurations name texts that exist. For
  `PushLosesNothing` one more fact is carried (`Seen`): what a push that is not the first
  expects to find was in the configuration, so some version has it, and the repository
  replaces only the file that is expected.

Only model-checked: liveness (`RunReturns`, `RunEnds`, `RunIsSettled`,
`ParkedRunIsResumed`, `JobsSettle`, `SubmittedJobsEnd`, `SubscriptionsEnd`,
`PositionReachesHead`, `OperationsReturn`), which depends on fairness and is out of
TLAPS's reach. Every safety property of a passing run is proved, those of the
coordinator on the flows named above.

## 6. Not modelled

- the mapper, which runs a node for each of a list of items
  (`node-execution-coordinator.ts:1093`), input building, templates and the values of
  outputs; plugin hooks but for the skip they may ask for;
- persistence per run, with its buffer of traces (`node-execution.service.ts:223`), and
  edits of a flow while a run of it is paused (`flow-run-coordinator.ts:474`): the
  coordinator's model assumes the default persistence and an unedited flow;
- manual `pauseRun` and `resumeRun`, waiting for results, the event bus;
- `clear()` of the job runner, for tests;
- webhooks, manual triggers and `syncTriggersForFlow`;
- the refresh of OAuth2 tokens by several callers (`credentials.service.ts:274`),
  encryption, the provider tables;
- of version control: pull request and draft modes, publishing, merges, renames,
  directions, disconnecting, promotion, bootstrap, the status cache and break-glass;
- everything that is I/O, a single statement, or data: the validator's other checks,
  flows and versions, settings, authorization, the database adapters, HTTP layers,
  other plugins, UI, SDK, command line and examples. They hold no state that several
  steps share, or run in somebody else's framework.

## 7. Plan

Done: graph, scheduler, coordinator, lifecycle, job runner, batch polling, cron,
chat, synchronisation; their runs; a refinement for the scheduler and for the job
runner; proofs of all safety properties.

Left, in order of worth: the mapper's concurrency with failure and cancellation; the
trace buffer against pauses and crashes; the refresh of tokens; a weaker condition than
`SkipsRebuildable` for hooks whose skips do no harm; an abstract specification of a run
without segments, which the coordinator implements where its invariants hold; the pull
request mode of version control.
