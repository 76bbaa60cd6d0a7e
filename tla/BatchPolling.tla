---------------------------- MODULE BatchPolling ----------------------------
(***************************************************************************)
(* Batch jobs between the node that submits one, the provider that does    *)
(* the work and the polls that carry its answer into the row of the job,   *)
(* from which the paused run takes it.                                     *)
(*                                                                         *)
(* Polls overlap: the timer does not wait for the poll before, other       *)
(* processes have timers too, and maintenance calls poll as well.  Each    *)
(* works through the list it read; every write of a row is unconditional.  *)
(***************************************************************************)
EXTENDS Integers, FiniteSets

CONSTANTS
  Job,
  Poll,            \* polls that may be under way at a time
  ChunkSize,       \* maxConcurrentPolls
  MaxErrors,       \* bound on errors of the network and the database
  MaxCrashes       \* bound on polls and submissions that die

ASSUME BatchAssumption ==
  /\ IsFiniteSet(Job) /\ ChunkSize \in Nat \ {0}
  /\ {MaxErrors, MaxCrashes} \subseteq Nat

VARIABLES
  row,             \* status of the batch_jobs row, "none" before it is created
  batchId,         \* the row has the id of the batch at the provider
  response,        \* the row has response data
  provider,        \* the batch at the provider
  submit,          \* submitBatchRequest, for each job
  todo, check,     \* each poll: jobs not yet begun, and checks under way
  was,             \* the status of each job in the list of a poll
  outcome,         \* what the paused run was resumed with
  errors, crashes,
  erred            \* history: the jobs of which a check met an error

pollVars == <<todo, check, was>>
vars == <<row, batchId, response, provider, submit, pollVars, outcome, errors, crashes, erred>>

Pending == {"SUBMITTED", "PROCESSING"}
Final == {"COMPLETED", "FAILED"}
UnderWay(p) == {j \in Job : check[p][j] # "none"}

TypeOK ==
  /\ row \in [Job -> {"none"} \cup Pending \cup Final]
  /\ batchId \in [Job -> BOOLEAN] /\ response \in [Job -> BOOLEAN]
  /\ provider \in [Job -> {"none"} \cup Final \cup {"PROCESSING"}]
  /\ submit \in [Job -> {"none", "created", "accepted", "done", "thrown", "dead"}]
  /\ todo \in [Poll -> SUBSET Job]
  /\ check \in [Poll -> [Job -> {"none", "asking", "error", "PROCESSING"} \cup Final]]
  /\ \A p \in Poll : Cardinality(UnderWay(p)) <= ChunkSize
  /\ was \in [Poll -> [Job -> {"none"} \cup Pending]]
  /\ outcome \in [Job -> {"none"} \cup Final]
  /\ errors \in 0..MaxErrors /\ crashes \in 0..MaxCrashes /\ erred \subseteq Job

Init ==
  /\ row = [j \in Job |-> "none"] /\ batchId = [j \in Job |-> FALSE]
  /\ response = [j \in Job |-> FALSE] /\ provider = [j \in Job |-> "none"]
  /\ submit = [j \in Job |-> "none"]
  /\ todo = [p \in Poll |-> {}] /\ check = [p \in Poll |-> [j \in Job |-> "none"]]
  /\ was = [p \in Poll |-> [j \in Job |-> "none"]]
  /\ outcome = [j \in Job |-> "none"] /\ errors = 0 /\ crashes = 0 /\ erred = {}

-----------------------------------------------------------------------------
(* submitBatchRequest.                                                     *)

CreateBatchJob(j) ==
  /\ submit[j] = "none"
  /\ submit' = [submit EXCEPT ![j] = "created"]
  /\ row' = [row EXCEPT ![j] = "SUBMITTED"]
  /\ UNCHANGED <<batchId, response, provider, pollVars, outcome, errors, crashes, erred>>

SubmitBatch(j) ==
  /\ submit[j] = "created"
  /\ submit' = [submit EXCEPT ![j] = "accepted"]
  /\ provider' = [provider EXCEPT ![j] = "PROCESSING"]
  /\ UNCHANGED <<row, batchId, response, pollVars, outcome, errors, crashes, erred>>

RecordBatchId(j) ==
  /\ submit[j] = "accepted"
  /\ submit' = [submit EXCEPT ![j] = "done"]
  /\ batchId' = [batchId EXCEPT ![j] = TRUE]
  /\ row' = [row EXCEPT ![j] = "SUBMITTED"]
  /\ UNCHANGED <<response, provider, pollVars, outcome, errors, crashes, erred>>

(***************************************************************************)
(* The provider or the database refuses, and the node fails.  The handler  *)
(* marks the job as failed under the id of the node, which is the id of no *)
(* job: the row stays as it is.                                            *)
(***************************************************************************)
SubmitThrows(j) ==
  /\ submit[j] \in {"created", "accepted"} /\ errors < MaxErrors
  /\ submit' = [submit EXCEPT ![j] = "thrown"]
  /\ errors' = errors + 1
  /\ UNCHANGED <<row, batchId, response, provider, pollVars, outcome, crashes, erred>>

SubmitDies(j) ==
  /\ submit[j] \in {"created", "accepted"} /\ crashes < MaxCrashes
  /\ submit' = [submit EXCEPT ![j] = "dead"]
  /\ crashes' = crashes + 1
  /\ UNCHANGED <<row, batchId, response, provider, pollVars, outcome, errors, erred>>

ProviderFinishes(j) ==
  /\ provider[j] = "PROCESSING"
  /\ \E s \in Final : provider' = [provider EXCEPT ![j] = s]
  /\ UNCHANGED <<row, batchId, response, submit, pollVars, outcome, errors, crashes, erred>>

-----------------------------------------------------------------------------
(* pollBatchJobsForAllProviders, for the jobs of one provider.             *)

MistakenPendingWithoutId == {j \in Job : row[j] \in Pending}

MistakenPendingSubmittedOnly == {j \in Job : row[j] = "SUBMITTED" /\ batchId[j]}

PendingJobs == {j \in Job : row[j] \in Pending /\ batchId[j]}

BeginPoll(p) ==
  /\ todo[p] = {} /\ UnderWay(p) = {} /\ PendingJobs # {}
  /\ todo' = [todo EXCEPT ![p] = PendingJobs]
  /\ was' = [was EXCEPT ![p] = [j \in Job |-> IF j \in PendingJobs THEN row[j] ELSE "none"]]
  /\ UNCHANGED <<row, batchId, response, provider, submit, check, outcome, errors, crashes, erred>>

(* The next chunk begins when all checks of the last one are over.         *)
NextChunk(p) ==
  /\ UnderWay(p) = {}
  /\ \E chunk \in SUBSET todo[p] :
       /\ chunk # {}
       /\ Cardinality(chunk) = ChunkSize \/ (chunk = todo[p] /\ Cardinality(chunk) < ChunkSize)
       /\ check' = [check EXCEPT ![p] = [j \in Job |-> IF j \in chunk THEN "asking" ELSE @[j]]]
       /\ todo' = [todo EXCEPT ![p] = @ \ chunk]
  /\ UNCHANGED <<row, batchId, response, provider, submit, was, outcome, errors, crashes, erred>>

(* pollBatch; a batch the provider does not know is an error.              *)
Answer(p, j) ==
  /\ check[p][j] = "asking"
  /\ check' = [check EXCEPT ![p][j] = IF provider[j] = "none" THEN "error" ELSE provider[j]]
  /\ UNCHANGED <<row, batchId, response, provider, submit, todo, was, outcome, errors, crashes,
                 erred>>

(* The request fails, or the update that follows it.                       *)
CheckThrows(p, j) ==
  /\ check[p][j] \notin {"none", "error"} /\ errors < MaxErrors
  /\ check' = [check EXCEPT ![p][j] = "error"]
  /\ errors' = errors + 1 /\ erred' = erred \cup {j}
  /\ UNCHANGED <<row, batchId, response, provider, submit, todo, was, outcome, crashes>>

CheckOver(p, j) ==
  /\ check' = [check EXCEPT ![p][j] = "none"]
  /\ was' = [was EXCEPT ![p][j] = "none"]

MistakenUpdateFirstResponse(p, j) ==
  /\ check[p][j] \in Final \cup {"PROCESSING"}
  /\ row' = [row EXCEPT ![j] = IF check[p][j] # was[p][j] THEN check[p][j] ELSE @]
  /\ response' = [response EXCEPT ![j] = @ \/ (check[p][j] = "COMPLETED" /\ row[j] \in Pending)]
  /\ CheckOver(p, j)
  /\ UNCHANGED <<batchId, provider, submit, todo, outcome, errors, crashes, erred>>

(* An answer other than the status that was read is written to the row;    *)
(* fields the answer does not have keep their values.                      *)
UpdateBatchJob(p, j) ==
  /\ check[p][j] \in Final \cup {"PROCESSING"}
  /\ row' = [row EXCEPT ![j] = IF check[p][j] # was[p][j] THEN check[p][j] ELSE @]
  /\ response' = [response EXCEPT ![j] = @ \/ check[p][j] = "COMPLETED"]
  /\ CheckOver(p, j)
  /\ UNCHANGED <<batchId, provider, submit, todo, outcome, errors, crashes, erred>>

(* Any error, also one that would pass, fails the job.                     *)
MarkJobAsFailed(p, j) ==
  /\ check[p][j] = "error"
  /\ row' = [row EXCEPT ![j] = "FAILED"]
  /\ CheckOver(p, j)
  /\ UNCHANGED <<batchId, response, provider, submit, todo, outcome, errors, crashes, erred>>

PollDies(p) ==
  /\ todo[p] # {} \/ UnderWay(p) # {}
  /\ crashes < MaxCrashes
  /\ crashes' = crashes + 1
  /\ todo' = [todo EXCEPT ![p] = {}]
  /\ check' = [check EXCEPT ![p] = [j \in Job |-> "none"]]
  /\ was' = [was EXCEPT ![p] = [j \in Job |-> "none"]]
  /\ UNCHANGED <<row, batchId, response, provider, submit, outcome, errors, erred>>

(***************************************************************************)
(* findFlowsReadyForResumption: the run that is paused for the job is      *)
(* resumed with the result, or the error, the row has at that time.        *)
(***************************************************************************)
TakeOutcome(j) ==
  /\ submit[j] = "done" /\ row[j] \in Final /\ outcome[j] = "none"
  /\ outcome' = [outcome EXCEPT ![j] = row[j]]
  /\ UNCHANGED <<row, batchId, response, provider, submit, pollVars, errors, crashes, erred>>

-----------------------------------------------------------------------------

Check(p, j) == Answer(p, j) \/ UpdateBatchJob(p, j) \/ MarkJobAsFailed(p, j)

Submission(j) == CreateBatchJob(j) \/ SubmitBatch(j) \/ RecordBatchId(j)

Next ==
  \/ \E j \in Job : \/ Submission(j) \/ SubmitThrows(j) \/ SubmitDies(j)
                    \/ ProviderFinishes(j) \/ TakeOutcome(j)
  \/ \E p \in Poll : BeginPoll(p) \/ NextChunk(p) \/ PollDies(p)
  \/ \E p \in Poll, j \in Job : Check(p, j) \/ CheckThrows(p, j)

(* Providers finish, polls go on and are begun again, and runs are swept.  *)
Fairness ==
  /\ \A j \in Job : WF_vars(ProviderFinishes(j)) /\ WF_vars(TakeOutcome(j))
  /\ \A p \in Poll : WF_vars(BeginPoll(p)) /\ WF_vars(NextChunk(p))
  /\ \A p \in Poll, j \in Job : WF_vars(Check(p, j))

Spec == Init /\ [][Next]_vars
FairSpec == Spec /\ Fairness

-----------------------------------------------------------------------------

(***************************************************************************)
(* A row is COMPLETED only when the provider completed the batch, and with *)
(* its response: also when a late PROCESSING or FAILED of another poll was *)
(* written between, and taken back by a third.                             *)
(***************************************************************************)
CompletedHasResponse ==
  \A j \in Job : row[j] = "COMPLETED" => provider[j] = "COMPLETED" /\ response[j]

(***************************************************************************)
(* The run is resumed with the provider's verdict on its own job, whichever*)
(* polls raced for it and whatever became of other jobs: COMPLETED only if *)
(* the provider completed the batch, and FAILED only if it failed it or a  *)
(* check of this very job met an error, which the code takes for a failure *)
(* (checkBatchJob, findFlowsReadyForResumption).                           *)
(***************************************************************************)
RunGetsTheVerdict ==
  \A j \in Job :
    /\ outcome[j] = "COMPLETED" => provider[j] = "COMPLETED"
    /\ outcome[j] = "FAILED" => provider[j] = "FAILED" \/ j \in erred

(***************************************************************************)
(* A job whose node was told that it was submitted ends, and stays ended,  *)
(* and its run is resumed: a stale answer that puts the row back is made   *)
(* good by a later poll, whatever polls die.                               *)
(***************************************************************************)
SubmittedJobsEnd ==
  \A j \in Job : (submit[j] = "done") ~> [](row[j] \in Final /\ outcome[j] # "none")
=============================================================================
