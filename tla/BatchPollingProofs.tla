------------------------- MODULE BatchPollingProofs -------------------------
(***************************************************************************)
(* For any jobs, polls, chunk size and bounds: the types of BatchPolling,  *)
(* that a completed row has its response, and that a run is resumed with   *)
(* the verdict of the provider.                                            *)
(*                                                                         *)
(* The rows say too little by themselves: that an answer on its way is the *)
(* provider's, and that an error has a cause, must be known of every poll, *)
(* and both need that a poll only asks about batches the provider has.     *)
(***************************************************************************)
EXTENDS BatchPolling, FiniteSetTheorems, TLAPS

(* A job is asked about only when it has its batch id, and it has that     *)
(* only when its submission is over and the provider has the batch.        *)
Submissions ==
  \A j \in Job :
    /\ submit[j] = "created" => provider[j] = "none"
    /\ submit[j] \in {"accepted", "done"} => provider[j] # "none"
    /\ batchId[j] => submit[j] = "done"
    /\ row[j] # "none" => submit[j] # "none"
    /\ submit[j] = "none" => provider[j] = "none"

Asked == \A p \in Poll : \A j \in todo[p] \cup UnderWay(p) : batchId[j]

(* An answer on its way is the one of the provider; what is marked as      *)
(* failed without being it has met an error.                               *)
Answers ==
  \A p \in Poll, j \in Job :
    /\ check[p][j] \in Final => check[p][j] = provider[j]
    /\ check[p][j] = "error" => j \in erred

Rows ==
  \A j \in Job :
    /\ row[j] = "COMPLETED" => provider[j] = "COMPLETED" /\ response[j]
    /\ row[j] = "FAILED" => provider[j] = "FAILED" \/ j \in erred

Inv == TypeOK /\ Submissions /\ Asked /\ Answers /\ Rows /\ RunGetsTheVerdict
-----------------------------------------------------------------------------

LEMMA InvInit == Init => Inv
<1> SUFFICES ASSUME Init PROVE Inv
  OBVIOUS
<1>1. \A p \in Poll : UnderWay(p) = {}
  BY DEF Init, UnderWay
<1>2. \A p \in Poll : Cardinality(UnderWay(p)) <= ChunkSize
  BY <1>1, FS_EmptySet, BatchAssumption
<1>3. TypeOK
  BY <1>2, BatchAssumption DEF Init, TypeOK, Pending, Final
<1>4. Submissions /\ Answers /\ Rows /\ RunGetsTheVerdict
  BY DEF Init, Submissions, Answers, Rows, RunGetsTheVerdict, Final
<1>5. Asked
  BY <1>1 DEF Init, Asked
<1>6. QED  BY <1>3, <1>4, <1>5 DEF Inv

-----------------------------------------------------------------------------
(* What polls have under way.                                              *)

LEMMA FewerUnderWay ==
  ASSUME TypeOK, NEW p \in Poll, UnderWay(p)' \subseteq UnderWay(p)
  PROVE  Cardinality(UnderWay(p)') <= ChunkSize
<1>1. IsFiniteSet(UnderWay(p)) /\ IsFiniteSet(UnderWay(p)')
  BY BatchAssumption, FS_Subset DEF UnderWay
<1>2. Cardinality(UnderWay(p)') <= Cardinality(UnderWay(p))
  BY <1>1, FS_Subset
<1>3. Cardinality(UnderWay(p)) <= ChunkSize
  BY DEF TypeOK
<1>4. Cardinality(UnderWay(p)) \in Nat /\ Cardinality(UnderWay(p)') \in Nat /\ ChunkSize \in Nat
  BY <1>1, FS_CardinalityType, BatchAssumption
<1>5. QED  BY <1>2, <1>3, <1>4

LEMMA NextUnderWay ==
  ASSUME TypeOK, NEW p \in Poll, NextChunk(p)
  PROVE  /\ check' \in [Poll -> [Job -> {"none", "asking", "error", "PROCESSING"} \cup Final]]
         /\ todo' \in [Poll -> SUBSET Job]
         /\ \A q \in Poll : todo'[q] \cup UnderWay(q)' \subseteq todo[q] \cup UnderWay(q)
         /\ \A q \in Poll, j \in Job : check'[q][j] \in {check[q][j], "asking"}
         /\ \A q \in Poll : Cardinality(UnderWay(q)') <= ChunkSize
<1>1. PICK chunk \in SUBSET todo[p] :
        /\ chunk # {}
        /\ Cardinality(chunk) = ChunkSize \/ (chunk = todo[p] /\ Cardinality(chunk) < ChunkSize)
        /\ check' = [check EXCEPT ![p] = [j \in Job |-> IF j \in chunk THEN "asking" ELSE @[j]]]
        /\ todo' = [todo EXCEPT ![p] = @ \ chunk]
  BY DEF NextChunk
<1>2. UnderWay(p) = {} /\ chunk \subseteq Job /\ todo[p] \subseteq Job
  BY DEF NextChunk, TypeOK
<1>3. /\ check' \in [Poll -> [Job -> {"none", "asking", "error", "PROCESSING"} \cup Final]]
      /\ \A q \in Poll : q # p => check'[q] = check[q]
      /\ \A j \in Job : check'[p][j] = IF j \in chunk THEN "asking" ELSE check[p][j]
  BY <1>1 DEF TypeOK
<1>4. UnderWay(p)' = chunk
  BY <1>2, <1>3 DEF UnderWay
<1>5. \A q \in Poll : q # p => UnderWay(q)' = UnderWay(q)
  BY <1>3 DEF UnderWay
<1>6. todo' \in [Poll -> SUBSET Job] /\ \A q \in Poll : todo'[q] \subseteq todo[q]
  BY <1>1 DEF TypeOK
<1>7. Cardinality(chunk) <= ChunkSize
  <2>1. Cardinality(chunk) \in Nat /\ ChunkSize \in Nat
    BY <1>2, BatchAssumption, FS_Subset, FS_CardinalityType
  <2>2. QED  BY <1>1, <2>1
<1>8. \A q \in Poll : Cardinality(UnderWay(q)') <= ChunkSize
  BY <1>4, <1>5, <1>7 DEF TypeOK
<1>9. \A q \in Poll, j \in Job : check'[q][j] \in {check[q][j], "asking"}
  BY <1>3
<1>10. \A q \in Poll : todo'[q] \cup UnderWay(q)' \subseteq todo[q] \cup UnderWay(q)
  BY <1>1, <1>4, <1>5, <1>6
<1>11. QED  BY <1>3, <1>6, <1>8, <1>9, <1>10

(* A step of a check that is under way moves this check alone.             *)
LEMMA CheckMoves ==
  ASSUME TypeOK, NEW p \in Poll, NEW j \in Job,
         NEW c \in {"none", "asking", "error", "PROCESSING"} \cup Final,
         check[p][j] # "none", check' = [check EXCEPT ![p][j] = c]
  PROVE  /\ check' \in [Poll -> [Job -> {"none", "asking", "error", "PROCESSING"} \cup Final]]
         /\ \A q \in Poll, i \in Job : check'[q][i] \in {check[q][i], c}
         /\ \A q \in Poll, i \in Job : check'[q][i] # check[q][i] => q = p /\ i = j
         /\ \A q \in Poll : UnderWay(q)' \subseteq UnderWay(q)
<1>1. /\ check' \in [Poll -> [Job -> {"none", "asking", "error", "PROCESSING"} \cup Final]]
      /\ \A q \in Poll, i \in Job : check'[q][i] = IF q = p /\ i = j THEN c ELSE check[q][i]
  BY DEF TypeOK
<1>2. \A q \in Poll : UnderWay(q)' \subseteq UnderWay(q)
  BY <1>1 DEF UnderWay
<1>3. QED  BY <1>1, <1>2

-----------------------------------------------------------------------------
(* The invariant is preserved, one lemma for each part of the system.      *)

(* Steps in which no poll moves.                                           *)
LEMMA OutsidePolls ==
  ASSUME Inv, UNCHANGED pollVars, NEW j \in Job,
         \/ Submission(j) \/ SubmitThrows(j) \/ SubmitDies(j)
         \/ ProviderFinishes(j) \/ TakeOutcome(j)
  PROVE  Inv'
<1> USE DEF Inv, TypeOK, pollVars, Final, Pending
<1>1. errors' \in 0..MaxErrors /\ crashes' \in 0..MaxCrashes /\ erred' = erred
  BY BatchAssumption DEF Submission, CreateBatchJob, SubmitBatch, RecordBatchId,
     SubmitThrows, SubmitDies, ProviderFinishes, TakeOutcome
<1>2. \A p \in Poll : UnderWay(p)' = UnderWay(p)
  BY DEF UnderWay
<1>3. TypeOK'
  BY <1>1, <1>2 DEF Submission, CreateBatchJob, SubmitBatch, RecordBatchId,
     SubmitThrows, SubmitDies, ProviderFinishes, TakeOutcome
<1>4. Submissions'
  BY DEF Submissions, Submission, CreateBatchJob, SubmitBatch, RecordBatchId,
     SubmitThrows, SubmitDies, ProviderFinishes, TakeOutcome
<1>5. Asked'
  <2>1. \A i \in Job : batchId[i] => batchId'[i]
    BY DEF Submission, CreateBatchJob, SubmitBatch, RecordBatchId,
       SubmitThrows, SubmitDies, ProviderFinishes, TakeOutcome
  <2>2. \A p \in Poll : todo[p] \cup UnderWay(p) \subseteq Job
    BY DEF UnderWay
  <2>3. QED  BY <1>2, <2>1, <2>2 DEF Asked
<1>6. Answers'
  <2>1. \A i \in Job : provider[i] \in Final => provider'[i] = provider[i]
    BY DEF Submissions, Submission, CreateBatchJob, SubmitBatch, RecordBatchId,
       SubmitThrows, SubmitDies, ProviderFinishes, TakeOutcome
  <2>2. QED  BY <1>1, <2>1 DEF Answers
<1>7. Rows'
  BY <1>1 DEF Submissions, Rows, Submission, CreateBatchJob, SubmitBatch, RecordBatchId,
     SubmitThrows, SubmitDies, ProviderFinishes, TakeOutcome
<1>8. RunGetsTheVerdict'
  BY <1>1 DEF Submissions, Rows, RunGetsTheVerdict, Submission, CreateBatchJob, SubmitBatch,
     RecordBatchId, SubmitThrows, SubmitDies, ProviderFinishes, TakeOutcome
<1>9. QED  BY <1>3, <1>4, <1>5, <1>6, <1>7, <1>8

(* A poll begins, goes on to its next chunk, or dies.                      *)
LEMMA WholePolls ==
  ASSUME Inv, NEW p \in Poll, BeginPoll(p) \/ NextChunk(p) \/ PollDies(p)
  PROVE  Inv'
<1> USE DEF Inv
<1>1. UNCHANGED <<row, batchId, response, provider, submit, outcome, errors, erred>>
  BY DEF BeginPoll, NextChunk, PollDies
<1>2. Submissions' /\ Rows' /\ RunGetsTheVerdict'
  BY <1>1 DEF Submissions, Rows, RunGetsTheVerdict
<1>3. CASE BeginPoll(p)
  <2>1. \A q \in Poll : UnderWay(q)' = UnderWay(q)
    BY <1>3 DEF BeginPoll, UnderWay
  <2>2. TypeOK'
    BY <1>3, <2>1 DEF BeginPoll, TypeOK, PendingJobs, Pending
  <2>3. Asked'
    BY <1>1, <1>3, <2>1 DEF BeginPoll, TypeOK, PendingJobs, Asked
  <2>4. Answers'
    BY <1>3 DEF BeginPoll, Answers
  <2>5. QED  BY <1>2, <2>2, <2>3, <2>4
<1>4. CASE NextChunk(p)
  <2>1. TypeOK'
    BY <1>1, <1>4, NextUnderWay DEF NextChunk, TypeOK
  <2>2. Asked'
    BY <1>1, <1>4, NextUnderWay DEF Asked
  <2>3. Answers'
    BY <1>1, <1>4, NextUnderWay DEF Answers, Final
  <2>4. QED  BY <1>2, <2>1, <2>2, <2>3
<1>5. CASE PollDies(p)
  <2>1. \A q \in Poll : /\ UnderWay(q)' \subseteq UnderWay(q)
                        /\ todo'[q] \subseteq todo[q]
    BY <1>5 DEF PollDies, UnderWay, TypeOK
  <2>2. \A q \in Poll : Cardinality(UnderWay(q)') <= ChunkSize
    BY <2>1, FewerUnderWay
  <2>3. TypeOK'
    BY <1>5, <2>2, BatchAssumption DEF PollDies, TypeOK
  <2>4. Asked'
    BY <1>1, <2>1 DEF Asked
  <2>5. Answers'
    BY <1>5 DEF PollDies, Answers, TypeOK, Final
  <2>6. QED  BY <1>2, <2>3, <2>4, <2>5
<1>6. QED  BY <1>3, <1>4, <1>5

(* One check of a poll: the answer, the error, and what is written.        *)
LEMMA Checks ==
  ASSUME Inv, NEW p \in Poll, NEW j \in Job, Check(p, j) \/ CheckThrows(p, j)
  PROVE  Inv'
<1> USE DEF Inv
<1>1. PICK c \in {"none", "asking", "error", "PROCESSING"} \cup Final :
        check[p][j] # "none" /\ check' = [check EXCEPT ![p][j] = c]
  BY DEF Check, Answer, UpdateBatchJob, MarkJobAsFailed, CheckThrows, CheckOver, TypeOK, Final
<1>2. /\ check' \in [Poll -> [Job -> {"none", "asking", "error", "PROCESSING"} \cup Final]]
      /\ \A q \in Poll, i \in Job : check'[q][i] \in {check[q][i], c}
      /\ \A q \in Poll, i \in Job : check'[q][i] # check[q][i] => q = p /\ i = j
      /\ \A q \in Poll : UnderWay(q)' \subseteq UnderWay(q)
  BY <1>1, CheckMoves
<1>3. \A q \in Poll : Cardinality(UnderWay(q)') <= ChunkSize
  BY <1>2, FewerUnderWay
<1>4. /\ UNCHANGED <<batchId, provider, submit, todo, outcome, crashes>>
      /\ erred \subseteq erred' /\ erred' \subseteq Job
      /\ errors' \in 0..MaxErrors
  BY BatchAssumption DEF Check, Answer, UpdateBatchJob, MarkJobAsFailed, CheckThrows, TypeOK
<1>5. TypeOK'
  <2>1. /\ row' \in [Job -> {"none"} \cup Pending \cup Final]
        /\ response' \in [Job -> BOOLEAN]
        /\ was' \in [Poll -> [Job -> {"none"} \cup Pending]]
    <3>1. CASE Answer(p, j) \/ CheckThrows(p, j)
      BY <3>1 DEF Answer, CheckThrows, TypeOK
    <3>2. CASE UpdateBatchJob(p, j)
      BY <3>2 DEF UpdateBatchJob, CheckOver, TypeOK, Pending, Final
    <3>3. CASE MarkJobAsFailed(p, j)
      BY <3>3 DEF MarkJobAsFailed, CheckOver, TypeOK, Pending, Final
    <3>4. QED  BY <3>1, <3>2, <3>3 DEF Check
  <2>2. QED  BY <1>2, <1>3, <1>4, <2>1 DEF TypeOK
<1>6. batchId[j] /\ submit[j] = "done" /\ provider[j] # "none"
  BY <1>1 DEF Asked, Submissions, UnderWay
<1>7. Submissions'
  BY <1>4, <1>6 DEF Submissions, Check, Answer, UpdateBatchJob, MarkJobAsFailed, CheckThrows,
     CheckOver, TypeOK
<1>8. Asked'
  BY <1>2, <1>4 DEF Asked
<1>9. Answers'
  <2>0. check'[p][j] = c
    BY <1>1 DEF TypeOK
  <2>1. c \in Final => c = provider[j]
    <3>1. CASE Answer(p, j)
      BY <1>6, <2>0, <3>1 DEF Answer, TypeOK, Final
    <3>2. CASE CheckThrows(p, j) \/ UpdateBatchJob(p, j) \/ MarkJobAsFailed(p, j)
      BY <2>0, <3>2 DEF CheckThrows, UpdateBatchJob, MarkJobAsFailed, CheckOver, TypeOK, Final
    <3>3. QED  BY <3>1, <3>2 DEF Check
  <2>2. c = "error" => j \in erred'
    <3>1. CASE Answer(p, j)
      BY <1>6, <2>0, <3>1 DEF Answer, TypeOK, Final
    <3>2. CASE CheckThrows(p, j)
      BY <1>4, <3>2, BatchAssumption DEF CheckThrows, TypeOK
    <3>3. CASE UpdateBatchJob(p, j) \/ MarkJobAsFailed(p, j)
      BY <2>0, <3>3 DEF UpdateBatchJob, MarkJobAsFailed, CheckOver, TypeOK
    <3>4. QED  BY <3>1, <3>2, <3>3 DEF Check
  <2>3. QED  BY <1>2, <1>4, <2>1, <2>2 DEF Answers, Final
<1>10. Rows'
  <2>1. CASE Answer(p, j) \/ CheckThrows(p, j)
    BY <1>4, <2>1 DEF Answer, CheckThrows, Rows
  <2>2. CASE UpdateBatchJob(p, j)
    <3>1. \A i \in Job : i # j => row'[i] = row[i] /\ response'[i] = response[i]
      BY <2>2 DEF UpdateBatchJob, TypeOK
    <3>2. erred' = erred /\ provider' = provider
      BY <2>2 DEF UpdateBatchJob
    <3>3. /\ row'[j] = IF check[p][j] # was[p][j] THEN check[p][j] ELSE row[j]
          /\ response'[j] = (response[j] \/ check[p][j] = "COMPLETED")
          /\ check[p][j] \in Final \cup {"PROCESSING"}
      BY <2>2 DEF UpdateBatchJob, TypeOK
    <3>4. check[p][j] \in Final => check[p][j] # was[p][j] /\ check[p][j] = provider[j]
      BY DEF Answers, TypeOK, Final, Pending
    <3>5. row'[j] = "COMPLETED" => provider[j] = "COMPLETED" /\ response'[j]
      BY <3>3, <3>4 DEF Rows, Final
    <3>6. row'[j] = "FAILED" => provider[j] = "FAILED" \/ j \in erred
      BY <3>3, <3>4 DEF Rows, Final
    <3>7. QED  BY <3>1, <3>2, <3>5, <3>6 DEF Rows
  <2>3. CASE MarkJobAsFailed(p, j)
    BY <1>4, <2>3 DEF MarkJobAsFailed, Answers, Rows, TypeOK
  <2>4. QED  BY <2>1, <2>2, <2>3 DEF Check
<1>11. RunGetsTheVerdict'
  BY <1>4 DEF RunGetsTheVerdict
<1>12. QED  BY <1>5, <1>7, <1>8, <1>9, <1>10, <1>11

LEMMA InvNext == Inv /\ [Next]_vars => Inv'
<1> SUFFICES ASSUME Inv, [Next]_vars PROVE Inv'
  OBVIOUS
<1>1. CASE UNCHANGED vars
  BY <1>1 DEF Inv, TypeOK, Submissions, Asked, Answers, Rows, RunGetsTheVerdict, UnderWay,
     vars, pollVars
<1>2. ASSUME NEW j \in Job, \/ Submission(j) \/ SubmitThrows(j) \/ SubmitDies(j)
                            \/ ProviderFinishes(j) \/ TakeOutcome(j)
      PROVE  Inv'
  <2>1. UNCHANGED pollVars
    BY <1>2 DEF Submission, CreateBatchJob, SubmitBatch, RecordBatchId, SubmitThrows,
       SubmitDies, ProviderFinishes, TakeOutcome
  <2>2. QED  BY <1>2, <2>1, OutsidePolls
<1>3. ASSUME NEW p \in Poll, BeginPoll(p) \/ NextChunk(p) \/ PollDies(p)  PROVE Inv'
  BY <1>3, WholePolls
<1>4. ASSUME NEW p \in Poll, NEW j \in Job, Check(p, j) \/ CheckThrows(p, j)  PROVE Inv'
  BY <1>4, Checks
<1>5. QED  BY <1>1, <1>2, <1>3, <1>4 DEF Next

-----------------------------------------------------------------------------

(* The invariant of BatchPolling, for any jobs, polls and bounds.          *)
THEOREM Invariance == Spec => []Inv
<1>1. QED  BY InvInit, InvNext, PTL DEF Spec

(* Every variable has its type, and no poll has more checks under way than *)
(* a chunk has (pollBatchJobsForAllProviders).                             *)
THEOREM TypeCorrect == Spec => []TypeOK
<1>1. Inv => TypeOK
  BY DEF Inv
<1>2. QED  BY <1>1, Invariance, PTL

(* However many polls overlap, a row that says COMPLETED has a response    *)
(* and a batch that the provider completed (updateBatchJobStatus).  A row  *)
(* may be put back by a late answer, and says FAILED after any error.      *)
THEOREM CompletedHasResponseCorrect == Spec => []CompletedHasResponse
<1>1. Inv => CompletedHasResponse
  BY DEF Inv, Rows, CompletedHasResponse
<1>2. QED  BY <1>1, Invariance, PTL

(* A paused run is resumed with COMPLETED only if the provider completed   *)
(* its batch, and with FAILED only if the provider failed it or a check of *)
(* this very job met an error (findFlowsReadyForResumption).               *)
THEOREM RunGetsTheVerdictCorrect == Spec => []RunGetsTheVerdict
<1>1. Inv => RunGetsTheVerdict
  BY DEF Inv
<1>2. QED  BY <1>1, Invariance, PTL
=============================================================================
