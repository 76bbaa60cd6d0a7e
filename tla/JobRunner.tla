------------------------------ MODULE JobRunner ------------------------------
(***************************************************************************)
(* InProcessJobRunner: a queue in memory.  Every enqueue that is not a     *)
(* duplicate schedules a call of processNextBatch of its own, so as many   *)
(* loops may walk the queue at a time as jobs were accepted; the loop that *)
(* the enqueue of job j scheduled is called j too.  A loop walks by index, *)
(* and is suspended while the handler of the job it spliced out runs:      *)
(* meanwhile others splice the same array.  Between two awaits nothing     *)
(* else runs, so a step is all that happens from one await to the next.    *)
(***************************************************************************)
EXTENDS Naturals, SequencesExt

CONSTANTS
  Job, NoJob,
  Key, NoKey,
  KeyOf,           \* the idempotencyKey of each job, or NoKey
  Delay,           \* delaySeconds of each job
  MaxAttempts,     \* maxAttempts of each job
  Handled,         \* the jobs whose jobType has a handler
  TTL,             \* idempotencyTtlMs
  MaxClock         \* bound: the clock stops there

ASSUME JobRunnerAssumption ==
  /\ NoJob \notin Job /\ NoKey \notin Key
  /\ KeyOf \in [Job -> Key \cup {NoKey}]
  /\ Delay \in [Job -> Nat]
  /\ MaxAttempts \in [Job -> Nat \ {0}]
  /\ Handled \subseteq Job
  /\ TTL \in Nat /\ MaxClock \in Nat

VARIABLES
  clock,           \* Date.now()
  queue,           \* the jobs not yet spliced out
  seen, expiresAt, \* seenIdempotency: the job of a key, and for how long
  status,          \* what has become of each job
  runAfter, attempts,            \* the fields of a PendingJob
  microtasks,      \* the loops scheduled and not yet begun, in order
  pc, current,     \* each loop of processNextBatch, and the job it handles
  at, left, now    \* its index, limit - processed, and the time it began

loopVars == <<pc, current, at, left, now>>
vars == <<clock, queue, seen, expiresAt, status, runAfter, attempts, microtasks,
          loopVars>>

TypeOK ==
  /\ clock \in 0..MaxClock
  /\ queue \in Seq(Job)
  /\ seen \in [Key -> Job \cup {NoJob}]
  /\ expiresAt \in [Key -> Nat]
  /\ status \in [Job -> {"new", "duplicate", "queued", "running",
                         "succeeded", "failed", "dropped"}]
  /\ runAfter \in [Job -> Nat]
  /\ attempts \in [Job -> Nat]
  /\ microtasks \in Seq(Job)
  /\ pc \in [Job -> {"none", "scheduled", "handling", "returned", "over"}]
  /\ current \in [Job -> Job \cup {NoJob}]
  /\ at \in [Job -> Nat \ {0}]
  /\ left \in [Job -> Nat]
  /\ now \in [Job -> Nat]

Init ==
  /\ clock = 0 /\ queue = <<>> /\ microtasks = <<>>
  /\ seen = [k \in Key |-> NoJob] /\ expiresAt = [k \in Key |-> 0]
  /\ status = [j \in Job |-> "new"]
  /\ runAfter = [j \in Job |-> 0] /\ attempts = [j \in Job |-> 0]
  /\ pc = [l \in Job |-> "none"] /\ current = [l \in Job |-> NoJob]
  /\ at = [l \in Job |-> 1] /\ left = [l \in Job |-> 0] /\ now = [l \in Job |-> 0]

-----------------------------------------------------------------------------

(* pruneIdempotency: what is left of the entry of a key.                   *)
Pruned(k) == IF expiresAt[k] <= clock THEN NoJob ELSE seen[k]

(* enqueue of a job whose key is remembered: the caller gets its jobId.    *)
EnqueueDuplicate(j) ==
  /\ status[j] = "new" /\ KeyOf[j] # NoKey
  /\ Pruned(KeyOf[j]) # NoJob
  /\ seen' = [k \in Key |-> Pruned(k)]
  /\ status' = [status EXCEPT ![j] = "duplicate"]
  /\ UNCHANGED <<clock, queue, expiresAt, runAfter, attempts, microtasks, loopVars>>

MistakenRemember(j) ==
  IF KeyOf[j] = NoKey
  THEN UNCHANGED <<seen, expiresAt>>
  ELSE /\ Pruned(KeyOf[j]) = NoJob
       /\ seen' = [k \in Key |-> IF k = KeyOf[j] THEN j ELSE Pruned(k)]
       /\ expiresAt' = [expiresAt EXCEPT ![KeyOf[j]] = clock]

(* An entry for the key, or nothing.                                       *)
Remember(j) ==
  IF KeyOf[j] = NoKey
  THEN UNCHANGED <<seen, expiresAt>>
  ELSE /\ Pruned(KeyOf[j]) = NoJob
       /\ seen' = [k \in Key |-> IF k = KeyOf[j] THEN j ELSE Pruned(k)]
       /\ expiresAt' = [expiresAt EXCEPT ![KeyOf[j]] = clock + TTL]

(* Any other enqueue; its processNextBatch is left to a microtask.         *)
Enqueue(j) ==
  /\ status[j] = "new"
  /\ Remember(j)
  /\ queue' = Append(queue, j)
  /\ runAfter' = [runAfter EXCEPT ![j] = clock + Delay[j]]
  /\ status' = [status EXCEPT ![j] = "queued"]
  /\ microtasks' = Append(microtasks, j)
  /\ pc' = [pc EXCEPT ![j] = "scheduled"]
  /\ UNCHANGED <<clock, attempts, current, at, left, now>>

Due(p, t) == runAfter[queue[p]] <= t

MistakenSpliced(p) == queue

Spliced(p) == RemoveAt(queue, p)

(* The splice has moved the next entry to the index.                       *)
IndexAfter(p) == p

(* The first entry from index on that is due is spliced out, and its       *)
(* handler called; without a handler the job is dropped.                   *)
Take(l, p, t) ==
  LET j == queue[p] IN
  /\ queue' = Spliced(p)
  /\ at' = [at EXCEPT ![l] = IndexAfter(p)]
  /\ IF j \in Handled
     THEN /\ status' = [status EXCEPT ![j] = "running"]
          /\ attempts' = [attempts EXCEPT ![j] = 1]
          /\ current' = [current EXCEPT ![l] = j]
          /\ pc' = [pc EXCEPT ![l] = "handling"]
     ELSE /\ status' = [status EXCEPT ![j] = "dropped"]
          /\ pc' = [pc EXCEPT ![l] = "returned"]
          /\ UNCHANGED <<attempts, current>>

(* The loop, from index i with n jobs left to process, to its next await.  *)
Walk(l, i, n, t) ==
  /\ now' = [now EXCEPT ![l] = t]
  /\ \/ /\ n > 0
        /\ \E p \in i..Len(queue) :
             /\ Due(p, t) /\ \A q \in i..(p - 1) : ~Due(q, t)
             /\ Take(l, p, t)
        /\ left' = [left EXCEPT ![l] = n - 1]
     \/ /\ n = 0 \/ \A p \in i..Len(queue) : ~Due(p, t)
        /\ pc' = [pc EXCEPT ![l] = "over"]
        /\ at' = [at EXCEPT ![l] = 1] /\ left' = [left EXCEPT ![l] = 0]
        /\ UNCHANGED <<queue, status, attempts, current>>
  /\ UNCHANGED <<clock, seen, expiresAt, runAfter>>

MistakenBatchOneShort(l) ==
  /\ pc[l] = "scheduled"
  /\ microtasks # <<>> /\ Head(microtasks) = l
  /\ microtasks' = Tail(microtasks)
  /\ Walk(l, 1, Len(queue) - 1, clock)

(* The limit is the length of the queue when the loop begins.              *)
ProcessNextBatch(l) ==
  /\ pc[l] = "scheduled"
  /\ microtasks # <<>> /\ Head(microtasks) = l
  /\ microtasks' = Tail(microtasks)
  /\ Walk(l, 1, Len(queue), clock)

ContinueBatch(l) ==
  /\ pc[l] = "returned"
  /\ Walk(l, at[l], left[l], now[l])
  /\ UNCHANGED microtasks

Leave(l, s) ==
  /\ status' = [status EXCEPT ![current[l]] = s]
  /\ current' = [current EXCEPT ![l] = NoJob]
  /\ pc' = [pc EXCEPT ![l] = "returned"]

HandlerReturns(l) ==
  /\ pc[l] = "handling"
  /\ Leave(l, "succeeded")
  /\ UNCHANGED <<clock, queue, seen, expiresAt, runAfter, attempts, microtasks, at,
                 left, now>>

MistakenHandlerThrows(l) ==
  /\ pc[l] = "handling"
  /\ IF attempts[current[l]] > MaxAttempts[current[l]]
     THEN Leave(l, "failed") /\ UNCHANGED attempts
     ELSE /\ attempts' = [attempts EXCEPT ![current[l]] = @ + 1]
          /\ UNCHANGED <<status, current, pc>>
  /\ UNCHANGED <<clock, queue, seen, expiresAt, runAfter, microtasks, at, left, now>>

(* A failed attempt is repeated at once, by the same loop.                 *)
HandlerThrows(l) ==
  /\ pc[l] = "handling"
  /\ IF attempts[current[l]] >= MaxAttempts[current[l]]
     THEN Leave(l, "failed") /\ UNCHANGED attempts
     ELSE /\ attempts' = [attempts EXCEPT ![current[l]] = @ + 1]
          /\ UNCHANGED <<status, current, pc>>
  /\ UNCHANGED <<clock, queue, seen, expiresAt, runAfter, microtasks, at, left, now>>

Tick ==
  /\ clock < MaxClock
  /\ clock' = clock + 1
  /\ UNCHANGED <<queue, seen, expiresAt, status, runAfter, attempts, microtasks, loopVars>>

Progress(l) == \/ ProcessNextBatch(l) \/ ContinueBatch(l)
               \/ HandlerReturns(l) \/ HandlerThrows(l)

Next ==
  \/ \E j \in Job : EnqueueDuplicate(j) \/ Enqueue(j)
  \/ \E l \in Job : Progress(l)
  \/ Tick

Spec == Init /\ [][Next]_vars

(* Microtasks run and handlers come back; nobody has to enqueue anything.  *)
FairSpec == Spec /\ \A l \in Job : WF_vars(Progress(l))

-----------------------------------------------------------------------------

Accepted(j) == status[j] \notin {"new", "duplicate"}

(***************************************************************************)
(* A job is in one place: once in the queue, or with the one loop that     *)
(* handles it, or gone.  However the loops splice the array under each     *)
(* other, none takes an entry another has, and no job is handled by two.   *)
(***************************************************************************)
OneHolder ==
  /\ \A p, q \in DOMAIN queue : queue[p] = queue[q] => p = q
  /\ \A j \in Job : (status[j] = "queued") <=> (\E p \in DOMAIN queue : queue[p] = j)
  /\ \A l \in Job : (pc[l] = "handling") <=> (current[l] # NoJob)
  /\ \A l \in Job : current[l] # NoJob => status[current[l]] = "running"
  /\ \A l, m \in Job : (current[l] = current[m] /\ current[l] # NoJob) => l = m

(***************************************************************************)
(* Two jobs with one key are both accepted only when the entry of the      *)
(* first had run out before the second came (jobs enter at runAfter less   *)
(* their delay).  The flow run of a repeated request is executed once.     *)
(***************************************************************************)
OncePerKey ==
  \A i, j \in Job :
    (i # j /\ Accepted(i) /\ Accepted(j) /\ KeyOf[i] = KeyOf[j] /\ KeyOf[i] # NoKey)
      => LET enqueued(k) == runAfter[k] - Delay[k]
         IN  enqueued(i) + TTL <= enqueued(j) \/ enqueued(j) + TTL <= enqueued(i)

(* A job enqueued without delay succeeds, fails or is dropped in the end.  *)
JobsSettle ==
  \A j \in Job : (status[j] = "queued" /\ Delay[j] = 0)
                   ~> (status[j] \in {"succeeded", "failed", "dropped"})

(* The queue and its loops keep the promise of JobDelivery.                *)
FateOf(s) == CASE s = "duplicate" -> "refused" [] s = "queued" -> "waiting"
               [] s = "running" -> "tried" [] s = "dropped" -> "unhandled"
               [] OTHER -> s

Delivery == INSTANCE JobDelivery
              WITH fate <- [j \in Job |-> FateOf(status[j])], tries <- attempts

KeepsPromise == Delivery!Spec
=============================================================================
