--------------------------- MODULE JobRunnerProofs ---------------------------
(***************************************************************************)
(* Proofs about JobRunner, for any jobs, keys, delays and attempts: a job  *)
(* has one holder, a key admits one job while its entry lives, and the     *)
(* queue with its overlapping loops implements JobDelivery.                *)
(***************************************************************************)
EXTENDS JobRunner, TLAPS

Status == {"new", "duplicate", "queued", "running", "succeeded", "failed", "dropped"}

Queued(j) == \E p \in DOMAIN queue : queue[p] = j

(* A loop exists when its job has entered.                                 *)
LoopsHaveEntered == \A l \in Job : status[l] = "new" => pc[l] = "none"

AttemptsBounded ==
  \A j \in Job : status[j] = "running" => attempts[j] \in 1..MaxAttempts[j]

(* When a job entered the queue.                                           *)
Entered(j) == runAfter[j] - Delay[j]

(***************************************************************************)
(* An entry stands for a job that was accepted with its key.  The time of  *)
(* a key is that of the last such job, and an entry goes only when that    *)
(* time is over.                                                           *)
(***************************************************************************)
EntriesAgree ==
  /\ \A k \in Key : seen[k] # NoJob => KeyOf[seen[k]] = k /\ Accepted(seen[k])
  /\ \A j \in Job : Accepted(j) => Entered(j) \in 0..clock
  /\ \A j \in Job : (Accepted(j) /\ KeyOf[j] # NoKey) =>
       /\ Entered(j) + TTL <= expiresAt[KeyOf[j]]
       /\ seen[KeyOf[j]] = NoJob => expiresAt[KeyOf[j]] <= clock

Inv == TypeOK /\ OneHolder /\ LoopsHaveEntered /\ AttemptsBounded /\ EntriesAgree /\ OncePerKey

-----------------------------------------------------------------------------

LEMMA KeysOfJobs == \A j \in Job : KeyOf[j] \in Key \cup {NoKey}
  BY JobRunnerAssumption

(* What is left when an entry is spliced out of the queue.                 *)
LEMMA Splicing ==
  ASSUME NEW S, NEW s \in Seq(S), NEW p \in 1..Len(s),
         \A a, b \in DOMAIN s : s[a] = s[b] => a = b
  PROVE  /\ RemoveAt(s, p) \in Seq(S)
         /\ \A a, b \in DOMAIN RemoveAt(s, p) :
              RemoveAt(s, p)[a] = RemoveAt(s, p)[b] => a = b
         /\ \A x : (\E a \in DOMAIN RemoveAt(s, p) : RemoveAt(s, p)[a] = x)
                     <=> (x # s[p] /\ \E a \in DOMAIN s : s[a] = x)
<1> DEFINE r == RemoveAt(s, p)
<1>1. /\ r \in Seq(S) /\ Len(r) = Len(s) - 1
      /\ \A a \in 1..(p - 1) : r[a] = s[a]
      /\ \A a \in p..(Len(s) - 1) : r[a] = s[a + 1]
  <2> DEFINE front == SubSeq(s, 1, p - 1)
             back  == SubSeq(s, p + 1, Len(s))
  <2>1. Len(s) \in Nat /\ p \in Nat /\ p >= 1 /\ p <= Len(s)
    OBVIOUS
  <2>2. /\ front \in Seq(S) /\ Len(front) = p - 1
        /\ \A a \in 1..(p - 1) : front[a] = s[a]
    BY <2>1
  <2>3. /\ back \in Seq(S) /\ Len(back) = Len(s) - p
        /\ \A a \in 1..(Len(s) - p) : back[a] = s[p + a]
    <3>1. CASE p = Len(s)
      BY <2>1, <3>1
    <3>2. CASE p < Len(s)
      BY <2>1, <3>2
    <3>3. QED  BY <2>1, <3>1, <3>2
  <2>4. r = front \o back
    BY DEF RemoveAt
  <2> HIDE DEF front, back
  <2>5. r \in Seq(S) /\ Len(r) = Len(s) - 1
    BY <2>1, <2>2, <2>3, <2>4
  <2>6. \A a \in 1..(p - 1) : r[a] = s[a]
    BY <2>1, <2>2, <2>3, <2>4
  <2>7. ASSUME NEW a \in p..(Len(s) - 1)  PROVE r[a] = s[a + 1]
    <3>1. a - (p - 1) \in 1..(Len(s) - p) /\ p + (a - (p - 1)) = a + 1
      BY <2>1
    <3>2. r[a] = back[a - (p - 1)]
      BY <2>1, <2>2, <2>3, <2>4, <3>1
    <3>3. QED  BY <2>3, <3>1, <3>2
  <2>8. QED  BY <2>5, <2>6, <2>7
<1> HIDE DEF r
<1>2. DOMAIN r = 1..(Len(s) - 1) /\ DOMAIN s = 1..Len(s)
  BY <1>1
<1>3. ASSUME NEW a \in DOMAIN r, NEW b \in DOMAIN r, r[a] = r[b]  PROVE a = b
  <2> DEFINE at0(c) == IF c < p THEN c ELSE c + 1
  <2>1. \A c \in DOMAIN r : at0(c) \in DOMAIN s /\ r[c] = s[at0(c)]
    BY <1>1, <1>2
  <2>2. at0(a) = at0(b)
    BY <1>3, <2>1
  <2>3. a \in Int /\ b \in Int /\ p \in Int
    BY <1>2
  <2>4. QED  BY <2>2, <2>3
<1>4. ASSUME NEW x
      PROVE  (\E a \in DOMAIN r : r[a] = x) <=> (x # s[p] /\ \E a \in DOMAIN s : s[a] = x)
  <2>1. ASSUME NEW a \in DOMAIN r, r[a] = x
        PROVE  x # s[p] /\ \E b \in DOMAIN s : s[b] = x
    <3>1. CASE a < p
      BY <1>1, <1>2, <2>1, <3>1
    <3>2. CASE a >= p
      BY <1>1, <1>2, <2>1, <3>2
    <3>3. QED  BY <1>1, <1>2, <2>1, <3>1, <3>2
  <2>2. ASSUME x # s[p], NEW a \in DOMAIN s, s[a] = x
        PROVE  \E b \in DOMAIN r : r[b] = x
    <3>1. CASE a < p
      BY <1>1, <1>2, <2>2, <3>1
    <3>2. CASE a > p
      <4>1. a - 1 \in DOMAIN r /\ r[a - 1] = s[a]
        BY <1>1, <1>2, <2>2, <3>2
      <4>2. QED  BY <2>2, <4>1
    <3>3. a \in Int /\ p \in Int /\ a # p
      BY <1>2, <2>2
    <3>4. QED  BY <3>1, <3>2, <3>3
  <2>3. QED  BY <2>1, <2>2
<1>5. QED  BY <1>1, <1>3, <1>4 DEF r

-----------------------------------------------------------------------------
(* Types.                                                                  *)

LEMMA InitInv == Init => Inv
<1> SUFFICES ASSUME Init PROVE Inv
  OBVIOUS
<1>1. TypeOK
  BY JobRunnerAssumption DEF Init, TypeOK
<1>2. OneHolder /\ LoopsHaveEntered /\ AttemptsBounded
  BY DEF Init, OneHolder, LoopsHaveEntered, AttemptsBounded
<1>3. EntriesAgree /\ OncePerKey
  BY DEF Init, EntriesAgree, OncePerKey, Accepted
<1>4. QED  BY <1>1, <1>2, <1>3 DEF Inv

(* What the two steps of a loop have in common: it walks from an index.    *)
LEMMA LoopsWalk ==
  ASSUME TypeOK, NEW l \in Job, ProcessNextBatch(l) \/ ContinueBatch(l)
  PROVE  \E i \in Nat \ {0}, n \in Nat, t \in Nat :
           Walk(l, i, n, t) /\ pc[l] \in {"scheduled", "returned"}
           /\ microtasks' \in Seq(Job)
<1>1. CASE ProcessNextBatch(l)
  BY <1>1 DEF ProcessNextBatch, TypeOK
<1>2. CASE ContinueBatch(l)
  BY <1>2 DEF ContinueBatch, TypeOK
<1>3. QED  BY <1>1, <1>2

LEMMA HandledJob ==
  ASSUME TypeOK, OneHolder, NEW l \in Job, pc[l] = "handling"
  PROVE  current[l] \in Job /\ status[current[l]] = "running"
  BY JobRunnerAssumption DEF TypeOK, OneHolder

LEMMA WalkTypes ==
  ASSUME TypeOK, OneHolder, NEW l \in Job, NEW i \in Nat \ {0}, NEW n \in Nat,
         NEW t \in Nat, Walk(l, i, n, t), microtasks' \in Seq(Job)
  PROVE  TypeOK'
<1>1. /\ queue \in Seq(Job) /\ Len(queue) \in Nat
      /\ at \in [Job -> Nat \ {0}] /\ left \in [Job -> Nat] /\ now \in [Job -> Nat]
      /\ attempts \in [Job -> Nat] /\ status \in [Job -> Status]
      /\ current \in [Job -> Job \cup {NoJob}]
      /\ pc \in [Job -> {"none", "scheduled", "handling", "returned", "over"}]
  BY DEF TypeOK, Status
<1>2. now' \in [Job -> Nat]
  BY <1>1 DEF Walk
<1>3. ASSUME n > 0, NEW p \in i..Len(queue), Take(l, p, t), left' = [left EXCEPT ![l] = n - 1]
      PROVE  TypeOK'
  <2>1. p \in 1..Len(queue) /\ p \in Nat \ {0}
    BY <1>1
  <2>2. queue[p] \in Job
    BY <1>1, <2>1
  <2>3. queue' \in Seq(Job)
    BY <1>1, <1>3, <2>1, Splicing DEF Take, Spliced, OneHolder
  <2>4. at' \in [Job -> Nat \ {0}]
    <3>1. at' = [at EXCEPT ![l] = p]
      BY <1>3 DEF Take, IndexAfter
    <3>2. QED  BY <1>1, <2>1, <3>1
  <2>5. left' \in [Job -> Nat]
    <3>1. n - 1 \in Nat
      BY <1>3
    <3>2. QED  BY <1>1, <1>3, <3>1
  <2>6. CASE queue[p] \in Handled
    <3>1. /\ status' = [status EXCEPT ![queue[p]] = "running"]
          /\ attempts' = [attempts EXCEPT ![queue[p]] = 1]
          /\ current' = [current EXCEPT ![l] = queue[p]]
          /\ pc' = [pc EXCEPT ![l] = "handling"]
      BY <1>3, <2>6 DEF Take
    <3>2. /\ status' \in [Job -> Status] /\ attempts' \in [Job -> Nat]
          /\ current' \in [Job -> Job \cup {NoJob}]
          /\ pc' \in [Job -> {"none", "scheduled", "handling", "returned", "over"}]
      BY <1>1, <2>2, <3>1 DEF Status
    <3>3. QED  BY <1>2, <2>3, <2>4, <2>5, <3>2 DEF Walk, TypeOK, Status
  <2>7. CASE queue[p] \notin Handled
    <3>1. /\ status' = [status EXCEPT ![queue[p]] = "dropped"]
          /\ pc' = [pc EXCEPT ![l] = "returned"]
          /\ UNCHANGED <<attempts, current>>
      BY <1>3, <2>7 DEF Take
    <3>2. /\ status' \in [Job -> Status]
          /\ pc' \in [Job -> {"none", "scheduled", "handling", "returned", "over"}]
      BY <1>1, <2>2, <3>1 DEF Status
    <3>3. QED  BY <1>1, <1>2, <2>3, <2>4, <2>5, <3>1, <3>2 DEF Walk, TypeOK, Status
  <2>8. QED  BY <2>6, <2>7
<1>4. CASE /\ pc' = [pc EXCEPT ![l] = "over"]
           /\ at' = [at EXCEPT ![l] = 1] /\ left' = [left EXCEPT ![l] = 0]
           /\ UNCHANGED <<queue, status, attempts, current>>
  <2>1. /\ at' \in [Job -> Nat \ {0}] /\ left' \in [Job -> Nat]
        /\ pc' \in [Job -> {"none", "scheduled", "handling", "returned", "over"}]
    BY <1>1, <1>4
  <2>2. QED  BY <1>1, <1>2, <1>4, <2>1 DEF Walk, TypeOK, Status
<1>5. QED  BY <1>3, <1>4 DEF Walk

LEMMA TypesNext == TypeOK /\ OneHolder /\ [Next]_vars => TypeOK'
<1> SUFFICES ASSUME TypeOK, OneHolder, [Next]_vars PROVE TypeOK'
  OBVIOUS
<1>1. ASSUME NEW j \in Job, EnqueueDuplicate(j) PROVE TypeOK'
  BY <1>1, JobRunnerAssumption DEF EnqueueDuplicate, Pruned, TypeOK, loopVars
<1>2. ASSUME NEW j \in Job, Enqueue(j) PROVE TypeOK'
  <2>1. seen' \in [Key -> Job \cup {NoJob}] /\ expiresAt' \in [Key -> Nat]
    <3>1. CASE KeyOf[j] = NoKey
      BY <1>2, <3>1 DEF Enqueue, Remember, TypeOK
    <3>2. CASE KeyOf[j] # NoKey
      <4>1. KeyOf[j] \in Key /\ clock + TTL \in Nat
        BY <3>2, JobRunnerAssumption DEF TypeOK
      <4>2. /\ seen' = [k \in Key |-> IF k = KeyOf[j] THEN j ELSE Pruned(k)]
            /\ expiresAt' = [expiresAt EXCEPT ![KeyOf[j]] = clock + TTL]
        BY <1>2, <3>2 DEF Enqueue, Remember
      <4>3. \A k \in Key : Pruned(k) \in Job \cup {NoJob}
        BY DEF Pruned, TypeOK
      <4>4. QED  BY <4>1, <4>2, <4>3 DEF TypeOK
    <3>3. QED  BY <3>1, <3>2
  <2>2. runAfter' \in [Job -> Nat]
    <3>1. clock + Delay[j] \in Nat
      BY JobRunnerAssumption DEF TypeOK
    <3>2. QED  BY <1>2, <3>1 DEF Enqueue, TypeOK
  <2>3. queue' \in Seq(Job) /\ microtasks' \in Seq(Job)
    BY <1>2 DEF Enqueue, TypeOK
  <2>4. QED  BY <1>2, <2>1, <2>2, <2>3 DEF Enqueue, TypeOK
<1>3. ASSUME NEW l \in Job, ProcessNextBatch(l) \/ ContinueBatch(l) PROVE TypeOK'
  BY <1>3, LoopsWalk, WalkTypes
<1>4. ASSUME NEW l \in Job, HandlerReturns(l) PROVE TypeOK'
  BY <1>4, HandledJob DEF HandlerReturns, Leave, TypeOK
<1>5. ASSUME NEW l \in Job, HandlerThrows(l) PROVE TypeOK'
  <2>1. pc[l] = "handling" /\ current[l] \in Job
    BY <1>5, HandledJob DEF HandlerThrows
  <2>2. CASE Leave(l, "failed") /\ UNCHANGED attempts
    BY <1>5, <2>1, <2>2 DEF HandlerThrows, Leave, TypeOK
  <2>3. CASE /\ attempts' = [attempts EXCEPT ![current[l]] = @ + 1]
             /\ UNCHANGED <<status, current, pc>>
    <3>1. attempts' \in [Job -> Nat]
      BY <2>1, <2>3 DEF TypeOK
    <3>2. QED  BY <1>5, <2>3, <3>1 DEF HandlerThrows, TypeOK
  <2>4. QED  BY <1>5, <2>2, <2>3 DEF HandlerThrows
<1>6. CASE Tick
  BY <1>6, JobRunnerAssumption DEF Tick, TypeOK, loopVars
<1>7. CASE UNCHANGED vars
  BY <1>7 DEF vars, loopVars, TypeOK
<1>8. QED  BY <1>1, <1>2, <1>3, <1>4, <1>5, <1>6, <1>7 DEF Next, Progress

-----------------------------------------------------------------------------
(* Where the jobs are.                                                     *)

Places == OneHolder /\ LoopsHaveEntered /\ AttemptsBounded

(* A loop that takes a job out of the queue is the only one to have it.    *)
LEMMA TakePlaces ==
  ASSUME TypeOK, Places, NEW l \in Job, pc[l] \in {"scheduled", "returned"},
         NEW p \in 1..Len(queue), NEW t, Take(l, p, t)
  PROVE  Places'
<1> DEFINE j == queue[p]
<1>1. /\ queue \in Seq(Job) /\ status \in [Job -> Status] /\ attempts \in [Job -> Nat]
      /\ current \in [Job -> Job \cup {NoJob}]
      /\ pc \in [Job -> {"none", "scheduled", "handling", "returned", "over"}]
  BY DEF TypeOK, Status
<1>2. j \in Job /\ p \in DOMAIN queue
  BY <1>1
<1>3. /\ \A a, b \in DOMAIN queue : queue[a] = queue[b] => a = b
      /\ \A x \in Job : (status[x] = "queued") <=> (\E a \in DOMAIN queue : queue[a] = x)
      /\ \A m \in Job : (pc[m] = "handling") <=> (current[m] # NoJob)
      /\ \A m \in Job : current[m] # NoJob => status[current[m]] = "running"
      /\ \A m, k \in Job : (current[m] = current[k] /\ current[m] # NoJob) => m = k
  BY DEF Places, OneHolder
<1>4. status[j] = "queued" /\ current[l] = NoJob
  BY <1>2, <1>3
<1>5. /\ queue' = RemoveAt(queue, p)
      /\ \A a, b \in DOMAIN queue' : queue'[a] = queue'[b] => a = b
      /\ \A x : (\E a \in DOMAIN queue' : queue'[a] = x)
                  <=> (x # j /\ \E a \in DOMAIN queue : queue[a] = x)
  <2>1. queue' = RemoveAt(queue, p)
    BY DEF Take, Spliced
  <2>2. \A a, b \in DOMAIN queue : queue[a] = queue[b] => a = b
    BY <1>3
  <2> HIDE DEF j
  <2>3. /\ \A a, b \in DOMAIN RemoveAt(queue, p) :
             RemoveAt(queue, p)[a] = RemoveAt(queue, p)[b] => a = b
        /\ \A x : (\E a \in DOMAIN RemoveAt(queue, p) : RemoveAt(queue, p)[a] = x)
                    <=> (x # queue[p] /\ \E a \in DOMAIN queue : queue[a] = x)
    BY <1>1, <2>2, Splicing
  <2>4. QED  BY <2>1, <2>3 DEF j
<1>6. \A m \in Job : current[m] # j
  BY <1>2, <1>3, <1>4, JobRunnerAssumption
<1>7. \A x \in Job : status[x] = "new" => x # j /\ pc[x] = "none"
  BY <1>4 DEF Places, LoopsHaveEntered
<1> HIDE DEF j
<1>8. CASE j \in Handled
  <2>1. /\ status' = [status EXCEPT ![j] = "running"]
        /\ attempts' = [attempts EXCEPT ![j] = 1]
        /\ current' = [current EXCEPT ![l] = j]
        /\ pc' = [pc EXCEPT ![l] = "handling"]
    BY <1>8 DEF Take, j
  <2>2. \A x \in Job : (status'[x] = "queued") <=> (\E a \in DOMAIN queue' : queue'[a] = x)
    BY <1>1, <1>2, <1>3, <1>5, <2>1
  <2>3. \A m \in Job : (pc'[m] = "handling") <=> (current'[m] # NoJob)
    BY <1>1, <1>2, <1>3, <2>1, JobRunnerAssumption
  <2>4. \A m \in Job : current'[m] # NoJob => status'[current'[m]] = "running"
    BY <1>1, <1>2, <1>3, <1>6, <2>1
  <2>5. \A m, k \in Job : (current'[m] = current'[k] /\ current'[m] # NoJob) => m = k
    BY <1>1, <1>2, <1>3, <1>6, <2>1
  <2>6. OneHolder'
    BY <1>5, <2>2, <2>3, <2>4, <2>5 DEF OneHolder
  <2>7. LoopsHaveEntered'
    BY <1>1, <1>2, <1>7, <2>1 DEF LoopsHaveEntered
  <2>8. AttemptsBounded'
    <3>1. 1 \in 1..MaxAttempts[j]
      BY <1>2, JobRunnerAssumption
    <3>2. QED  BY <1>1, <1>2, <2>1, <3>1 DEF Places, AttemptsBounded
  <2>9. QED  BY <2>6, <2>7, <2>8 DEF Places
<1>9. CASE j \notin Handled
  <2>1. /\ status' = [status EXCEPT ![j] = "dropped"]
        /\ pc' = [pc EXCEPT ![l] = "returned"]
        /\ UNCHANGED <<attempts, current>>
    BY <1>9 DEF Take, j
  <2>2. \A x \in Job : (status'[x] = "queued") <=> (\E a \in DOMAIN queue' : queue'[a] = x)
    BY <1>1, <1>2, <1>3, <1>5, <2>1
  <2>3. \A m \in Job : (pc'[m] = "handling") <=> (current'[m] # NoJob)
    BY <1>1, <1>3, <1>4, <2>1
  <2>4. \A m \in Job : current'[m] # NoJob => status'[current'[m]] = "running"
    BY <1>1, <1>3, <1>6, <2>1
  <2>5. OneHolder'
    BY <1>3, <1>5, <2>1, <2>2, <2>3, <2>4 DEF OneHolder
  <2>6. LoopsHaveEntered' /\ AttemptsBounded'
    BY <1>1, <1>2, <1>7, <2>1 DEF Places, LoopsHaveEntered, AttemptsBounded
  <2>7. QED  BY <2>5, <2>6 DEF Places
<1>10. QED  BY <1>8, <1>9

LEMMA WalkPlaces ==
  ASSUME TypeOK, Places, NEW l \in Job, pc[l] \in {"scheduled", "returned"},
         NEW i \in Nat \ {0}, NEW n \in Nat, NEW t \in Nat, Walk(l, i, n, t)
  PROVE  Places'
<1>1. CASE \E p \in i..Len(queue) : Take(l, p, t)
  <2>1. \A p \in i..Len(queue) : p \in 1..Len(queue)
    BY DEF TypeOK
  <2>2. QED  BY <1>1, <2>1, TakePlaces
<1>2. CASE /\ pc' = [pc EXCEPT ![l] = "over"]
           /\ UNCHANGED <<queue, status, attempts, current>>
  BY <1>2 DEF Places, OneHolder, LoopsHaveEntered, AttemptsBounded, TypeOK
<1>3. QED  BY <1>1, <1>2 DEF Walk

(* A handled job leaves its loop for good.                                 *)
LEMMA LeavePlaces ==
  ASSUME TypeOK, Places, NEW l \in Job, pc[l] = "handling",
         NEW s \in {"succeeded", "failed"}, Leave(l, s), UNCHANGED <<queue, attempts>>
  PROVE  Places'
<1>1. /\ current[l] \in Job /\ status[current[l]] = "running"
      /\ \A m \in Job \ {l} : current[m] # current[l]
  BY HandledJob, JobRunnerAssumption DEF Places, OneHolder
<1>2. /\ \A m \in Job : pc'[m] = IF m = l THEN "returned" ELSE pc[m]
      /\ \A m \in Job : current'[m] = IF m = l THEN NoJob ELSE current[m]
      /\ \A j \in Job : status'[j] = IF j = current[l] THEN s ELSE status[j]
      /\ current' \in [Job -> Job \cup {NoJob}]
  BY <1>1 DEF Leave, TypeOK
<1>3. OneHolder'
  <2>1. \A j \in Job : (status'[j] = "queued") <=> (\E p \in DOMAIN queue' : queue'[p] = j)
    BY <1>1, <1>2 DEF Places, OneHolder
  <2>2. ASSUME NEW m \in Job, current'[m] # NoJob  PROVE status'[current'[m]] = "running"
    <3>1. m # l /\ current'[m] = current[m]
      BY <1>2, <2>2
    <3>2. current[m] \in Job /\ current[m] # current[l] /\ status[current[m]] = "running"
      BY <1>1, <2>2, <3>1 DEF Places, OneHolder, TypeOK
    <3>3. QED  BY <1>2, <3>1, <3>2
  <2>3. \A m \in Job : (pc'[m] = "handling") <=> (current'[m] # NoJob)
    BY <1>1, <1>2 DEF Places, OneHolder
  <2>4. QED  BY <1>2, <2>1, <2>2, <2>3 DEF Places, OneHolder
<1>4. LoopsHaveEntered' /\ AttemptsBounded'
  BY <1>1, <1>2 DEF Places, LoopsHaveEntered, AttemptsBounded
<1>5. QED  BY <1>3, <1>4 DEF Places

LEMMA PlacesNext == TypeOK /\ Places /\ [Next]_vars => Places'
<1> SUFFICES ASSUME TypeOK, Places, [Next]_vars PROVE Places'
  OBVIOUS
<1>1. ASSUME NEW j \in Job, EnqueueDuplicate(j) PROVE Places'
  BY <1>1 DEF EnqueueDuplicate, Places, OneHolder, LoopsHaveEntered, AttemptsBounded,
              TypeOK, loopVars
<1>2. ASSUME NEW j \in Job, Enqueue(j) PROVE Places'
  <2>1. /\ status[j] = "new" /\ pc[j] = "none" /\ current[j] = NoJob
        /\ \A p \in DOMAIN queue : queue[p] # j
    BY <1>2 DEF Enqueue, Places, OneHolder, LoopsHaveEntered
  <2>2. /\ queue' = Append(queue, j) /\ queue \in Seq(Job)
        /\ status' = [status EXCEPT ![j] = "queued"] /\ status \in [Job -> Status]
        /\ pc' = [pc EXCEPT ![j] = "scheduled"] /\ UNCHANGED <<attempts, current>>
        /\ pc \in [Job -> {"none", "scheduled", "handling", "returned", "over"}]
    BY <1>2 DEF Enqueue, TypeOK, Status
  <2>3. /\ DOMAIN queue' = 1..(Len(queue) + 1) /\ DOMAIN queue = 1..Len(queue)
        /\ \A p \in DOMAIN queue : queue'[p] = queue[p]
        /\ queue'[Len(queue) + 1] = j
    BY <2>2
  <2>4. \A p, q \in DOMAIN queue' : queue'[p] = queue'[q] => p = q
    BY <2>1, <2>2, <2>3 DEF Places, OneHolder
  <2>5. ASSUME NEW x \in Job
        PROVE  (status'[x] = "queued") <=> (\E p \in DOMAIN queue' : queue'[p] = x)
    <3>1. CASE x = j
      <4>1. Len(queue) + 1 \in DOMAIN queue'
        BY <2>2, <2>3
      <4>2. QED  BY <2>2, <2>3, <3>1, <4>1
    <3>2. CASE x # j
      <4>1. (status'[x] = "queued") <=> (\E p \in DOMAIN queue : queue[p] = x)
        BY <2>2, <3>2 DEF Places, OneHolder
      <4>2. \A p \in DOMAIN queue' : p # Len(queue) + 1 => p \in DOMAIN queue
        BY <2>2, <2>3
      <4>3. \A p \in DOMAIN queue : p \in DOMAIN queue'
        BY <2>2, <2>3
      <4>4. QED  BY <2>3, <3>2, <4>1, <4>2, <4>3
    <3>3. QED  BY <3>1, <3>2
  <2>6. \A m \in Job : (pc'[m] = "handling") <=> (current'[m] # NoJob)
    BY <2>1, <2>2 DEF Places, OneHolder
  <2>7. \A m \in Job : current'[m] # NoJob => status'[current'[m]] = "running"
    BY <2>1, <2>2 DEF Places, OneHolder
  <2>8. OneHolder'
    BY <2>2, <2>4, <2>5, <2>6, <2>7 DEF Places, OneHolder
  <2>9. LoopsHaveEntered' /\ AttemptsBounded'
    BY <2>1, <2>2 DEF Places, LoopsHaveEntered, AttemptsBounded
  <2>10. QED  BY <2>8, <2>9 DEF Places
<1>3. ASSUME NEW l \in Job, ProcessNextBatch(l) \/ ContinueBatch(l) PROVE Places'
  BY <1>3, LoopsWalk, WalkPlaces
<1>4. ASSUME NEW l \in Job, HandlerReturns(l) PROVE Places'
  BY <1>4, LeavePlaces DEF HandlerReturns
<1>5. ASSUME NEW l \in Job, HandlerThrows(l) PROVE Places'
  <2>1. CASE Leave(l, "failed") /\ UNCHANGED attempts
    BY <1>5, <2>1, LeavePlaces DEF HandlerThrows
  <2>2. CASE /\ attempts[current[l]] < MaxAttempts[current[l]]
             /\ attempts' = [attempts EXCEPT ![current[l]] = @ + 1]
             /\ UNCHANGED <<queue, status, current, pc>>
    <3>1. /\ current[l] \in Job /\ attempts \in [Job -> Nat]
          /\ MaxAttempts[current[l]] \in Nat
      BY <1>5, HandledJob, JobRunnerAssumption DEF HandlerThrows, Places, TypeOK
    <3>2. AttemptsBounded'
      BY <2>2, <3>1 DEF Places, AttemptsBounded
    <3>3. QED  BY <2>2, <3>2 DEF Places, OneHolder, LoopsHaveEntered
  <2>3. attempts[current[l]] >= MaxAttempts[current[l]]
          \/ attempts[current[l]] < MaxAttempts[current[l]]
    <3>1. current[l] \in Job
      BY <1>5, HandledJob DEF HandlerThrows, Places
    <3>2. attempts[current[l]] \in Nat /\ MaxAttempts[current[l]] \in Nat
      BY <3>1, JobRunnerAssumption DEF TypeOK
    <3>3. QED  BY <3>2
  <2>4. QED  BY <1>5, <2>1, <2>2, <2>3 DEF HandlerThrows
<1>6. CASE Tick
  BY <1>6 DEF Tick, Places, OneHolder, LoopsHaveEntered, AttemptsBounded, loopVars
<1>7. CASE UNCHANGED vars
  BY <1>7 DEF vars, loopVars, Places, OneHolder, LoopsHaveEntered, AttemptsBounded
<1>8. QED  BY <1>1, <1>2, <1>3, <1>4, <1>5, <1>6, <1>7 DEF Next, Progress

-----------------------------------------------------------------------------
(* The entries of the keys.                                                *)

Entries == EntriesAgree /\ OncePerKey

LEMMA Times ==
  ASSUME TypeOK
  PROVE  /\ clock \in Int /\ TTL \in Nat
         /\ \A j \in Job : Entered(j) \in Int
         /\ \A k \in Key : expiresAt[k] \in Int
  BY JobRunnerAssumption DEF TypeOK, Entered

LEMMA EntriesKept ==
  ASSUME TypeOK, Entries, UNCHANGED <<seen, expiresAt, runAfter>>,
         clock' \in Nat, clock' >= clock,
         \A j \in Job : Accepted(j)' <=> Accepted(j)
  PROVE  Entries'
<1>1. \A j \in Job : Entered(j)' = Entered(j)
  BY DEF Entered
<1>2. \A k \in Key : seen[k] \in Job \cup {NoJob}
  BY DEF TypeOK
<1>3. EntriesAgree'
  <2>1. \A k \in Key : seen'[k] # NoJob => KeyOf[seen'[k]] = k /\ Accepted(seen[k])'
    BY <1>2 DEF Entries, EntriesAgree
  <2>2. \A j \in Job : Accepted(j)' => Entered(j)' \in 0..clock'
    BY <1>1, Times DEF Entries, EntriesAgree
  <2>3. \A j \in Job : (Accepted(j)' /\ KeyOf[j] # NoKey) =>
          /\ Entered(j)' + TTL <= expiresAt'[KeyOf[j]]
          /\ seen'[KeyOf[j]] = NoJob => expiresAt'[KeyOf[j]] <= clock'
    BY <1>1, Times, KeysOfJobs DEF Entries, EntriesAgree
  <2>4. QED  BY <2>1, <2>2, <2>3 DEF EntriesAgree
<1>4. OncePerKey'
  BY <1>1 DEF Entries, OncePerKey
<1>5. QED  BY <1>3, <1>4 DEF Entries

(* A refused job leaves the entries but for those that have run out.       *)
LEMMA DuplicateEntries ==
  ASSUME TypeOK, Entries, NEW j \in Job, EnqueueDuplicate(j)
  PROVE  Entries'
<1>1. /\ \A i \in Job : Accepted(i)' <=> Accepted(i)
      /\ \A i \in Job : Entered(i)' = Entered(i)
      /\ UNCHANGED <<clock, expiresAt>>
  BY DEF EnqueueDuplicate, Accepted, Entered, TypeOK
<1>2. \A k \in Key : seen'[k] = IF expiresAt[k] <= clock THEN NoJob ELSE seen[k]
  BY DEF EnqueueDuplicate, Pruned
<1>3. \A k \in Key : seen'[k] # NoJob =>
         seen'[k] \in Job /\ KeyOf[seen'[k]] = k /\ Accepted(seen'[k])
  BY <1>2 DEF Entries, EntriesAgree, TypeOK
<1>4. \A k \in Key : seen'[k] # NoJob => Accepted(seen[k])'
  <2>1. \A k \in Key : seen'[k] # NoJob => seen'[k] = seen[k]
    BY <1>2
  <2>2. ASSUME NEW k \in Key, seen'[k] # NoJob PROVE Accepted(seen[k])'
    <3>1. seen[k] \in Job /\ Accepted(seen[k]) /\ seen'[k] = seen[k]
      BY <1>3, <2>1, <2>2
    <3>2. \A i \in Job : Accepted(i) => (status'[i] \notin {"new", "duplicate"})
      BY <1>1 DEF Accepted
    <3>3. QED  BY <3>1, <3>2 DEF Accepted
  <2>3. QED  BY <2>2
<1>5. EntriesAgree'
  <2>1. \A i \in Job : (Accepted(i)' /\ KeyOf[i] # NoKey) =>
          /\ Entered(i)' + TTL <= expiresAt'[KeyOf[i]]
          /\ seen'[KeyOf[i]] = NoJob => expiresAt'[KeyOf[i]] <= clock'
    BY <1>1, <1>2, KeysOfJobs DEF Entries, EntriesAgree
  <2>2. \A i \in Job : Accepted(i)' => Entered(i)' \in 0..clock'
    BY <1>1 DEF Entries, EntriesAgree
  <2>3. QED  BY <1>3, <1>4, <2>1, <2>2 DEF EntriesAgree
<1>6. OncePerKey'
  BY <1>1 DEF Entries, OncePerKey, Entered
<1>7. QED  BY <1>5, <1>6 DEF Entries

(* A job enters when the times of all before it with its key are over.     *)
LEMMA EnqueueEntries ==
  ASSUME TypeOK, Entries, NEW j \in Job, Enqueue(j)
  PROVE  Entries'
<1> DEFINE k == KeyOf[j]
<1>1. /\ ~Accepted(j)
      /\ \A i \in Job : Accepted(i)' <=> (i = j \/ Accepted(i))
      /\ clock' = clock
  BY DEF Enqueue, Accepted, TypeOK
<1>2. /\ Entered(j)' = clock
      /\ \A i \in Job \ {j} : Entered(i)' = Entered(i)
  <2>1. clock \in Int /\ Delay[j] \in Int
    BY JobRunnerAssumption DEF TypeOK
  <2>2. /\ runAfter'[j] = clock + Delay[j]
        /\ \A i \in Job \ {j} : runAfter'[i] = runAfter[i]
    BY DEF Enqueue, TypeOK
  <2>3. QED  BY <2>1, <2>2 DEF Entered
<1>3. \A i \in Job \ {j} : (Accepted(i) /\ KeyOf[i] = k /\ k # NoKey)
        => Entered(i) + TTL <= clock
  <2>1. SUFFICES ASSUME NEW i \in Job \ {j}, Accepted(i), KeyOf[i] = k, k # NoKey
                 PROVE  Entered(i) + TTL <= clock
    OBVIOUS
  <2>2. k \in Key /\ Pruned(k) = NoJob
    BY <2>1, KeysOfJobs DEF Enqueue, Remember
  <2>3. expiresAt[k] <= clock
    BY <2>1, <2>2 DEF Pruned, Entries, EntriesAgree
  <2>4. QED  BY <2>1, <2>2, <2>3, Times DEF Entries, EntriesAgree
<1>4. \A i \in Job : Accepted(i)' => Entered(i)' \in 0..clock'
  <2>1. clock \in 0..clock
    BY JobRunnerAssumption DEF TypeOK
  <2>2. \A i \in Job \ {j} : Accepted(i)' => Entered(i)' \in 0..clock'
    BY <1>1, <1>2 DEF Entries, EntriesAgree
  <2>3. QED  BY <1>1, <1>2, <2>1, <2>2
<1>5. OncePerKey'
  <2>1. SUFFICES ASSUME NEW x \in Job, NEW y \in Job, x # y, Accepted(x)', Accepted(y)',
                        KeyOf[x] = KeyOf[y], KeyOf[x] # NoKey
                 PROVE  \/ Entered(x)' + TTL <= Entered(y)'
                        \/ Entered(y)' + TTL <= Entered(x)'
    BY DEF OncePerKey, Entered
  <2>2. CASE x = j
    BY <1>1, <1>2, <1>3, <2>1, <2>2
  <2>3. CASE y = j
    BY <1>1, <1>2, <1>3, <2>1, <2>3
  <2>4. CASE x # j /\ y # j
    <3>1. Entered(x) + TTL <= Entered(y) \/ Entered(y) + TTL <= Entered(x)
      BY <1>1, <2>1, <2>4 DEF Entries, OncePerKey, Entered
    <3>2. QED  BY <1>2, <2>1, <2>4, <3>1
  <2>5. QED  BY <2>2, <2>3, <2>4
<1>6. EntriesAgree'
  <2>1. CASE k = NoKey
    <3>1. UNCHANGED <<seen, expiresAt>>
      BY <2>1 DEF Enqueue, Remember
    <3>2. \A c \in Key : seen'[c] # NoJob => KeyOf[seen'[c]] = c /\ Accepted(seen[c])'
      BY <1>1, <3>1 DEF Entries, EntriesAgree, TypeOK
    <3>3. \A i \in Job : (Accepted(i)' /\ KeyOf[i] # NoKey) =>
            /\ Entered(i)' + TTL <= expiresAt'[KeyOf[i]]
            /\ seen'[KeyOf[i]] = NoJob => expiresAt'[KeyOf[i]] <= clock'
      BY <1>1, <1>2, <2>1, <3>1 DEF Entries, EntriesAgree
    <3>4. QED  BY <1>4, <3>1, <3>2, <3>3 DEF EntriesAgree
  <2>2. CASE k # NoKey
    <3>1. k \in Key
      BY <2>2, KeysOfJobs
    <3>2. /\ seen' = [c \in Key |-> IF c = k THEN j ELSE Pruned(c)]
          /\ expiresAt' = [expiresAt EXCEPT ![k] = clock + TTL]
      BY <2>2 DEF Enqueue, Remember
    <3>3. \A c \in Key : seen'[c] # NoJob =>
            seen'[c] \in Job /\ KeyOf[seen'[c]] = c
              /\ (seen'[c] = j \/ Accepted(seen'[c]))
      BY <3>2 DEF Pruned, Entries, EntriesAgree, TypeOK
    <3>4. \A c \in Key : seen'[c] # NoJob => status'[seen'[c]] \notin {"new", "duplicate"}
      BY <1>1, <3>3 DEF Accepted
    <3>5. /\ expiresAt'[k] = clock + TTL
          /\ \A c \in Key \ {k} : expiresAt'[c] = expiresAt[c]
          /\ seen'[k] = j
          /\ \A c \in Key \ {k} : seen'[c] = Pruned(c)
      BY <3>1, <3>2 DEF TypeOK
    <3>6. ASSUME NEW i \in Job, Accepted(i)', KeyOf[i] # NoKey
          PROVE  /\ Entered(i)' + TTL <= expiresAt'[KeyOf[i]]
                 /\ seen'[KeyOf[i]] = NoJob => expiresAt'[KeyOf[i]] <= clock'
      <4>1. KeyOf[i] \in Key
        BY <3>6, KeysOfJobs
      <4>2. CASE KeyOf[i] = k
        <5>1. Entered(i)' <= clock
          <6>1. CASE i = j
            BY <1>2, <6>1, Times
          <6>2. CASE i # j
            <7>1. Entered(i)' \in 0..clock'
              BY <1>4, <3>6
            <7>2. QED  BY <1>1, <7>1, Times
          <6>3. QED  BY <6>1, <6>2
        <5>2. Entered(i)' \in Int
          BY <1>2, Times
        <5>3. j # NoJob
          BY JobRunnerAssumption
        <5>4. QED  BY <3>5, <4>2, <5>1, <5>2, <5>3, Times
      <4>3. CASE KeyOf[i] # k
        <5>1. i # j /\ Accepted(i)
          BY <1>1, <3>6, <4>3
        <5>2. /\ Entered(i) + TTL <= expiresAt[KeyOf[i]]
              /\ seen[KeyOf[i]] = NoJob => expiresAt[KeyOf[i]] <= clock
          BY <3>6, <5>1 DEF Entries, EntriesAgree
        <5>3. QED  BY <1>1, <1>2, <3>5, <4>1, <4>3, <5>1, <5>2 DEF Pruned
      <4>4. QED  BY <4>2, <4>3
    <3>7. \A c \in Key : seen'[c] # NoJob => KeyOf[seen'[c]] = c
      BY <3>3
    <3>8. QED  BY <1>4, <3>4, <3>6, <3>7 DEF EntriesAgree, Accepted
  <2>3. QED  BY <2>1, <2>2
<1>7. QED  BY <1>5, <1>6 DEF Entries

(* A step of a loop neither accepts a job nor touches the entries.         *)
LEMMA LoopEntries ==
  ASSUME TypeOK, Places, Entries, NEW l \in Job, Progress(l)
  PROVE  Entries'
<1>1. /\ UNCHANGED <<seen, expiresAt, runAfter, clock>>
      /\ \A j \in Job : Accepted(j)' <=> Accepted(j)
  <2>1. CASE ProcessNextBatch(l) \/ ContinueBatch(l)
    <3>1. PICK i \in Nat \ {0}, n \in Nat, t \in Nat : Walk(l, i, n, t)
      BY <2>1, LoopsWalk
    <3>2. CASE \E p \in i..Len(queue) : Take(l, p, t)
      <4>1. PICK p \in i..Len(queue) : Take(l, p, t)
        BY <3>2
      <4>2. p \in DOMAIN queue /\ queue[p] \in Job
        BY DEF TypeOK
      <4>3. status[queue[p]] = "queued"
        BY <4>2 DEF Places, OneHolder
      <4>4. \/ status' = [status EXCEPT ![queue[p]] = "running"]
            \/ status' = [status EXCEPT ![queue[p]] = "dropped"]
        BY <4>1 DEF Take
      <4>5. \A j \in Job : Accepted(j)' <=> Accepted(j)
        BY <4>2, <4>3, <4>4 DEF Accepted, TypeOK
      <4>6. QED  BY <3>1, <4>5 DEF Walk
    <3>3. CASE UNCHANGED status
      BY <3>1, <3>3 DEF Walk, Accepted
    <3>4. QED  BY <3>1, <3>2, <3>3 DEF Walk
  <2>2. CASE HandlerReturns(l) \/ HandlerThrows(l)
    <3>1. current[l] \in Job /\ status[current[l]] = "running"
      BY <2>2, HandledJob DEF Places, HandlerReturns, HandlerThrows
    <3>2. QED  BY <2>2, <3>1 DEF HandlerReturns, HandlerThrows, Leave, Accepted, TypeOK
  <2>3. QED  BY <2>1, <2>2 DEF Progress
<1>2. clock' \in Nat /\ clock' >= clock
  BY <1>1 DEF TypeOK
<1>3. QED  BY <1>1, <1>2, EntriesKept

LEMMA EntriesNext == TypeOK /\ Places /\ Entries /\ [Next]_vars => Entries'
<1> SUFFICES ASSUME TypeOK, Places, Entries, [Next]_vars PROVE Entries'
  OBVIOUS
<1>1. ASSUME NEW j \in Job, EnqueueDuplicate(j) \/ Enqueue(j) PROVE Entries'
  BY <1>1, DuplicateEntries, EnqueueEntries
<1>2. ASSUME NEW l \in Job, Progress(l) PROVE Entries'
  BY <1>2, LoopEntries
<1>3. CASE Tick \/ UNCHANGED vars
  <2>1. clock' \in Nat /\ clock' >= clock
    BY <1>3, Times DEF Tick, vars, TypeOK
  <2>2. /\ UNCHANGED <<seen, expiresAt, runAfter>>
        /\ \A j \in Job : Accepted(j)' <=> Accepted(j)
    BY <1>3 DEF Tick, vars, Accepted
  <2>3. QED  BY <2>1, <2>2, EntriesKept
<1>4. QED  BY <1>1, <1>2, <1>3 DEF Next

-----------------------------------------------------------------------------

(***************************************************************************)
(* The inductive invariant: the types, where each job is, how often it was *)
(* tried, and what the entries of the keys know of the jobs.               *)
(***************************************************************************)
THEOREM Invariance == Spec => []Inv
<1>1. Inv /\ [Next]_vars => Inv'
  BY TypesNext, PlacesNext, EntriesNext DEF Inv, Places, Entries
<1>2. QED  BY <1>1, InitInv, PTL DEF Spec

(* Every reachable state has the types of TypeOK.                          *)
THEOREM TypeCorrect == Spec => []TypeOK
<1>1. Inv => TypeOK
  BY DEF Inv
<1>2. QED  BY <1>1, Invariance, PTL

(***************************************************************************)
(* Every job is in one place, however many loops walk the queue under each *)
(* other (processNextBatch).                                               *)
(***************************************************************************)
THEOREM OneHolderCorrect == Spec => []OneHolder
<1>1. Inv => OneHolder
  BY DEF Inv
<1>2. QED  BY <1>1, Invariance, PTL

(***************************************************************************)
(* Of the jobs with one key no two enter within the life of an entry,      *)
(* whenever entries are pruned (enqueue, pruneIdempotency).                *)
(***************************************************************************)
THEOREM OncePerKeyCorrect == Spec => []OncePerKey
<1>1. Inv => OncePerKey
  BY DEF Inv
<1>2. QED  BY <1>1, Invariance, PTL

-----------------------------------------------------------------------------
(* The runner implements JobDelivery.                                      *)

Fates(st) == [j \in Job |-> FateOf(st[j])]

LEMMA FateChanges ==
  ASSUME NEW j \in Job, NEW s \in Status, status \in [Job -> Status],
         status' = [status EXCEPT ![j] = s]
  PROVE  Fates(status') = [Fates(status) EXCEPT ![j] = FateOf(s)]
  BY DEF Fates

LEMMA FatesOfStatus ==
  /\ FateOf("new") = "new" /\ FateOf("duplicate") = "refused"
  /\ FateOf("queued") = "waiting" /\ FateOf("running") = "tried"
  /\ FateOf("succeeded") = "succeeded" /\ FateOf("failed") = "failed"
  /\ FateOf("dropped") = "unhandled"
  BY DEF FateOf

LEMMA LoopsDeliver ==
  ASSUME Inv, NEW l \in Job, Progress(l)
  PROVE  [Delivery!Next]_(Delivery!vars)
<1>1. /\ status \in [Job -> Status] /\ attempts \in [Job -> Nat] /\ TypeOK /\ OneHolder
  BY DEF Inv, TypeOK, Status
<1>2. CASE ProcessNextBatch(l) \/ ContinueBatch(l)
  <2>1. PICK i \in Nat \ {0}, n \in Nat, t \in Nat : Walk(l, i, n, t)
    BY <1>1, <1>2, LoopsWalk
  <2>2. CASE \E p \in i..Len(queue) : Take(l, p, t)
    <3>1. PICK p \in i..Len(queue) : Take(l, p, t)
      BY <2>2
    <3>2. p \in DOMAIN queue /\ queue[p] \in Job
      BY <1>1 DEF TypeOK
    <3>3. status[queue[p]] = "queued"
      BY <1>1, <3>2 DEF OneHolder
    <3>4. Fates(status)[queue[p]] = "waiting"
      BY <3>2, <3>3, FatesOfStatus DEF Fates
    <3>5. CASE queue[p] \in Handled
      <4>1. /\ Fates(status') = [Fates(status) EXCEPT ![queue[p]] = "tried"]
            /\ attempts' = [attempts EXCEPT ![queue[p]] = 1]
        <5>1. /\ status' = [status EXCEPT ![queue[p]] = "running"] /\ "running" \in Status
              /\ attempts' = [attempts EXCEPT ![queue[p]] = 1]
          BY <3>1, <3>5 DEF Take, Status
        <5>2. Fates(status') = [Fates(status) EXCEPT ![queue[p]] = FateOf("running")]
          BY <1>1, <3>2, <5>1, FateChanges
        <5>3. QED  BY <5>1, <5>2, FatesOfStatus
      <4>2. Delivery!Try(queue[p])
        BY <3>4, <4>1 DEF Delivery!Try, Fates
      <4>3. QED  BY <3>2, <4>2 DEF Delivery!Next
    <3>6. CASE queue[p] \notin Handled
      <4>1. /\ Fates(status') = [Fates(status) EXCEPT ![queue[p]] = "unhandled"]
            /\ attempts' = attempts
        <5>1. /\ status' = [status EXCEPT ![queue[p]] = "dropped"] /\ "dropped" \in Status
              /\ attempts' = attempts
          BY <3>1, <3>6 DEF Take, Status
        <5>2. Fates(status') = [Fates(status) EXCEPT ![queue[p]] = FateOf("dropped")]
          BY <1>1, <3>2, <5>1, FateChanges
        <5>3. QED  BY <5>1, <5>2, FatesOfStatus
      <4>2. Delivery!Settle(queue[p])
        BY <3>4, <4>1 DEF Delivery!Settle, Fates
      <4>3. QED  BY <3>2, <4>2 DEF Delivery!Next
    <3>7. QED  BY <3>5, <3>6
  <2>3. CASE UNCHANGED <<status, attempts>>
    BY <2>3 DEF Delivery!vars
  <2>4. QED  BY <2>1, <2>2, <2>3 DEF Walk
<1>3. CASE HandlerReturns(l) \/ HandlerThrows(l)
  <2> DEFINE j == current[l]
  <2>1. j \in Job /\ status[j] = "running"
    BY <1>1, <1>3, HandledJob DEF HandlerReturns, HandlerThrows
  <2>2. attempts[j] \in 1..MaxAttempts[j] /\ MaxAttempts[j] \in Nat /\ attempts[j] \in Nat
    BY <1>1, <2>1, JobRunnerAssumption DEF Inv, AttemptsBounded
  <2>3. Fates(status)[j] = "tried"
    BY <2>1, FatesOfStatus DEF Fates
  <2>4. CASE Leave(l, "succeeded") /\ UNCHANGED attempts
    <3>1. Fates(status') = [Fates(status) EXCEPT ![j] = "succeeded"]
      <4>1. status' = [status EXCEPT ![j] = "succeeded"]
        BY <2>4 DEF Leave
      <4>2. Fates(status') = [Fates(status) EXCEPT ![j] = FateOf("succeeded")]
        <5> HIDE DEF j
        <5>1. "succeeded" \in Status
          BY DEF Status
        <5>2. QED  BY <1>1, <2>1, <4>1, <5>1, FateChanges
      <4>3. QED  BY <4>2, FatesOfStatus
    <3>2. Delivery!Settle(j)
      BY <2>3, <2>4, <3>1 DEF Delivery!Settle, Fates
    <3>3. QED  BY <2>1, <3>2 DEF Delivery!Next
  <2>5. CASE attempts[j] >= MaxAttempts[j] /\ Leave(l, "failed") /\ UNCHANGED attempts
    <3>1. Fates(status') = [Fates(status) EXCEPT ![j] = "failed"]
      <4>1. status' = [status EXCEPT ![j] = "failed"]
        BY <2>5 DEF Leave
      <4>2. Fates(status') = [Fates(status) EXCEPT ![j] = FateOf("failed")]
        <5> HIDE DEF j
        <5>1. "failed" \in Status
          BY DEF Status
        <5>2. QED  BY <1>1, <2>1, <4>1, <5>1, FateChanges
      <4>3. QED  BY <4>2, FatesOfStatus
    <3>2. attempts[j] = MaxAttempts[j]
      BY <2>2, <2>5
    <3>3. Delivery!Settle(j)
      BY <2>3, <2>5, <3>1, <3>2 DEF Delivery!Settle, Fates
    <3>4. QED  BY <2>1, <3>3 DEF Delivery!Next
  <2>6. CASE /\ ~(attempts[j] >= MaxAttempts[j])
             /\ attempts' = [attempts EXCEPT ![j] = @ + 1] /\ UNCHANGED status
    <3>1. attempts[j] < MaxAttempts[j]
      BY <2>2, <2>6
    <3>2. Delivery!TryAgain(j)
      BY <2>3, <2>6, <3>1 DEF Delivery!TryAgain, Fates
    <3>3. QED  BY <2>1, <3>2 DEF Delivery!Next
  <2>7. QED  BY <1>3, <2>4, <2>5, <2>6 DEF HandlerReturns, HandlerThrows
<1>4. QED  BY <1>2, <1>3 DEF Progress

LEMMA EnqueuesDeliver ==
  ASSUME Inv, NEW j \in Job, EnqueueDuplicate(j) \/ Enqueue(j)
  PROVE  [Delivery!Next]_(Delivery!vars)
<1>1. status \in [Job -> Status] /\ status[j] = "new"
  BY DEF Inv, TypeOK, Status, EnqueueDuplicate, Enqueue
<1>2. Fates(status)[j] = "new"
  BY <1>1, FatesOfStatus DEF Fates
<1>3. CASE EnqueueDuplicate(j)
  <2>1. Fates(status') = [Fates(status) EXCEPT ![j] = "refused"] /\ attempts' = attempts
    <3>1. status' = [status EXCEPT ![j] = "duplicate"] /\ attempts' = attempts
      BY <1>3 DEF EnqueueDuplicate
    <3>2. Fates(status') = [Fates(status) EXCEPT ![j] = FateOf("duplicate")]
      <4>1. "duplicate" \in Status
        BY DEF Status
      <4>2. QED  BY <1>1, <3>1, <4>1, FateChanges
    <3>3. QED  BY <3>1, <3>2, FatesOfStatus
  <2> DEFINE i == seen[KeyOf[j]]
  <2>2. i \in Job /\ KeyOf[i] = KeyOf[j] /\ Accepted(i)
    BY <1>3, KeysOfJobs DEF EnqueueDuplicate, Pruned, Inv, EntriesAgree, TypeOK
  <2>3. Fates(status)[i] \in Delivery!Accepted
    BY <1>1, <2>2, FatesOfStatus DEF Fates, Accepted, Status, Delivery!Accepted
  <2>4. Delivery!Refuse(j)
    BY <1>2, <1>3, <2>1, <2>2, <2>3 DEF Delivery!Refuse, Fates, EnqueueDuplicate
  <2>5. QED  BY <2>4 DEF Delivery!Next
<1>4. CASE Enqueue(j)
  <2>1. Fates(status') = [Fates(status) EXCEPT ![j] = "waiting"] /\ attempts' = attempts
    <3>1. status' = [status EXCEPT ![j] = "queued"] /\ attempts' = attempts
      BY <1>4 DEF Enqueue
    <3>2. Fates(status') = [Fates(status) EXCEPT ![j] = FateOf("queued")]
      <4>1. "queued" \in Status
        BY DEF Status
      <4>2. QED  BY <1>1, <3>1, <4>1, FateChanges
    <3>3. QED  BY <3>1, <3>2, FatesOfStatus
  <2>2. Delivery!Accept(j)
    BY <1>2, <2>1 DEF Delivery!Accept, Fates
  <2>3. QED  BY <2>2 DEF Delivery!Next
<1>5. QED  BY <1>3, <1>4

(***************************************************************************)
(* The runner, with its array, its indices and its overlapping loops, does *)
(* to each job only what JobDelivery allows: tries one after the other, at *)
(* most MaxAttempts, and no end of a job but success, a last failure or a  *)
(* missing handler; only a job whose twin was accepted is refused.         *)
(***************************************************************************)
THEOREM RunnerDelivers == Spec => KeepsPromise
<1>1. Init => Delivery!Init
  BY FatesOfStatus DEF Init, Delivery!Init
<1>2. Inv /\ [Next]_vars => [Delivery!Next]_(Delivery!vars)
  <2> SUFFICES ASSUME Inv, [Next]_vars PROVE [Delivery!Next]_(Delivery!vars)
    OBVIOUS
  <2>1. CASE Tick \/ UNCHANGED vars
    BY <2>1 DEF Tick, vars, Delivery!vars
  <2>2. QED  BY <2>1, LoopsDeliver, EnqueuesDeliver DEF Next
<1>3. QED  BY <1>1, <1>2, Invariance, PTL DEF Spec, KeepsPromise, Delivery!Spec
=============================================================================
