------------------------- MODULE RunLifecycleProofs -------------------------
(***************************************************************************)
(* For any processes and invocations, and any number of pauses, crashes    *)
(* and cancellations: when the job of a run is delivered once, the first   *)
(* segment is alone, beats, and is reached by a cancellation.              *)
(*                                                                         *)
(* All three rest on one fact: until the first segment has written its     *)
(* outcome the row was never PAUSED_FOR_BATCH, so no sweep has listed the  *)
(* run and there is nobody else who could stop a heartbeat or a controller.*)
(***************************************************************************)
EXTENDS RunLifecycle, TLAPS

First(w) == pc[w] \in Active /\ kind[w] # "resume"

(* A timer that can be stopped is running.                                 *)
Tracked == \A p \in Proc : tracked[p] => timers[p] > 0

AtHome == \A w \in Worker : pc[w] \in Active => home[w] \in Proc

Undelivered ==
  deliveries = 0 => row # "PAUSED_FOR_BATCH" /\ \A w \in Worker : pc[w] = "unused"

Alone ==
  \A v \in Worker : First(v) =>
    row # "PAUSED_FOR_BATCH" /\ \A w \in Worker \ {v} : pc[w] = "unused"

Equipped ==
  \A w \in Worker : (pc[w] = "executing" /\ kind[w] # "resume") =>
    /\ heartbeats => timers[home[w]] > 0 /\ (beat[home[w]] = "landed" => ~stale)
    /\ controller[home[w]] = "live" \/ signal[w]

Decided == \A w \in Worker : pc[w] = "concluding" => outcome[w] # "none"

Inv == TypeOK /\ Tracked /\ AtHome /\ Decided /\ Undelivered /\ Alone /\ Equipped

-----------------------------------------------------------------------------

LEMMA Bounds ==
  /\ MaxDeliveries \in Nat /\ MaxPauses \in Nat /\ MaxCrashes \in Nat /\ MaxCancels \in Nat
  /\ MaxSweeps \in Nat /\ NoProc \notin Proc /\ FirstKinds \subseteq {"pending", "toNode"}
  BY LifecycleAssumption

LEMMA InvInit == Init => Inv
<1> SUFFICES ASSUME Init PROVE Inv
  OBVIOUS
<1>1. TypeOK
  <2>1. /\ 0 \in 0..MaxDeliveries /\ 0 \in 0..MaxPauses
        /\ 0 \in 0..MaxCrashes /\ 0 \in 0..MaxCancels
    BY Bounds
  <2>2. /\ timers \in [Proc -> Nat] /\ tracked \in [Proc -> BOOLEAN]
        /\ signal \in [Worker -> BOOLEAN] /\ beat \in [Proc -> {"none", "sent", "landed", "lost"}]
        /\ home \in [Worker -> Proc \cup {NoProc}]
    BY DEF Init
  <2>3. QED  BY <2>1, <2>2 DEF Init, TypeOK, Active
<1>2. Tracked /\ AtHome /\ Decided /\ Undelivered
  BY DEF Init, Tracked, AtHome, Decided, Undelivered, Active
<1>3. Alone /\ Equipped
  BY DEF Init, Alone, Equipped, First, Active
<1>4. QED  BY <1>1, <1>2, <1>3 DEF Inv

(* An invocation begins.                                                   *)
LEMMA Invoked ==
  ASSUME Inv, NEW w \in Worker, NEW p \in Proc,
         \/ MaxDeliveries <= 1 /\ Deliver(w, p)
         \/ FindReadyForResumption(w, p)
  PROVE  Inv'
<1> USE DEF Inv
<1>1. PICK k \in {"pending", "toNode", "resume"} : Invoke(w, p, k)
  BY Bounds DEF Deliver, FindReadyForResumption
<1>2. /\ pc[w] = "unused"
      /\ pc' = [pc EXCEPT ![w] = "starting"]
      /\ kind' = [kind EXCEPT ![w] = k] /\ home' = [home EXCEPT ![w] = p]
  BY <1>1 DEF Invoke
<1>3. /\ UNCHANGED <<row, stale, outcome, signal, heartbeats, beat, timers, tracked, controller,
                     job, canceller, aborted, reaping, pauses, crashes, cancels>>
      /\ deliveries' \in 0..MaxDeliveries
  BY <1>1, Bounds DEF Invoke, Deliver, FindReadyForResumption, TypeOK, equipment, others
<1>4. TypeOK'
  BY <1>2, <1>3 DEF TypeOK, Active
<1>5. Tracked' /\ AtHome' /\ Decided'
  BY <1>2, <1>3 DEF TypeOK, Tracked, AtHome, Decided, Active
<1>6. Equipped'
  BY <1>2, <1>3 DEF TypeOK, Equipped
<1>7. CASE Deliver(w, p) /\ MaxDeliveries <= 1
  <2>1. deliveries = 0 /\ deliveries' # 0
    BY <1>7, Bounds DEF Deliver, TypeOK
  <2>2. /\ row' # "PAUSED_FOR_BATCH"
        /\ \A v \in Worker \ {w} : pc'[v] = "unused"
    BY <1>2, <1>3, <2>1 DEF Undelivered, TypeOK
  <2>3. Undelivered' /\ Alone'
    BY <2>1, <2>2 DEF Undelivered, Alone, First, Active
  <2>4. QED  BY <1>4, <1>5, <1>6, <2>3
<1>8. CASE FindReadyForResumption(w, p)
  <2>1. row = "PAUSED_FOR_BATCH" /\ deliveries' = deliveries /\ kind'[w] = "resume"
    BY <1>8 DEF FindReadyForResumption, Invoke, TypeOK, counters, segments, equipment, others
  <2>2. \A v \in Worker : ~First(v)
    BY <2>1 DEF Alone
  <2>3. \A v \in Worker : ~First(v)'
    BY <1>2, <2>1, <2>2 DEF First, TypeOK
  <2>4. Undelivered' /\ Alone'
    BY <2>1, <2>3 DEF Undelivered, Alone
  <2>5. QED  BY <1>4, <1>5, <1>6, <2>4
<1>9. QED  BY <1>7, <1>8

LEMMA StopHeartbeatTypes ==
  ASSUME TypeOK, Tracked, NEW p \in Proc, StopHeartbeat(p)
  PROVE  /\ timers' \in [Proc -> Nat] /\ tracked' \in [Proc -> BOOLEAN]
         /\ controller' \in [Proc -> {"none", "live", "aborted"}]
         /\ Tracked' /\ UNCHANGED <<heartbeats, beat>>
<1>1. /\ timers' = [timers EXCEPT ![p] = IF tracked[p] THEN timers[p] - 1 ELSE timers[p]]
      /\ tracked' = [tracked EXCEPT ![p] = FALSE]
      /\ controller' = [controller EXCEPT ![p] = "none"]
  BY DEF StopHeartbeat
<1>2. timers[p] \in Nat /\ (tracked[p] => timers[p] - 1 \in Nat)
  BY DEF TypeOK, Tracked
<1>3. /\ timers' \in [Proc -> Nat] /\ tracked' \in [Proc -> BOOLEAN]
      /\ controller' \in [Proc -> {"none", "live", "aborted"}]
  BY <1>1, <1>2 DEF TypeOK
<1>4. Tracked'
  BY <1>1, <1>2 DEF TypeOK, Tracked
<1>5. QED  BY <1>3, <1>4 DEF StopHeartbeat

(* What the steps of an invocation have in common.                         *)
LEMMA ProgressKeeps ==
  ASSUME Inv, NEW w \in Worker, Progress(w)
  PROVE  /\ pc[w] \in Active /\ home[w] \in Proc
         /\ pc' \in [Worker -> Active \cup {"unused", "ended"}]
         /\ \A v \in Worker \ {w} : pc'[v] = pc[v]
         /\ pc'[w] \in {"marked", "executing", "concluding", "ended"}
         /\ UNCHANGED <<kind, home, signal, heartbeats, canceller, aborted, reaping, deliveries,
                        crashes, cancels>>
<1> USE DEF Inv, StopHeartbeat, StartHeartbeat
<1>1. CASE MarkRunning(w) \/ StartSegment(w) \/ WriteOutcome(w) \/ SegmentThrows(w)
  BY <1>1 DEF MarkRunning, StartSegment, WriteOutcome, SegmentThrows, Conclude, TypeOK, AtHome,
     Active, counters, segments, equipment, others
<1>2. CASE ResumeRunning(w) \/ ResumeWithError(w)
  BY <1>2 DEF ResumeRunning, ResumeWithError, Conclude, TypeOK, AtHome, Active, Listed, counters, segments, equipment, others
<1>3. CASE SegmentReturns(w) \/ SegmentPauses(w)
  BY <1>3 DEF SegmentReturns, SegmentPauses, Conclude, TypeOK, AtHome, Active, counters, segments, equipment, others
<1>4. QED  BY <1>1, <1>2, <1>3 DEF Progress

LEMMA ProgressTypes ==
  ASSUME Inv, NEW w \in Worker, Progress(w)
  PROVE  TypeOK' /\ Tracked' /\ Decided'
<1> USE ProgressKeeps DEF Inv
<1>1. CASE MarkRunning(w)
  BY <1>1 DEF MarkRunning, TypeOK, Tracked, Decided, counters, segments, equipment, others
<1>2. CASE StartSegment(w)
  <2>1. /\ home[w] \in Proc /\ timers[home[w]] + 1 \in Nat
        /\ timers \in [Proc -> Nat] /\ tracked \in [Proc -> BOOLEAN]
        /\ beat \in [Proc -> {"none", "sent", "landed", "lost"}]
        /\ controller \in [Proc -> {"none", "live", "aborted"}]
    BY DEF TypeOK
  <2>2. /\ \/ UNCHANGED <<timers, tracked, beat>>
           \/ /\ timers' = [timers EXCEPT ![home[w]] = timers[home[w]] + 1]
              /\ tracked' = [tracked EXCEPT ![home[w]] = TRUE]
              /\ beat' = [beat EXCEPT ![home[w]] = "sent"]
        /\ controller' = [controller EXCEPT ![home[w]] = "live"]
    BY <1>2 DEF StartSegment, StartHeartbeat
  <2>3. /\ timers' \in [Proc -> Nat] /\ tracked' \in [Proc -> BOOLEAN]
        /\ beat' \in [Proc -> {"none", "sent", "landed", "lost"}]
        /\ controller' \in [Proc -> {"none", "live", "aborted"}]
    <3>1. CASE UNCHANGED <<timers, tracked, beat>>
      BY <2>1, <2>2, <3>1
    <3>2. CASE beat' = [beat EXCEPT ![home[w]] = "sent"] /\ ~UNCHANGED <<timers, tracked, beat>>
      BY <2>1, <2>2, <3>2
    <3>3. QED  BY <2>2, <3>1, <3>2
  <2>4. TypeOK'
    <3>1. UNCHANGED <<row, stale, kind, home, outcome, signal, heartbeats, job, others, counters>>
      BY <1>2 DEF StartSegment
    <3>2. QED  BY <2>3, <3>1 DEF TypeOK, counters, others
  <2>5. Tracked'
    BY <2>1, <2>2 DEF Tracked
  <2>6. QED  BY <1>2, <2>4, <2>5 DEF StartSegment, Decided
<1>3. CASE ResumeRunning(w)
  BY <1>3 DEF ResumeRunning, TypeOK, Tracked, Decided, counters, segments, equipment, others
<1>4. CASE ResumeWithError(w)
  BY <1>4, StopHeartbeatTypes DEF ResumeWithError, Conclude, TypeOK, Decided, counters, segments, equipment, others
<1>5. CASE SegmentReturns(w)
  BY <1>5, StopHeartbeatTypes DEF SegmentReturns, Conclude, TypeOK, Decided, counters, segments, equipment, others
<1>6. CASE SegmentPauses(w)
  <2>1. pauses' \in 0..MaxPauses
    BY <1>6, Bounds DEF SegmentPauses, TypeOK
  <2>2. QED  BY <1>6, <2>1, StopHeartbeatTypes DEF SegmentPauses, Conclude, TypeOK, Decided
<1>7. CASE SegmentThrows(w)
  BY <1>7 DEF SegmentThrows, Conclude, TypeOK, Tracked, Decided, counters, segments, equipment, others
<1>8. CASE WriteOutcome(w)
  BY <1>8 DEF WriteOutcome, TypeOK, Tracked, Decided, counters, segments, equipment, others
<1>9. QED  BY <1>1, <1>2, <1>3, <1>4, <1>5, <1>6, <1>7, <1>8 DEF Progress

(***************************************************************************)
(* A first segment is alone, so that a step of an invocation beside it is  *)
(* impossible; and of its own steps only the last writes PAUSED_FOR_BATCH. *)
(***************************************************************************)
LEMMA Progresses ==
  ASSUME Inv, NEW w \in Worker, Progress(w)
  PROVE  Inv'
<1> USE DEF Inv
<1>1. /\ pc[w] \in Active /\ home[w] \in Proc
      /\ pc' \in [Worker -> Active \cup {"unused", "ended"}]
      /\ \A v \in Worker \ {w} : pc'[v] = pc[v]
      /\ pc'[w] \in {"marked", "executing", "concluding", "ended"}
      /\ UNCHANGED <<kind, home, signal, heartbeats, deliveries>>
  BY ProgressKeeps
<1>2. deliveries # 0
  BY <1>1 DEF Undelivered, Active
<1>3. AtHome' /\ Undelivered'
  BY <1>1, <1>2 DEF AtHome, Undelivered
<1>4. \A v \in Worker : First(v)' => v = w /\ First(w)
  BY <1>1 DEF First, Alone, Active
<1>5. Alone'
  <2>1. First(w)' => row' # "PAUSED_FOR_BATCH"
    BY <1>4 DEF Progress, MarkRunning, StartSegment, ResumeRunning, ResumeWithError,
       SegmentReturns, SegmentPauses, SegmentThrows, WriteOutcome, First, Alone, Active, TypeOK
  <2>2. QED  BY <1>1, <1>4, <2>1 DEF Alone, Active
<1>6. Equipped'
  <2>1. SUFFICES ASSUME pc'[w] = "executing", kind[w] # "resume"
                 PROVE  /\ heartbeats => timers'[home[w]] > 0 /\ beat'[home[w]] # "landed"
                        /\ controller'[home[w]] = "live"
    BY <1>1, <1>4 DEF Equipped, First, Active
  <2>2. StartSegment(w)
    BY <2>1 DEF Progress, MarkRunning, StartSegment, ResumeRunning, ResumeWithError,
       SegmentReturns, SegmentPauses, SegmentThrows, WriteOutcome, Conclude, Listed, Sweeping, TypeOK
  <2>3. QED  BY <1>1, <2>2 DEF StartSegment, StartHeartbeat, TypeOK
<1>7. QED  BY <1>3, <1>5, <1>6, ProgressTypes

(* The canceller, the reaper, time and crashes.                            *)
LEMMA Others ==
  ASSUME Inv,
         \/ JobFinishes \/ FindStaleRuns \/ FailStaleRuns \/ TimePasses
         \/ \E p \in Proc : \/ TimerFires(p) \/ BeatLands(p) \/ BeatFails(p)
                            \/ CancelCheck(p) \/ CancelAbort(p) \/ CancelWrite(p) \/ Crash(p)
  PROVE  Inv'
<1> USE DEF Inv
<1>1. CASE \/ JobFinishes \/ FindStaleRuns \/ FailStaleRuns
           \/ \E p \in Proc : CancelCheck(p) \/ CancelWrite(p)
  <2>1. TypeOK'
    <3>1. CancelCheck(canceller') => cancels' \in 0..MaxCancels
      BY Bounds DEF CancelCheck, TypeOK
    <3>2. QED
      BY <1>1, <3>1 DEF JobFinishes, FindStaleRuns, FailStaleRuns, CancelCheck, CancelWrite,
         TypeOK, counters, segments, equipment, others
  <2>2. /\ UNCHANGED <<pc, kind, home, outcome, signal, heartbeats, beat, timers, tracked,
                       controller, stale, deliveries>>
        /\ row' \in {row, "FAILED", "CANCELLED"}
    BY <1>1 DEF JobFinishes, FindStaleRuns, FailStaleRuns, CancelCheck, CancelWrite,
       counters, segments, equipment, others
  <2>3. QED  BY <2>1, <2>2 DEF Tracked, AtHome, Decided, Undelivered, Alone, Equipped, First
<1>2. CASE TimePasses \/ \E p \in Proc : TimerFires(p) \/ BeatLands(p) \/ BeatFails(p)
  <2>1. /\ UNCHANGED <<row, segments, heartbeats, timers, tracked, controller, job, others,
                       counters>>
        /\ stale' \in BOOLEAN /\ beat' \in [Proc -> {"none", "sent", "landed", "lost"}]
    BY <1>2 DEF TimePasses, TimerFires, BeatLands, BeatFails, Beat, TypeOK, equipment
  <2>2. TypeOK' /\ Tracked' /\ AtHome' /\ Decided' /\ Undelivered' /\ Alone'
    BY <2>1 DEF TypeOK, Tracked, AtHome, Decided, Undelivered, Alone, First, counters, segments,
       others
  <2>3. \A p \in Proc : beat'[p] = "landed" /\ timers[p] > 0 =>
          ~stale' \/ (beat[p] = "landed" /\ stale' = stale)
    BY <1>2 DEF TimePasses, TimerFires, BeatLands, BeatFails, Beat, TypeOK, equipment
  <2>4. Equipped'
    BY <2>1, <2>3 DEF Equipped, AtHome, Active, segments
  <2>5. QED  BY <2>2, <2>4
<1>4. ASSUME NEW p \in Proc, CancelAbort(p)  PROVE Inv'
  <2>1. TypeOK' /\ Tracked' /\ AtHome' /\ Decided'
    BY <1>4 DEF CancelAbort, TypeOK, Tracked, AtHome, Decided, counters
  <2>2. Undelivered' /\ Alone'
    BY <1>4 DEF CancelAbort, Undelivered, Alone, First, counters
  <2>3. Equipped'
    BY <1>4 DEF CancelAbort, Equipped, AtHome, TypeOK, Active
  <2>4. QED  BY <2>1, <2>2, <2>3
<1>5. ASSUME NEW p \in Proc, Crash(p)  PROVE Inv'
  <2>1. /\ \A w \in Worker : pc'[w] = IF home[w] = p /\ pc[w] \in Active THEN "ended" ELSE pc[w]
        /\ \A q \in Proc \ {p} : timers'[q] = timers[q] /\ controller'[q] = controller[q]
        /\ UNCHANGED <<row, stale, kind, home, outcome, signal, heartbeats, beat, deliveries>>
    BY <1>5 DEF Crash, TypeOK
  <2>2. TypeOK' /\ Tracked'
    <3>1. crashes' \in 0..MaxCrashes
      BY <1>5, Bounds DEF Crash, TypeOK
    <3>2. QED  BY <1>5, <3>1 DEF Crash, TypeOK, Tracked
  <2>3. AtHome' /\ Decided' /\ Undelivered'
    BY <1>5, <2>1 DEF Crash, AtHome, Decided, Undelivered, Active
  <2>4. \A w \in Worker : First(w)' => First(w) /\ home[w] # p
    BY <2>1 DEF First, Active
  <2>5. Alone'
    BY <2>1, <2>4 DEF Alone, Active
  <2>6. Equipped'
    BY <2>1 DEF Equipped, AtHome, Active
  <2>7. QED  BY <2>2, <2>3, <2>5, <2>6
<1>6. QED  BY <1>1, <1>2, <1>4, <1>5

LEMMA InvNext ==
  ASSUME MaxDeliveries <= 1
  PROVE  Inv /\ [Next]_vars => Inv'
<1> SUFFICES ASSUME Inv, [Next]_vars PROVE Inv'
  OBVIOUS
<1>1. CASE UNCHANGED vars
  BY <1>1 DEF Inv, TypeOK, Tracked, AtHome, Decided, Undelivered, Alone,
     Equipped, First, vars, counters, segments, equipment, others
<1>2. ASSUME NEW w \in Worker, NEW p \in Proc, Deliver(w, p)  PROVE Inv'
  BY <1>2, Invoked
<1>3. ASSUME NEW w \in Worker, Progress(w)  PROVE Inv'
  BY <1>3, Progresses
<1>4. CASE Sweep
  BY <1>4, Invoked DEF Sweep
<1>5. CASE \/ JobFinishes \/ FindStaleRuns \/ FailStaleRuns \/ TimePasses
           \/ \E p \in Proc : \/ TimerFires(p) \/ BeatLands(p) \/ BeatFails(p)
                              \/ CancelCheck(p) \/ CancelAbort(p) \/ CancelWrite(p) \/ Crash(p)
  BY <1>5, Others
<1>6. QED  BY <1>1, <1>2, <1>3, <1>4, <1>5 DEF Next

-----------------------------------------------------------------------------

(* The invariant, when the queue delivers the job of a run once.           *)
THEOREM Invariance ==
  ASSUME MaxDeliveries <= 1
  PROVE  Spec => []Inv
<1>1. QED  BY InvInit, InvNext, PTL DEF Spec

(* Types; no timer is stopped that does not run (stopHeartbeat).           *)
THEOREM TypeCorrect ==
  ASSUME MaxDeliveries <= 1
  PROVE  Spec => []TypeOK
<1>1. Inv => TypeOK
  BY DEF Inv
<1>2. QED  BY <1>1, Invariance, PTL

(* Nobody executes the run beside its first segment.                       *)
THEOREM FirstSegmentAloneCorrect ==
  ASSUME MaxDeliveries <= 1
  PROVE  Spec => []FirstSegmentAlone
<1>1. Inv => FirstSegmentAlone
  BY DEF Inv, Alone, First, FirstSegmentAlone, Active
<1>2. QED  BY <1>1, Invariance, PTL

(* Where heartbeats are on, the timer of a first segment runs as long as   *)
(* it is executed, and the reaper can list the run only when the latest    *)
(* write has not landed (startHeartbeat, stopHeartbeat, findStaleRuns).    *)
THEOREM HeartbeatCorrect ==
  ASSUME MaxDeliveries <= 1
  PROVE  Spec => []HeartbeatWhileExecuting
<1>1. Inv => HeartbeatWhileExecuting
  BY DEF Inv, Equipped, HeartbeatWhileExecuting, Executing
<1>2. QED  BY <1>1, Invariance, PTL

(* An abort on the process of a first segment reaches its nodes (abortRun).*)
THEOREM CancelCorrect ==
  ASSUME MaxDeliveries <= 1
  PROVE  Spec => CancelReachesNodes
<1> DEFINE Reached ==
      \A p \in Proc : (canceller = p /\ ~aborted /\ aborted') =>
        \A w \in Executing : (home[w] = p /\ kind[w] # "resume") => signal'[w]
<1>1. Inv /\ [Next]_vars => [Reached]_vars
  <2>1. SUFFICES ASSUME Inv, Next, NEW p \in Proc, canceller = p, ~aborted, aborted',
                        NEW w \in Executing, home[w] = p, kind[w] # "resume"
                 PROVE  signal'[w]
    OBVIOUS
  <2>2. PICK q \in Proc : CancelAbort(q)
    BY <2>1 DEF Next, Sweep, Deliver, Invoke, FindReadyForResumption, Progress, MarkRunning,
       StartSegment, ResumeRunning, ResumeWithError, SegmentReturns, SegmentPauses,
       SegmentThrows, WriteOutcome, JobFinishes, CancelCheck, CancelAbort, CancelWrite, Crash,
       FindStaleRuns, FailStaleRuns, TimePasses, TimerFires, BeatLands, BeatFails, Beat, others
  <2>3. QED
    BY <2>1, <2>2 DEF CancelAbort, Inv, Equipped, Executing
<1>2. QED  BY <1>1, Invariance, PTL DEF Spec, CancelReachesNodes
=============================================================================
