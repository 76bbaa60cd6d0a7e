-------------------------- MODULE CronTriggersProofs --------------------------
(***************************************************************************)
(* For any triggers, calls of the scheduler and sweeps: when the jobs are  *)
(* those of the table, which triggers are left unscheduled, and what the   *)
(* sweeps of a minute execute.                                             *)
(*                                                                         *)
(* A call that is suspended alone finds the map empty when it goes on, so  *)
(* that none of its names is taken; a trigger without a job is covered by  *)
(* a call that has still to schedule it.  In a minute nobody straddles,    *)
(* lastTriggeredAt of a trigger comes to name the minute before a sweep    *)
(* executes the trigger, and from then on nothing takes it back, so no     *)
(* second claim succeeds.                                                  *)
(***************************************************************************)
EXTENDS CronTriggers, TLAPS

(* A call that is suspended alone finds no job, and what it read is still  *)
(* what the table says of the triggers nobody edited.                      *)
AloneWithAnEmptyMap ==
  ~overlapped => \A o \in Suspended :
    /\ running /\ jobs = {} /\ Suspended = {o}
    /\ opPc[o] = "read" => \A t \in steady : opRead[o][t] = Table[t]

(* Call o will still give t a job, or have failed.                         *)
Covers(o, t) ==
  opPc[o] \in {"reading", "failed"} \/ (opPc[o] = "read" /\ opRead[o][t] # NoJob)

Scheduled ==
  running => \A t \in enabled \cap steady : live[t] # NoJob \/ \E o \in Op : Covers(o, t)

SchedulerInv == RefreshTakesEffect /\ AloneWithAnEmptyMap /\ Scheduled

(* What sweeps hold, they hold only as long as they go on.                 *)
Held ==
  \A w \in Worker : /\ claimed[w] # {} => workerPc[w] = "executing"
                    /\ listed[w] # {} => workerPc[w] \in {"claiming", "executing"}

(* Sweeps and updates belong to this minute, and nothing to a later one.   *)
OfThisMinute ==
  /\ \A w \in Worker : now[w] <= minute /\ (w \in Sweeping => now[w] = minute)
  /\ \A u \in written : u.minute = minute
  /\ \A t \in Trigger : last[t].minute <= minute
  /\ \A t \in Trigger : \A m \in 0..MaxMinute : m > minute => ran[t][m] = 0

(* A trigger is claimed before it is executed, by one sweep.               *)
ClaimedOnce ==
  \A t \in Trigger :
    /\ ran[t][minute] > 0 => last[t].minute = minute
    /\ \A w \in Worker : t \in claimed[w] =>
         /\ last[t].minute = minute /\ ran[t][minute] = 0
         /\ \A v \in Worker : t \in claimed[v] => v = w

(* Since a sweep read a row nothing was written to it but this minute.     *)
ReadLately ==
  \A w \in Worker : \A e \in listed[w] :
    last[e.trigger] = e.last \/ last[e.trigger].minute = minute

SweepInv ==
  /\ Held
  /\ ~straddled => OncePerMinute /\ OfThisMinute /\ ClaimedOnce /\ ReadLately

(* What a sweep of this minute has not yet seen to, it still has listed.   *)
Listed ==
  \A w \in Worker : \A t \in enabled \ disturbed :
    /\ workerPc[w] \in {"claiming", "executing"} =>
         last[t].minute = minute \/ \E e \in listed[w] : e.trigger = t
    /\ (workerPc[w] = "over" /\ now[w] = minute) => last[t].minute = minute

(* Who wrote lastTriggeredAt is executing the trigger, or has done so.     *)
Executed ==
  \A t \in enabled \ disturbed : (last[t].minute = minute /\ last[t].by # "update") =>
    ran[t][minute] = 1 \/ \E w \in Worker : t \in claimed[w]

NothingMissed == ~straddled => Listed /\ Executed

Inv == TypeOK /\ SchedulerInv /\ SweepInv /\ NothingMissed

-----------------------------------------------------------------------------

LEMMA Bounds ==
  /\ {MaxMinute, MaxEdits} \subseteq Nat
  /\ \A s \in Stamp : s.minute \in Int /\ s.minute <= MaxMinute
  /\ Never \in Stamp /\ Never.minute = -1
<1>1. {MaxMinute, MaxEdits} \subseteq Nat
  BY CronAssumption
<1>2. Never \in Stamp /\ Never.minute = -1
  BY DEF Never, Stamp
<1>3. ASSUME NEW s \in Stamp  PROVE s.minute \in Int /\ s.minute <= MaxMinute
  <2>1. CASE s = Never
    BY <1>1, <1>2, <2>1
  <2>2. CASE s # Never
    BY <1>1, <2>2 DEF Stamp
  <2>3. QED  BY <2>1, <2>2
<1>4. QED  BY <1>1, <1>2, <1>3

LEMMA InvInit == Init => Inv
<1> SUFFICES ASSUME Init PROVE Inv
  OBVIOUS
<1>1. TypeOK
  <2>1. 0 \in 0..MaxMinute /\ Never \in Stamp
    BY Bounds
  <2>2. /\ last \in [Trigger -> Stamp] /\ now \in [Worker -> 0..MaxMinute]
        /\ version \in [Trigger -> Nat] /\ live \in [Trigger -> Nat \cup {NoJob}]
        /\ ran \in [Trigger -> [0..MaxMinute -> Nat]]
    BY <2>1 DEF Init
  <2>3. /\ listed \in [Worker -> SUBSET [trigger : Trigger, last : Stamp]]
        /\ claimed \in [Worker -> {{}} \cup {{t} : t \in Trigger}]
        /\ opRead \in [Op -> [Trigger -> Nat \cup {NoJob}]]
    BY DEF Init
  <2>4. /\ opPc \in [Op -> {"idle", "reading", "read", "failed"}]
        /\ workerPc \in [Worker -> {"uncalled", "listing", "claiming", "executing", "over", "dead"}]
    BY DEF Init
  <2>5. minute \in 0..MaxMinute /\ edits \in 0..MaxEdits
    BY Bounds DEF Init
  <2>6. /\ disturbed \subseteq Trigger /\ unfired \subseteq Trigger
        /\ enabled \subseteq Trigger /\ jobs \subseteq Trigger /\ steady \subseteq Trigger
        /\ {running, overlapped, straddled} \subseteq BOOLEAN
        /\ written \subseteq [trigger : Trigger, minute : 0..MaxMinute]
    BY DEF Init
  <2>7. QED  BY <2>2, <2>3, <2>4, <2>5, <2>6 DEF TypeOK
<1>2. SchedulerInv
  BY DEF Init, SchedulerInv, RefreshTakesEffect, AloneWithAnEmptyMap, Scheduled, Suspended
<1>3. SweepInv
  BY Bounds DEF Init, SweepInv, Held, OncePerMinute, OfThisMinute, ClaimedOnce, ReadLately,
     Sweeping
<1>4. NothingMissed
  BY Bounds DEF Init, NothingMissed, Listed, Executed
<1>5. QED  BY <1>1, <1>2, <1>3, <1>4 DEF Inv

-----------------------------------------------------------------------------
(* Types.                                                                  *)

(* To stop the jobs of the map is to stop all that live.                   *)
LEMMA Stopping ==
  ASSUME TypeOK, RefreshTakesEffect, StopJobs
  PROVE  /\ live' = [t \in Trigger |-> NoJob] /\ unfired' \subseteq Trigger /\ jobs' = {}
<1>1. \A t \in Trigger : (IF t \in jobs THEN NoJob ELSE live[t]) = NoJob
  BY DEF RefreshTakesEffect
<1>2. QED  BY <1>1 DEF StopJobs, TypeOK

LEMMA TableType == TypeOK => Table \in [Trigger -> Nat \cup {NoJob}]
  BY DEF TypeOK, Table

LEMMA MakingTypes ==
  ASSUME TypeOK, NEW o \in Op, MakeJobs(opRead[o])
  PROVE  live' \in [Trigger -> Nat \cup {NoJob}] /\ jobs' \subseteq Trigger
<1>1. opRead[o] \in [Trigger -> Nat \cup {NoJob}]
  BY DEF TypeOK
<1>2. QED  BY <1>1 DEF MakeJobs, TypeOK

LEMMA SchedulerTypes ==
  ASSUME TypeOK, RefreshTakesEffect,
         \/ Stop
         \/ \E o \in Op : \/ Start(o) \/ Refresh(o) \/ ReadTriggers(o)
                         \/ ScheduleJobs(o) \/ ReadFails(o)
  PROVE  TypeOK'
<1> USE DEF tableVars
<1>1. ASSUME NEW o \in Op, Start(o)  PROVE TypeOK'
  BY <1>1 DEF Start, Await, TypeOK, sweepVars
<1>2. ASSUME NEW o \in Op, Refresh(o)  PROVE TypeOK'
  <2>1. live' \in [Trigger -> Nat \cup {NoJob}] /\ unfired' \subseteq Trigger /\ jobs' = {}
    BY <1>2, Stopping DEF Refresh
  <2>2. QED  BY <1>2, <2>1 DEF Refresh, Await, TypeOK, sweepVars
<1>3. ASSUME NEW o \in Op, ReadTriggers(o)  PROVE TypeOK'
  <2>1. opRead' \in [Op -> [Trigger -> Nat \cup {NoJob}]]
    BY <1>3, TableType DEF ReadTriggers, TypeOK
  <2>2. QED  BY <1>3, <2>1 DEF ReadTriggers, TypeOK, sweepVars
<1>4. ASSUME NEW o \in Op, ScheduleJobs(o)  PROVE TypeOK'
  <2>1. live' \in [Trigger -> Nat \cup {NoJob}] /\ jobs' \subseteq Trigger
    BY <1>4, MakingTypes DEF ScheduleJobs
  <2>2. opRead' \in [Op -> [Trigger -> Nat \cup {NoJob}]]
    <3>1. [t \in Trigger |-> NoJob] \in [Trigger -> Nat \cup {NoJob}]
      OBVIOUS
    <3>2. QED  BY <1>4, <3>1 DEF ScheduleJobs, TypeOK
  <2>3. QED  BY <1>4, <2>1, <2>2 DEF ScheduleJobs, TypeOK, sweepVars
<1>5. ASSUME NEW o \in Op, ReadFails(o)  PROVE TypeOK'
  BY <1>5 DEF ReadFails, TypeOK, sweepVars
<1>6. CASE Stop
  <2>1. live' \in [Trigger -> Nat \cup {NoJob}] /\ unfired' \subseteq Trigger /\ jobs' = {}
    BY <1>6, Stopping DEF Stop
  <2>2. QED  BY <1>6, <2>1 DEF Stop, TypeOK, sweepVars
<1>7. QED  BY <1>1, <1>2, <1>3, <1>4, <1>5, <1>6

LEMMA SweepTypes ==
  ASSUME TypeOK, NEW w \in Worker,
         \/ BeginSweep(w) \/ ListTriggers(w) \/ ClaimTrigger(w)
         \/ ExecuteClaimed(w) \/ EndSweep(w) \/ SweepDies(w)
  PROVE  TypeOK'
<1> USE DEF tableVars
<1>1. CASE BeginSweep(w)
  BY <1>1 DEF BeginSweep, TypeOK, schedulerVars
<1>2. CASE ListTriggers(w)
  <2>1. \A t \in enabled : [trigger |-> t, last |-> last[t]] \in [trigger : Trigger, last : Stamp]
    BY DEF TypeOK
  <2>2. listed' \in [Worker -> SUBSET [trigger : Trigger, last : Stamp]]
    BY <1>2, <2>1 DEF ListTriggers, TypeOK
  <2>3. QED  BY <1>2, <2>2 DEF ListTriggers, TypeOK, schedulerVars
<1>3. CASE ClaimTrigger(w)
  <2>1. PICK e \in listed[w] :
          /\ listed' = [listed EXCEPT ![w] = @ \ {e}]
          /\ IF IsDue(e, now[w]) /\ Claims(w, e)
             THEN /\ last' = [last EXCEPT ![e.trigger] = [minute |-> now[w], by |-> w]]
                  /\ claimed' = [claimed EXCEPT ![w] = {e.trigger}]
                  /\ workerPc' = [workerPc EXCEPT ![w] = "executing"]
             ELSE UNCHANGED <<last, claimed, workerPc>>
    BY <1>3 DEF ClaimTrigger
  <2>2. e.trigger \in Trigger /\ [minute |-> now[w], by |-> w] \in Stamp
    BY <2>1 DEF TypeOK, Stamp
  <2>3. /\ last' \in [Trigger -> Stamp]
        /\ claimed' \in [Worker -> {{}} \cup {{t} : t \in Trigger}]
        /\ workerPc' \in [Worker -> {"uncalled", "listing", "claiming", "executing", "over", "dead"}]
        /\ listed' \in [Worker -> SUBSET [trigger : Trigger, last : Stamp]]
    <3>1. listed' \in [Worker -> SUBSET [trigger : Trigger, last : Stamp]]
      BY <2>1 DEF TypeOK
    <3>2. last' \in [Trigger -> Stamp]
      BY <2>1, <2>2 DEF TypeOK
    <3>3. {e.trigger} \in {{t} : t \in Trigger}
      BY <2>2
    <3>4. claimed' \in [Worker -> {{}} \cup {{t} : t \in Trigger}]
      BY <2>1, <3>3 DEF TypeOK
    <3>5. workerPc' \in [Worker -> {"uncalled", "listing", "claiming", "executing", "over", "dead"}]
      BY <2>1 DEF TypeOK
    <3>6. QED  BY <3>1, <3>2, <3>4, <3>5
  <2>4. QED  BY <1>3, <2>3 DEF ClaimTrigger, TypeOK, schedulerVars
<1>4. CASE ExecuteClaimed(w)
  <2>1. PICK t \in claimed[w] :
          \/ /\ ExecuteCronTrigger(t)
             /\ ran' = IF t \in enabled THEN [ran EXCEPT ![t][now[w]] = @ + 1] ELSE ran
             /\ UNCHANGED disturbed
          \/ disturbed' = disturbed \cup {t} /\ UNCHANGED <<written, ran>>
    BY <1>4 DEF ExecuteClaimed
  <2>2. t \in Trigger /\ now[w] \in 0..MaxMinute
    <3>1. claimed[w] = {} \/ \E u \in Trigger : claimed[w] = {u}
      BY DEF TypeOK
    <3>2. QED  BY <2>1, <3>1 DEF TypeOK
  <2>3. ran' \in [Trigger -> [0..MaxMinute -> Nat]]
    <3>1. ran[t] \in [0..MaxMinute -> Nat] /\ ran[t][now[w]] + 1 \in Nat
      <4>1. ran \in [Trigger -> [0..MaxMinute -> Nat]]
        BY DEF TypeOK
      <4>2. ran[t] \in [0..MaxMinute -> Nat]
        BY <2>2, <4>1
      <4>3. ran[t][now[w]] \in Nat
        BY <2>2, <4>2
      <4>4. QED  BY <4>2, <4>3
    <3>2. [ran[t] EXCEPT ![now[w]] = @ + 1] \in [0..MaxMinute -> Nat]
      BY <2>2, <3>1
    <3>3. QED  BY <2>1, <2>2, <3>2 DEF TypeOK
  <2>4. /\ written' \subseteq [trigger : Trigger, minute : 0..MaxMinute]
        /\ disturbed' \subseteq Trigger
    BY <2>1, <2>2 DEF TypeOK, ExecuteCronTrigger
  <2>5. QED  BY <1>4, <2>3, <2>4 DEF ExecuteClaimed, TypeOK, schedulerVars
<1>5. CASE EndSweep(w)
  BY <1>5 DEF EndSweep, TypeOK, schedulerVars
<1>6. CASE SweepDies(w)
  <2>1. claimed[w] \subseteq Trigger
    <3>1. claimed[w] = {} \/ \E u \in Trigger : claimed[w] = {u}
      BY DEF TypeOK
    <3>2. QED  BY <3>1
  <2>2. claimed' \in [Worker -> {{}} \cup {{t} : t \in Trigger}]
    BY <1>6 DEF SweepDies, TypeOK
  <2>3. /\ workerPc' \in [Worker -> {"uncalled", "listing", "claiming", "executing", "over", "dead"}]
        /\ listed' \in [Worker -> SUBSET [trigger : Trigger, last : Stamp]]
    BY <1>6 DEF SweepDies, TypeOK
  <2>4. QED  BY <1>6, <2>1, <2>2, <2>3 DEF SweepDies, TypeOK, schedulerVars
<1>7. QED  BY <1>1, <1>2, <1>3, <1>4, <1>5, <1>6

LEMMA OtherTypes ==
  ASSUME TypeOK,
         UpdateLast \/ Tick \/ \E t \in Trigger : FireJob(t) \/ Edit(t)
  PROVE  TypeOK'
<1> USE DEF tableVars
<1>1. ASSUME NEW t \in Trigger, FireJob(t)  PROVE TypeOK'
  <2>1. written' \subseteq [trigger : Trigger, minute : 0..MaxMinute]
    BY <1>1 DEF FireJob, ExecuteCronTrigger, TypeOK
  <2>2. QED  BY <1>1, <2>1 DEF FireJob, TypeOK, sweepVars
<1>2. ASSUME NEW t \in Trigger, Edit(t)  PROVE TypeOK'
  <2>1. edits' \in 0..MaxEdits /\ enabled' \subseteq Trigger /\ steady' \subseteq Trigger
    BY <1>2, Bounds DEF Edit, TypeOK
  <2>2. version' \in [Trigger -> Nat] /\ disturbed' \subseteq Trigger
    <3>1. version[t] + 1 \in Nat /\ version \in [Trigger -> Nat]
      BY DEF TypeOK
    <3>2. version' = version \/ version' = [version EXCEPT ![t] = version[t] + 1]
      BY <1>2 DEF Edit
    <3>3. disturbed' \subseteq Trigger
      BY <1>2 DEF Edit, TypeOK
    <3>4. QED  BY <3>1, <3>2, <3>3
  <2>3. QED  BY <1>2, <2>1, <2>2 DEF Edit, TypeOK, schedulerVars, sweepVars
<1>3. CASE UpdateLast
  <2>1. PICK u \in written :
          /\ \/ last' = [last EXCEPT ![u.trigger] = [minute |-> u.minute, by |-> "update"]]
             \/ UNCHANGED last
          /\ written' = written \ {u}
          /\ UNCHANGED <<minute, straddled, disturbed, tableVars, schedulerVars, sweepVars>>
    BY <1>3 DEF UpdateLast
  <2>2. [minute |-> u.minute, by |-> "update"] \in Stamp
    BY <2>1 DEF TypeOK, Stamp
  <2>3. last' \in [Trigger -> Stamp]
    BY <2>1, <2>2 DEF TypeOK
  <2>4. QED  BY <2>1, <2>3 DEF TypeOK, schedulerVars, sweepVars
<1>4. CASE Tick
  <2>1. minute' \in 0..MaxMinute
    BY <1>4, Bounds DEF Tick, TypeOK
  <2>2. QED  BY <1>4, <2>1 DEF Tick, TypeOK, sweepVars
<1>5. QED  BY <1>1, <1>2, <1>3, <1>4

-----------------------------------------------------------------------------
(* The scheduler.                                                          *)

(* A call that is about to read covers every trigger, and is alone unless  *)
(* the calls overlap.                                                      *)
LEMMA Awaiting ==
  ASSUME TypeOK, NEW o \in Op, opPc[o] = "idle", Await(o), running',
         overlapped' \/ (Suspended = {} /\ jobs' = {}),
         jobs' = {t \in Trigger : live'[t] # NoJob}
  PROVE  SchedulerInv'
<1>1. opPc' = [opPc EXCEPT ![o] = "reading"]
  BY DEF Await
<1>2. Suspended' = Suspended \cup {o} /\ opPc'[o] = "reading"
  BY <1>1 DEF Suspended, TypeOK
<1>3. RefreshTakesEffect'
  BY <1>2 DEF RefreshTakesEffect
<1>4. AloneWithAnEmptyMap'
  BY <1>2 DEF AloneWithAnEmptyMap
<1>5. Scheduled'
  <2>1. \A t : Covers(o, t)'
    BY <1>2 DEF Covers
  <2>2. QED  BY <2>1 DEF Scheduled
<1>6. QED  BY <1>3, <1>4, <1>5 DEF SchedulerInv

LEMMA SchedulerKeeps ==
  ASSUME TypeOK, SchedulerInv,
         \/ Stop
         \/ \E o \in Op : \/ Start(o) \/ Refresh(o) \/ ReadTriggers(o)
                         \/ ScheduleJobs(o) \/ ReadFails(o)
  PROVE  SchedulerInv'
<1> USE DEF SchedulerInv
<1>1. ASSUME NEW o \in Op, Start(o)  PROVE SchedulerInv'
  <2>1. /\ opPc[o] = "idle" /\ ~running /\ running' /\ Await(o) /\ UNCHANGED <<jobs, live>>
        /\ overlapped' = (overlapped \/ Suspended # {})
    BY <1>1 DEF Start
  <2>2. overlapped' \/ (Suspended = {} /\ jobs' = {})
    BY <2>1 DEF RefreshTakesEffect, TypeOK
  <2>3. jobs' = {t \in Trigger : live'[t] # NoJob}
    BY <2>1 DEF RefreshTakesEffect
  <2>4. QED  BY <2>1, <2>2, <2>3, Awaiting
<1>2. ASSUME NEW o \in Op, Refresh(o)  PROVE SchedulerInv'
  <2>1. /\ StopJobs /\ opPc[o] = "idle" /\ UNCHANGED running
        /\ overlapped' = (Suspended # {})
    BY <1>2 DEF Refresh
  <2>2. jobs' = {} /\ live' = [t \in Trigger |-> NoJob]
    BY <2>1, Stopping
  <2>3. jobs' = {t \in Trigger : live'[t] # NoJob}
    BY <2>2
  <2>4. CASE running
    <3>1. Await(o)
      BY <1>2, <2>4 DEF Refresh
    <3>2. QED  BY <2>1, <2>2, <2>3, <2>4, <3>1, Awaiting
  <2>5. CASE ~running
    <3>1. ~running' /\ UNCHANGED opPc
      BY <1>2, <2>1, <2>5 DEF Refresh
    <3>2. Suspended' = Suspended
      BY <3>1 DEF Suspended
    <3>3. QED
      BY <2>1, <2>2, <2>3, <3>1, <3>2 DEF RefreshTakesEffect, AloneWithAnEmptyMap, Scheduled
  <2>6. QED  BY <2>4, <2>5
<1>3. ASSUME NEW o \in Op, ReadTriggers(o)  PROVE SchedulerInv'
  <2>1. /\ opPc[o] = "reading"
        /\ UNCHANGED <<running, jobs, live, overlapped, enabled, version, steady>>
        /\ \/ opPc' = [opPc EXCEPT ![o] = "read"] /\ opRead' = [opRead EXCEPT ![o] = Table]
           \/ opPc' = [opPc EXCEPT ![o] = "failed"] /\ UNCHANGED opRead
    BY <1>3 DEF ReadTriggers, tableVars
  <2>2. Suspended' = Suspended /\ Table' = Table
    BY <2>1 DEF Suspended, TypeOK, Table
  <2>3. \A t \in enabled : Table[t] # NoJob
    BY DEF Table, NoJob, TypeOK
  <2>4. \A p \in Op, t \in enabled : Covers(p, t) => Covers(p, t)'
    BY <2>1, <2>3 DEF Covers, TypeOK
  <2>5. RefreshTakesEffect'
    BY <2>1, <2>2 DEF RefreshTakesEffect
  <2>6. AloneWithAnEmptyMap'
    <3>1. opPc'[o] = "read" => opRead'[o] = Table
      BY <2>1 DEF TypeOK
    <3>2. \A p \in Op \ {o} : opPc'[p] = opPc[p] /\ opRead'[p] = opRead[p]
      BY <2>1 DEF TypeOK
    <3>3. QED  BY <2>1, <2>2, <3>1, <3>2 DEF AloneWithAnEmptyMap, Suspended
  <2>7. Scheduled'
    BY <2>1, <2>4 DEF Scheduled
  <2>8. QED  BY <2>5, <2>6, <2>7
<1>4. ASSUME NEW o \in Op, ScheduleJobs(o)  PROVE SchedulerInv'
  <2> DEFINE mine == opRead[o]
  <2>1. /\ opPc[o] = "read" /\ UNCHANGED <<running, overlapped, enabled, version, steady>>
        /\ opPc' = [opPc EXCEPT ![o] = "idle"]
        /\ opRead' = [opRead EXCEPT ![o] = [t \in Trigger |-> NoJob]]
        /\ live' = [t \in Trigger |-> IF live[t] = NoJob THEN mine[t] ELSE live[t]]
        /\ jobs' = jobs \cup {t \in Trigger : live[t] = NoJob /\ mine[t] # NoJob}
    BY <1>4 DEF ScheduleJobs, MakeJobs, tableVars
  <2>2. Suspended' = Suspended \ {o} /\ o \in Suspended /\ Table' = Table
    BY <2>1 DEF Suspended, TypeOK, Table
  <2>3. ~overlapped =>
          /\ running /\ jobs = {} /\ Suspended' = {}
          /\ \A t \in steady : mine[t] = Table[t]
    BY <2>1, <2>2 DEF AloneWithAnEmptyMap
  <2> HIDE DEF mine
  <2>4. jobs' = {t \in Trigger : live'[t] # NoJob}
    BY <2>1 DEF RefreshTakesEffect
  <2>5. ~overlapped => \A t \in steady : live'[t] = Table[t]
    <3>1. ~overlapped => \A t \in Trigger : live[t] = NoJob
      BY <2>3 DEF RefreshTakesEffect
    <3>2. QED  BY <2>1, <2>3, <3>1 DEF TypeOK
  <2>6. RefreshTakesEffect'
    BY <2>1, <2>2, <2>3, <2>4, <2>5 DEF RefreshTakesEffect
  <2>7. AloneWithAnEmptyMap'
    BY <2>1, <2>3 DEF AloneWithAnEmptyMap
  <2>8. \A p \in Op, t \in Trigger : (p # o /\ Covers(p, t)) => Covers(p, t)'
    BY <2>1 DEF Covers, TypeOK
  <2>9. \A t \in Trigger : (live[t] # NoJob \/ Covers(o, t)) => live'[t] # NoJob
    BY <2>1 DEF Covers, mine
  <2>10. Scheduled'
    BY <2>1, <2>8, <2>9 DEF Scheduled, TypeOK
  <2>11. QED  BY <2>6, <2>7, <2>10
<1>5. ASSUME NEW o \in Op, ReadFails(o)  PROVE SchedulerInv'
  <2>1. /\ opPc[o] = "failed" /\ UNCHANGED <<running, jobs, live, overlapped, enabled>>
        /\ opPc' = [opPc EXCEPT ![o] = "idle"] /\ steady' = {}
    BY <1>5 DEF ReadFails
  <2>2. Suspended' \subseteq Suspended
    BY <2>1 DEF Suspended, TypeOK
  <2>3. AloneWithAnEmptyMap'
    <3>1. ASSUME ~overlapped, NEW p \in Suspended'  PROVE running /\ jobs = {} /\ Suspended' = {p}
      BY <2>2, <3>1 DEF AloneWithAnEmptyMap
    <3>2. QED  BY <2>1, <3>1 DEF AloneWithAnEmptyMap
  <2>4. QED
    BY <2>1, <2>3 DEF RefreshTakesEffect, Scheduled
<1>6. CASE Stop
  <2>1. ~running' /\ UNCHANGED opPc /\ overlapped' = (Suspended # {}) /\ StopJobs
    BY <1>6 DEF Stop
  <2>2. jobs' = {} /\ live' = [t \in Trigger |-> NoJob]
    BY <2>1, Stopping
  <2>3. Suspended' = Suspended
    BY <2>1 DEF Suspended
  <2>4. RefreshTakesEffect'
    BY <2>1, <2>2 DEF RefreshTakesEffect
  <2>5. AloneWithAnEmptyMap' /\ Scheduled'
    BY <2>1, <2>3 DEF AloneWithAnEmptyMap, Scheduled
  <2>6. QED  BY <2>4, <2>5
<1>7. QED  BY <1>1, <1>2, <1>3, <1>4, <1>5, <1>6

(* What leaves the calls and the map alone, and the rows that are steady.  *)
LEMMA SchedulerUntouched ==
  ASSUME TypeOK, SchedulerInv, UNCHANGED <<running, jobs, live, opPc, opRead, overlapped>>,
         steady' \subseteq steady, enabled' \cap steady' \subseteq enabled \cap steady,
         \A t \in steady' : Table'[t] = Table[t]
  PROVE  SchedulerInv'
<1>1. Suspended' = Suspended /\ \A o, t : Covers(o, t)' = Covers(o, t)
  BY DEF Suspended, Covers
<1>2. RefreshTakesEffect'
  BY <1>1 DEF SchedulerInv, RefreshTakesEffect
<1>3. AloneWithAnEmptyMap'
  BY <1>1 DEF SchedulerInv, AloneWithAnEmptyMap
<1>4. Scheduled'
  BY <1>1 DEF SchedulerInv, Scheduled
<1>5. QED
  BY <1>2, <1>3, <1>4 DEF SchedulerInv

-----------------------------------------------------------------------------
(* The sweeps.                                                             *)

(* An execution leaves an update of this minute behind, at most.           *)
LEMMA Executing ==
  ASSUME TypeOK, NEW t, ExecuteCronTrigger(t), \A u \in written : u.minute = minute
  PROVE  \A u \in written' : u.minute = minute
  BY DEF ExecuteCronTrigger

(* What concerns the sweeps at most in the updates it leaves behind.       *)
LEMMA SweepsUntouched ==
  ASSUME SweepInv, NothingMissed, UNCHANGED <<minute, last, straddled, sweepVars>>,
         (\A u \in written : u.minute = minute) => \A u \in written' : u.minute = minute,
         enabled' \ disturbed' \subseteq enabled \ disturbed
  PROVE  SweepInv' /\ NothingMissed'
<1>1. Sweeping' = Sweeping
  BY DEF Sweeping, sweepVars
<1>2. SweepInv'
  BY <1>1 DEF SweepInv, Held, OncePerMinute, OfThisMinute, ClaimedOnce, ReadLately, sweepVars
<1>3. NothingMissed'
  BY DEF NothingMissed, Listed, Executed, sweepVars
<1>4. QED  BY <1>2, <1>3

LEMMA BeginKeeps ==
  ASSUME TypeOK, SweepInv, NothingMissed, NEW w \in Worker, BeginSweep(w)
  PROVE  SweepInv' /\ NothingMissed'
<1>1. /\ workerPc[w] = "uncalled" /\ workerPc' = [workerPc EXCEPT ![w] = "listing"]
      /\ now' = [now EXCEPT ![w] = minute]
      /\ UNCHANGED <<minute, enabled, last, listed, claimed, written, ran, straddled,
                     disturbed>>
  BY DEF BeginSweep, tableVars
<1>2. Sweeping' = Sweeping \cup {w} /\ minute \in Nat
  BY <1>1 DEF Sweeping, TypeOK
<1>3. Held'
  BY <1>1 DEF SweepInv, Held, TypeOK
<1>4. OfThisMinute => OfThisMinute'
  BY <1>1, <1>2 DEF OfThisMinute, TypeOK
<1>5. SweepInv'
  BY <1>1, <1>3, <1>4 DEF SweepInv, OncePerMinute, ClaimedOnce, ReadLately
<1>6. NothingMissed'
  BY <1>1 DEF NothingMissed, Listed, Executed, TypeOK
<1>7. QED  BY <1>5, <1>6

LEMMA ListKeeps ==
  ASSUME TypeOK, SweepInv, NothingMissed, NEW w \in Worker, ListTriggers(w)
  PROVE  SweepInv' /\ NothingMissed'
<1>1. /\ workerPc[w] = "listing" /\ workerPc' = [workerPc EXCEPT ![w] = "claiming"]
      /\ listed' = [listed EXCEPT ![w] = {[trigger |-> t, last |-> last[t]] : t \in enabled}]
      /\ UNCHANGED <<minute, enabled, last, now, claimed, written, ran, straddled,
                     disturbed>>
  BY DEF ListTriggers, tableVars
<1>2. Sweeping' = Sweeping
  BY <1>1 DEF Sweeping, TypeOK
<1>3. Held'
  BY <1>1 DEF SweepInv, Held, TypeOK
<1>4. listed'[w] = {[trigger |-> t, last |-> last[t]] : t \in enabled}
      /\ \A v \in Worker \ {w} : listed'[v] = listed[v] /\ workerPc'[v] = workerPc[v]
  BY <1>1 DEF TypeOK
<1>5. ReadLately => ReadLately'
  BY <1>1, <1>4 DEF ReadLately
<1>6. SweepInv'
  BY <1>1, <1>2, <1>3, <1>5 DEF SweepInv, OncePerMinute, OfThisMinute, ClaimedOnce
<1>7. NothingMissed'
  <2>1. ASSUME NEW t \in enabled  PROVE \E e \in listed'[w] : e.trigger = t
    <3>1. [trigger |-> t, last |-> last[t]] \in listed'[w]
      BY <1>4
    <3>2. QED  BY <3>1
  <2>2. workerPc'[w] = "claiming"
    BY <1>1 DEF TypeOK
  <2>3. Listed => Listed'
    BY <1>1, <1>4, <2>1, <2>2 DEF Listed
  <2>4. QED  BY <1>1, <2>3 DEF NothingMissed, Executed
<1>8. QED  BY <1>6, <1>7

(* A sweep goes on to the next trigger.                                    *)
LEMMA PassKeeps ==
  ASSUME TypeOK, SweepInv, NothingMissed, NEW w \in Worker, NEW e \in listed[w],
         workerPc[w] = "claiming", listed' = [listed EXCEPT ![w] = @ \ {e}],
         ~IsDue(e, now[w]) \/ ~Claims(w, e),
         UNCHANGED <<last, claimed, workerPc, minute, enabled, now, written, ran, straddled,
                     disturbed>>
  PROVE  SweepInv' /\ NothingMissed'
<1>1. Sweeping' = Sweeping /\ w \in Sweeping
  BY DEF Sweeping
<1>2. \A v \in Worker : listed'[v] \subseteq listed[v] /\ (v # w => listed'[v] = listed[v])
  BY DEF TypeOK
<1>3. listed'[w] = listed[w] \ {e}
  BY DEF TypeOK
<1>4. SweepInv'
  BY <1>1, <1>2 DEF SweepInv, Held, OncePerMinute, OfThisMinute, ClaimedOnce, ReadLately
<1>5. ~straddled => last[e.trigger].minute = minute
  BY <1>1 DEF SweepInv, OfThisMinute, ReadLately, IsDue, Claims
<1>6. NothingMissed'
  BY <1>2, <1>3, <1>5 DEF NothingMissed, Listed, Executed
<1>7. QED  BY <1>4, <1>6

(* A claim succeeds only for a trigger that nobody has claimed this minute.*)
LEMMA ClaimKeeps ==
  ASSUME TypeOK, SweepInv, NothingMissed, NEW w \in Worker, ClaimTrigger(w)
  PROVE  SweepInv' /\ NothingMissed'
<1>1. /\ workerPc[w] = "claiming"
      /\ UNCHANGED <<minute, enabled, now, written, ran, straddled, disturbed>>
  BY DEF ClaimTrigger, tableVars
<1>2. PICK e \in listed[w] :
        /\ listed' = [listed EXCEPT ![w] = @ \ {e}]
        /\ IF IsDue(e, now[w]) /\ Claims(w, e)
           THEN /\ last' = [last EXCEPT ![e.trigger] = [minute |-> now[w], by |-> w]]
                /\ claimed' = [claimed EXCEPT ![w] = {e.trigger}]
                /\ workerPc' = [workerPc EXCEPT ![w] = "executing"]
           ELSE UNCHANGED <<last, claimed, workerPc>>
  BY DEF ClaimTrigger
<1>3. CASE ~(IsDue(e, now[w]) /\ Claims(w, e))
  BY <1>1, <1>2, <1>3, PassKeeps
<1>4. CASE IsDue(e, now[w]) /\ Claims(w, e)
  <2> DEFINE t == e.trigger
  <2>1. /\ last' = [last EXCEPT ![t] = [minute |-> now[w], by |-> w]]
        /\ claimed' = [claimed EXCEPT ![w] = {t}]
        /\ workerPc' = [workerPc EXCEPT ![w] = "executing"]
        /\ t \in Trigger
    BY <1>2, <1>4 DEF TypeOK
  <2>2. /\ workerPc'[w] = "executing" /\ claimed'[w] = {t} /\ listed'[w] = listed[w] \ {e}
        /\ \A v \in Worker : listed'[v] \subseteq listed[v]
        /\ \A v \in Worker \ {w} : /\ workerPc'[v] = workerPc[v] /\ claimed'[v] = claimed[v]
                                   /\ listed'[v] = listed[v]
        /\ last'[t] = [minute |-> now[w], by |-> w]
        /\ \A u \in Trigger \ {t} : last'[u] = last[u]
    BY <1>2, <2>1 DEF TypeOK
  <2>3. Sweeping' = Sweeping /\ w \in Sweeping
    BY <1>1, <2>2 DEF Sweeping
  <2>4. last[t].minute # now[w]
    BY <1>4 DEF IsDue, Claims
  <2> HIDE DEF t
  <2>5. Held'
    BY <1>1, <2>2 DEF SweepInv, Held
  <2>6. CASE straddled
    BY <1>1, <2>5, <2>6 DEF SweepInv, NothingMissed
  <2>7. CASE ~straddled
    <3>1. now[w] = minute /\ last'[t].minute = minute /\ minute \in 0..MaxMinute
      BY <2>2, <2>3, <2>7 DEF SweepInv, OfThisMinute, TypeOK
    <3>2. OncePerMinute' /\ OfThisMinute'
      BY <1>1, <2>2, <2>3, <2>7, <3>1 DEF SweepInv, OncePerMinute, OfThisMinute
    <3>3. ran[t][minute] = 0 /\ \A v \in Worker : t \notin claimed[v]
      <4>1. ran[t] \in [0..MaxMinute -> Nat]
        BY <2>1 DEF TypeOK
      <4>2. ran[t][minute] \in Nat
        BY <3>1, <4>1
      <4>3. QED  BY <2>1, <2>4, <2>7, <3>1, <4>2 DEF SweepInv, ClaimedOnce
    <3>4. ClaimedOnce'
      <4>1. \A u \in Trigger, v \in Worker :
              u \in claimed'[v] <=> (IF v = w THEN u = t ELSE u \in claimed[v])
        BY <2>2
      <4>2. claimed[w] = {}
        BY <1>1 DEF SweepInv, Held
      <4>3. QED
        BY <1>1, <2>2, <2>7, <3>1, <3>3, <4>1, <4>2 DEF SweepInv, ClaimedOnce
    <3>5. ReadLately'
      <4>1. ASSUME NEW v \in Worker, NEW f \in listed'[v]
            PROVE  last'[f.trigger] = f.last \/ last'[f.trigger].minute = minute
        <5>1. f \in listed[v] /\ f.trigger \in Trigger
          BY <2>2, <4>1 DEF TypeOK
        <5>2. last[f.trigger] = f.last \/ last[f.trigger].minute = minute
          BY <2>7, <4>1, <5>1 DEF SweepInv, ReadLately
        <5>3. QED  BY <2>2, <3>1, <5>1, <5>2
      <4>2. QED  BY <1>1, <4>1 DEF ReadLately
    <3>6. SweepInv'
      BY <2>5, <3>2, <3>4, <3>5 DEF SweepInv
    <3>7. Listed' /\ Executed'
      <4>1. Listed /\ Executed
        BY <2>7 DEF NothingMissed
      <4>2. Listed'
        <5>1. ASSUME NEW u \in enabled \ disturbed
              PROVE  last'[u].minute = minute \/ \E f \in listed'[w] : f.trigger = u
          <6>1. last[u].minute = minute \/ \E f \in listed[w] : f.trigger = u
            BY <1>1, <4>1 DEF Listed
          <6>2. u \in Trigger
            BY DEF TypeOK
          <6>3. CASE u = t
            BY <3>1, <6>3
          <6>4. CASE u # t
            BY <2>2, <6>1, <6>2, <6>4 DEF t
          <6>5. QED  BY <6>3, <6>4
        <5>2. ASSUME NEW v \in Worker \ {w}, NEW u \in enabled \ disturbed
              PROVE  /\ workerPc[v] \in {"claiming", "executing"} =>
                          last'[u].minute = minute \/ \E f \in listed[v] : f.trigger = u
                     /\ (workerPc[v] = "over" /\ now[v] = minute) => last'[u].minute = minute
          <6>1. last[u].minute = minute => last'[u].minute = minute
            BY <2>2, <3>1 DEF TypeOK
          <6>2. QED  BY <4>1, <6>1 DEF Listed
        <5>3. workerPc'[w] # "over"
          BY <2>2
        <5>4. QED  BY <1>1, <2>2, <5>1, <5>2, <5>3 DEF Listed
      <4>3. claimed[w] = {}
        BY <1>1 DEF SweepInv, Held
      <4>4. Executed'
        <5>1. ASSUME NEW u \in enabled \ disturbed, last'[u].minute = minute,
                     last'[u].by # "update"
              PROVE  ran[u][minute] = 1 \/ \E v \in Worker : u \in claimed'[v]
          <6>1. CASE u = t
            BY <2>2, <6>1
          <6>2. CASE u # t
            <7>1. last'[u] = last[u]
              BY <2>2, <6>2 DEF TypeOK
            <7>2. ran[u][minute] = 1 \/ \E v \in Worker \ {w} : u \in claimed[v]
              BY <4>1, <4>3, <5>1, <7>1 DEF Executed
            <7>3. QED  BY <2>2, <7>2
          <6>3. QED  BY <6>1, <6>2
        <5>2. QED  BY <1>1, <5>1 DEF Executed
      <4>5. QED  BY <4>2, <4>4
    <3>8. QED  BY <1>1, <3>6, <3>7 DEF NothingMissed
  <2>8. QED  BY <2>6, <2>7
<1>5. QED  BY <1>3, <1>4

(* It executes what it had claimed.                                        *)
LEMMA ExecuteKeeps ==
  ASSUME TypeOK, SweepInv, NothingMissed, NEW w \in Worker, ExecuteClaimed(w)
  PROVE  SweepInv' /\ NothingMissed'
<1>1. /\ workerPc[w] = "executing" /\ workerPc' = [workerPc EXCEPT ![w] = "claiming"]
      /\ claimed' = [claimed EXCEPT ![w] = {}]
      /\ UNCHANGED <<minute, enabled, last, now, listed, straddled>>
  BY DEF ExecuteClaimed, tableVars
<1>2. PICK t \in claimed[w] :
        \/ /\ ExecuteCronTrigger(t)
           /\ ran' = IF t \in enabled THEN [ran EXCEPT ![t][now[w]] = @ + 1] ELSE ran
           /\ UNCHANGED disturbed
        \/ disturbed' = disturbed \cup {t} /\ UNCHANGED <<written, ran>>
  BY DEF ExecuteClaimed
<1>3. claimed[w] = {t} /\ t \in Trigger
  <2>1. claimed[w] = {} \/ \E u \in Trigger : claimed[w] = {u}
    BY DEF TypeOK
  <2>2. QED  BY <1>2, <2>1
<1>4. /\ workerPc'[w] = "claiming" /\ claimed'[w] = {}
      /\ \A v \in Worker \ {w} : workerPc'[v] = workerPc[v] /\ claimed'[v] = claimed[v]
  BY <1>1 DEF TypeOK
<1>5. Sweeping' = Sweeping /\ w \in Sweeping
  BY <1>1, <1>4 DEF Sweeping
<1>6. Held'
  BY <1>1, <1>4 DEF SweepInv, Held
<1>7. CASE straddled
  BY <1>1, <1>6, <1>7 DEF SweepInv, NothingMissed
<1>8. CASE ~straddled
  <2>1. OncePerMinute /\ OfThisMinute /\ ClaimedOnce /\ ReadLately
    BY <1>8 DEF SweepInv
  <2>2. now[w] = minute /\ minute \in 0..MaxMinute
    BY <1>5, <2>1 DEF OfThisMinute, TypeOK
  <2>3. /\ last[t].minute = minute /\ ran[t][minute] = 0
        /\ \A v \in Worker : t \in claimed[v] => v = w
    BY <1>2, <1>3, <2>1 DEF ClaimedOnce
  <2>4. /\ t \in enabled \ disturbed' => ran'[t][minute] = 1
        /\ ran'[t][minute] \in {0, 1}
        /\ \A m \in 0..MaxMinute \ {minute} : ran'[t][m] = ran[t][m]
        /\ \A u \in Trigger \ {t} : ran'[u] = ran[u]
    <3>1. ran \in [Trigger -> [0..MaxMinute -> Nat]] /\ ran[t] \in [0..MaxMinute -> Nat]
      BY <1>3 DEF TypeOK
    <3>2. CASE ran' = [ran EXCEPT ![t][now[w]] = @ + 1]
      <4>1. ran'[t] = [ran[t] EXCEPT ![minute] = @ + 1] /\ \A u \in Trigger \ {t} : ran'[u] = ran[u]
        BY <1>3, <2>2, <3>1, <3>2
      <4>2. ran'[t][minute] = ran[t][minute] + 1
        BY <2>2, <3>1, <4>1
      <4>3. \A m \in 0..MaxMinute \ {minute} : ran'[t][m] = ran[t][m]
        BY <3>1, <4>1
      <4>4. QED  BY <2>3, <4>1, <4>2, <4>3
    <3>3. CASE ran' = ran /\ t \notin enabled \ disturbed'
      BY <2>3, <3>3
    <3>4. QED  BY <1>2, <3>2, <3>3
  <2>5. OncePerMinute'
    BY <1>1, <1>3, <2>1, <2>2, <2>4 DEF OncePerMinute
  <2>6. OfThisMinute'
    <3>1. \A u \in written' : u.minute = minute
      <4>1. ExecuteCronTrigger(t) \/ written' = written
        BY <1>2
      <4>2. QED  BY <2>1, <4>1, Executing DEF OfThisMinute
    <3>2. \A u \in Trigger : \A m \in 0..MaxMinute : m > minute => ran'[u][m] = 0
      <4>1. ASSUME NEW u \in Trigger, NEW m \in 0..MaxMinute, m > minute  PROVE ran'[u][m] = 0
        <5>1. ran[u][m] = 0 /\ m # minute
          BY <2>1, <2>2, <4>1 DEF OfThisMinute
        <5>2. QED  BY <2>4, <4>1, <5>1
      <4>2. QED  BY <4>1
    <3>3. QED  BY <1>1, <1>5, <2>1, <3>1, <3>2 DEF OfThisMinute
  <2>7. ClaimedOnce'
    <3>1. \A u \in Trigger, v \in Worker : u \in claimed'[v] => v # w /\ u # t /\ u \in claimed[v]
      BY <1>4, <2>3
    <3>2. QED  BY <1>1, <2>1, <2>3, <2>4, <3>1 DEF ClaimedOnce
  <2>8. ReadLately'
    BY <1>1, <2>1 DEF ReadLately
  <2>9. SweepInv'
    BY <1>6, <2>5, <2>6, <2>7, <2>8 DEF SweepInv
  <2>10. Listed' /\ Executed'
    <3>1. Listed /\ Executed /\ disturbed \subseteq disturbed'
      BY <1>2, <1>8 DEF NothingMissed
    <3>2. Listed'
      BY <1>1, <1>4, <3>1 DEF Listed
    <3>3. Executed'
      <4>1. ASSUME NEW u \in enabled \ disturbed', last[u].minute = minute, last[u].by # "update"
            PROVE  ran'[u][minute] = 1 \/ \E v \in Worker : u \in claimed'[v]
        <5>1. CASE u = t
          BY <2>4, <4>1, <5>1
        <5>2. CASE u # t
          <6>1. u \in Trigger /\ (ran[u][minute] = 1 \/ \E v \in Worker : u \in claimed[v])
            BY <3>1, <4>1 DEF Executed, TypeOK
          <6>2. QED  BY <1>3, <1>4, <2>4, <5>2, <6>1
        <5>3. QED  BY <5>1, <5>2
      <4>2. QED  BY <1>1, <4>1 DEF Executed
    <3>4. QED  BY <3>2, <3>3
  <2>11. QED  BY <1>1, <2>9, <2>10 DEF NothingMissed
<1>9. QED  BY <1>7, <1>8

LEMMA EndKeeps ==
  ASSUME TypeOK, SweepInv, NothingMissed, NEW w \in Worker, EndSweep(w)
  PROVE  SweepInv' /\ NothingMissed'
<1>1. /\ workerPc[w] = "claiming" /\ listed[w] = {}
      /\ workerPc' = [workerPc EXCEPT ![w] = "over"]
      /\ UNCHANGED <<minute, enabled, last, now, listed, claimed, written, ran, straddled,
                     disturbed>>
  BY DEF EndSweep, tableVars
<1>2. workerPc'[w] = "over" /\ \A v \in Worker \ {w} : workerPc'[v] = workerPc[v]
  BY <1>1 DEF TypeOK
<1>3. Sweeping' \subseteq Sweeping
  BY <1>1, <1>2 DEF Sweeping
<1>4. Held'
  BY <1>1, <1>2 DEF SweepInv, Held
<1>5. SweepInv'
  BY <1>1, <1>3, <1>4 DEF SweepInv, OncePerMinute, OfThisMinute, ClaimedOnce, ReadLately
<1>6. NothingMissed'
  BY <1>1, <1>2 DEF NothingMissed, Listed, Executed
<1>7. QED  BY <1>5, <1>6

(* A sweep that dies disturbs what it has claimed.                         *)
LEMMA DiesKeeps ==
  ASSUME TypeOK, SweepInv, NothingMissed, NEW w \in Worker, SweepDies(w)
  PROVE  SweepInv' /\ NothingMissed'
<1>1. /\ workerPc' = [workerPc EXCEPT ![w] = "dead"]
      /\ listed' = [listed EXCEPT ![w] = {}] /\ claimed' = [claimed EXCEPT ![w] = {}]
      /\ disturbed' = disturbed \cup claimed[w]
      /\ UNCHANGED <<minute, enabled, last, now, written, ran, straddled>>
  BY DEF SweepDies, tableVars
<1>2. /\ workerPc'[w] = "dead" /\ listed'[w] = {} /\ claimed'[w] = {}
      /\ \A v \in Worker \ {w} : /\ workerPc'[v] = workerPc[v] /\ listed'[v] = listed[v]
                                 /\ claimed'[v] = claimed[v]
  BY <1>1 DEF TypeOK
<1>3. Sweeping' \subseteq Sweeping
  BY <1>1, <1>2 DEF Sweeping
<1>4. Held'
  BY <1>1, <1>2 DEF SweepInv, Held
<1>5. \A v \in Worker : listed'[v] \subseteq listed[v] /\ claimed'[v] \subseteq claimed[v]
  BY <1>2
<1>6. SweepInv'
  BY <1>1, <1>3, <1>4, <1>5 DEF SweepInv, OncePerMinute, OfThisMinute, ClaimedOnce, ReadLately
<1>7. Listed => Listed'
  BY <1>1, <1>2 DEF Listed
<1>8. Executed => Executed'
  <2>1. ASSUME Executed, NEW t \in enabled \ disturbed', last[t].minute = minute,
               last[t].by # "update"
        PROVE  ran[t][minute] = 1 \/ \E v \in Worker : t \in claimed'[v]
    <3>1. t \in enabled \ disturbed /\ t \notin claimed[w]
      BY <1>1, <2>1
    <3>2. QED  BY <1>2, <2>1, <3>1 DEF Executed
  <2>2. QED  BY <1>1, <2>1 DEF Executed
<1>9. QED  BY <1>1, <1>6, <1>7, <1>8 DEF NothingMissed

(* An update of this minute does not change that the trigger had its turn. *)
LEMMA UpdateKeeps ==
  ASSUME TypeOK, SweepInv, NothingMissed, UpdateLast
  PROVE  SweepInv' /\ NothingMissed'
<1>1. PICK u \in written :
        /\ \/ last' = [last EXCEPT ![u.trigger] = [minute |-> u.minute, by |-> "update"]]
           \/ UNCHANGED last
        /\ written' = written \ {u}
        /\ UNCHANGED <<minute, straddled, disturbed, tableVars, sweepVars>>
  BY DEF UpdateLast
<1>2. /\ UNCHANGED <<minute, enabled, straddled, disturbed, workerPc, now, listed, claimed, ran>>
      /\ Sweeping' = Sweeping
  BY <1>1 DEF sweepVars, tableVars, Sweeping
<1>3. /\ u.trigger \in Trigger
      /\ \/ last'[u.trigger].minute = u.minute /\ last'[u.trigger].by = "update"
         \/ last'[u.trigger] = last[u.trigger]
      /\ \A t \in Trigger \ {u.trigger} : last'[t] = last[t]
  BY <1>1 DEF TypeOK
<1>4. Held'
  BY <1>2 DEF SweepInv, Held
<1>5. CASE straddled
  BY <1>2, <1>4, <1>5 DEF SweepInv, NothingMissed
<1>6. CASE ~straddled
  <2>1. OncePerMinute /\ OfThisMinute /\ ClaimedOnce /\ ReadLately
    BY <1>6 DEF SweepInv
  <2>2. u.minute = minute /\ minute \in Int
    BY <2>1 DEF OfThisMinute, TypeOK
  <2>3. \A t \in Trigger : last[t].minute = minute => last'[t].minute = minute
    BY <1>3, <2>2
  <2>4. OfThisMinute'
    BY <1>1, <1>2, <1>3, <2>1, <2>2 DEF OfThisMinute
  <2>5. ClaimedOnce' /\ OncePerMinute'
    BY <1>2, <2>1, <2>3 DEF ClaimedOnce, OncePerMinute
  <2>6. ReadLately'
    <3>1. ASSUME NEW w \in Worker, NEW e \in listed[w]
          PROVE  last'[e.trigger] = e.last \/ last'[e.trigger].minute = minute
      <4>1. e.trigger \in Trigger /\ (last[e.trigger] = e.last \/ last[e.trigger].minute = minute)
        BY <2>1, <3>1 DEF ReadLately, TypeOK
      <4>2. QED  BY <1>3, <2>2, <4>1
    <3>2. QED  BY <1>2, <3>1 DEF ReadLately
  <2>7. SweepInv'
    BY <1>4, <2>4, <2>5, <2>6 DEF SweepInv
  <2>8. Listed' /\ Executed'
    <3>1. Listed /\ Executed /\ enabled \subseteq Trigger
      BY <1>6 DEF NothingMissed, TypeOK
    <3>2. Listed'
      BY <1>2, <2>3, <3>1 DEF Listed
    <3>3. Executed'
      BY <1>2, <1>3, <3>1 DEF Executed
    <3>4. QED  BY <3>2, <3>3
  <2>9. QED  BY <1>2, <2>7, <2>8 DEF NothingMissed
<1>7. QED  BY <1>5, <1>6

(* The next minute begins with nothing written or executed in it.          *)
LEMMA TickKeeps ==
  ASSUME TypeOK, SweepInv, NothingMissed, Tick
  PROVE  SweepInv' /\ NothingMissed'
<1>1. /\ minute < MaxMinute /\ minute' = minute + 1 /\ minute \in Nat
      /\ straddled' = (straddled \/ Sweeping # {} \/ written # {})
      /\ UNCHANGED <<enabled, last, written, workerPc, now, listed, claimed, ran>>
  BY DEF Tick, TypeOK, tableVars, sweepVars
<1>2. Held'
  BY <1>1 DEF SweepInv, Held
<1>3. CASE straddled'
  BY <1>2, <1>3 DEF SweepInv, NothingMissed
<1>4. CASE ~straddled'
  <2>1. /\ ~straddled /\ Sweeping = {} /\ written = {}
        /\ OncePerMinute /\ OfThisMinute /\ ClaimedOnce
    BY <1>1, <1>4 DEF SweepInv
  <2>2. Sweeping' = {}
    BY <1>1, <2>1 DEF Sweeping
  <2>3. \A w \in Worker : workerPc[w] \notin {"listing", "claiming", "executing"}
    BY <2>1 DEF Sweeping
  <2>4. \A w \in Worker : claimed[w] = {} /\ listed[w] = {}
    BY <2>3 DEF SweepInv, Held
  <2>5. \A t \in Trigger : last[t].minute \in Int /\ last[t].minute <= minute
    BY <2>1, Bounds DEF OfThisMinute, TypeOK
  <2>6. \A w \in Worker : now[w] \in Int /\ now[w] <= minute
    BY <2>1 DEF OfThisMinute, TypeOK
  <2>7. OncePerMinute'
    BY <1>1, <2>1 DEF OncePerMinute
  <2>8. OfThisMinute'
    <3>1. \A t \in Trigger : \A m \in 0..MaxMinute : m > minute + 1 => ran[t][m] = 0
      BY <1>1, <2>1 DEF OfThisMinute
    <3>2. \A w \in Worker : now[w] <= minute + 1
      BY <1>1, <2>6
    <3>3. \A t \in Trigger : last[t].minute <= minute + 1
      BY <1>1, <2>5
    <3>4. QED  BY <1>1, <2>1, <2>2, <3>1, <3>2, <3>3 DEF OfThisMinute
  <2>9. ClaimedOnce'
    <3>1. minute + 1 \in 0..MaxMinute /\ minute + 1 > minute
      BY <1>1, Bounds
    <3>2. \A t \in Trigger : ran[t][minute + 1] = 0
      BY <2>1, <3>1 DEF OfThisMinute
    <3>3. QED  BY <1>1, <2>4, <3>2 DEF ClaimedOnce
  <2>10. ReadLately'
    BY <1>1, <2>4 DEF ReadLately
  <2>11. SweepInv'
    BY <1>2, <2>7, <2>8, <2>9, <2>10 DEF SweepInv
  <2>12. NothingMissed'
    <3>1. \A t \in enabled : last[t].minute # minute + 1
      BY <1>1, <2>5 DEF TypeOK
    <3>2. \A w \in Worker : now[w] # minute + 1
      BY <1>1, <2>6
    <3>3. Executed'
      BY <1>1, <3>1 DEF Executed
    <3>4. Listed'
      BY <1>1, <2>3, <3>2 DEF Listed
    <3>5. QED  BY <3>3, <3>4 DEF NothingMissed
  <2>13. QED  BY <2>11, <2>12
<1>5. QED  BY <1>3, <1>4

-----------------------------------------------------------------------------

LEMMA InvNext == Inv /\ [Next]_vars => Inv'
<1> SUFFICES ASSUME Inv, [Next]_vars PROVE Inv'
  OBVIOUS
<1> USE DEF Inv
<1>1. CASE \/ Stop
           \/ \E o \in Op : \/ Start(o) \/ Refresh(o) \/ ReadTriggers(o)
                           \/ ScheduleJobs(o) \/ ReadFails(o)
  <2>1. TypeOK' /\ SchedulerInv'
    BY <1>1, SchedulerTypes, SchedulerKeeps DEF SchedulerInv
  <2>2. UNCHANGED <<minute, last, straddled, written, enabled, disturbed, sweepVars>>
    BY <1>1 DEF Start, Refresh, ReadTriggers, ScheduleJobs, ReadFails, Stop, tableVars
  <2>3. SweepInv' /\ NothingMissed'
    BY <2>2, SweepsUntouched
  <2>4. QED  BY <2>1, <2>3
<1>2. ASSUME NEW t \in Trigger, FireJob(t)  PROVE Inv'
  <2>1. UNCHANGED <<enabled, version, steady, running, jobs, live, opPc, opRead, overlapped>>
    BY <1>2 DEF FireJob, tableVars
  <2>2. TypeOK' /\ SchedulerInv'
    BY <1>2, <2>1, OtherTypes, SchedulerUntouched DEF Table
  <2>3. /\ UNCHANGED <<minute, last, straddled, enabled, disturbed, sweepVars>>
        /\ ExecuteCronTrigger(t) \/ UNCHANGED written
    BY <1>2 DEF FireJob, tableVars
  <2>4. SweepInv' /\ NothingMissed'
    BY <2>3, Executing, SweepsUntouched
  <2>5. QED  BY <2>2, <2>4
<1>3. ASSUME NEW t \in Trigger, Edit(t)  PROVE Inv'
  <2>1. /\ UNCHANGED <<running, jobs, live, opPc, opRead, overlapped>>
        /\ UNCHANGED <<minute, last, straddled, written, sweepVars>>
        /\ steady' = steady \ {t} /\ disturbed' = disturbed \cup {t}
    BY <1>3 DEF Edit, schedulerVars
  <2>2. \A u \in Trigger \ {t} : (u \in enabled' <=> u \in enabled) /\ version'[u] = version[u]
    BY <1>3 DEF Edit, TypeOK
  <2>3. \A u \in steady' : u \in Trigger \ {t}
    BY <2>1 DEF TypeOK
  <2>4. /\ enabled' \cap steady' \subseteq enabled \cap steady
        /\ \A u \in steady' : Table'[u] = Table[u]
    BY <2>1, <2>2, <2>3 DEF Table
  <2>5. TypeOK' /\ SchedulerInv'
    BY <1>3, <2>1, <2>4, OtherTypes, SchedulerUntouched
  <2>6. enabled' \ disturbed' \subseteq enabled \ disturbed
    BY <2>1, <2>2, <2>5 DEF TypeOK
  <2>7. SweepInv' /\ NothingMissed'
    BY <2>1, <2>6, SweepsUntouched
  <2>8. QED  BY <2>5, <2>7
<1>4. ASSUME NEW w \in Worker,
             \/ BeginSweep(w) \/ ListTriggers(w) \/ ClaimTrigger(w)
             \/ ExecuteClaimed(w) \/ EndSweep(w) \/ SweepDies(w)
      PROVE  Inv'
  <2>1. UNCHANGED <<enabled, version, steady, running, jobs, live, opPc, opRead, overlapped>>
    BY <1>4 DEF BeginSweep, ListTriggers, ClaimTrigger, ExecuteClaimed, EndSweep, SweepDies,
       schedulerVars, tableVars
  <2>2. TypeOK' /\ SchedulerInv'
    BY <1>4, <2>1, SweepTypes, SchedulerUntouched DEF Table
  <2>3. SweepInv' /\ NothingMissed'
    BY <1>4, BeginKeeps, ListKeeps, ClaimKeeps, ExecuteKeeps, EndKeeps, DiesKeeps
  <2>4. QED  BY <2>2, <2>3
<1>5. CASE UpdateLast \/ Tick
  <2>1. UNCHANGED <<enabled, version, steady, running, jobs, live, opPc, opRead, overlapped>>
    BY <1>5 DEF UpdateLast, Tick, schedulerVars, tableVars
  <2>2. TypeOK' /\ SchedulerInv'
    BY <1>5, <2>1, OtherTypes, SchedulerUntouched DEF Table
  <2>3. SweepInv' /\ NothingMissed'
    BY <1>5, UpdateKeeps, TickKeeps
  <2>4. QED  BY <2>2, <2>3
<1>6. CASE UNCHANGED vars
  <2>1. TypeOK'
    BY <1>6 DEF vars, schedulerVars, sweepVars, tableVars, TypeOK
  <2>2. SchedulerInv'
    BY <1>6, SchedulerUntouched DEF vars, schedulerVars, tableVars, Table
  <2>3. SweepInv' /\ NothingMissed'
    BY <1>6, SweepsUntouched DEF vars, tableVars
  <2>4. QED  BY <2>1, <2>2, <2>3
<1>7. QED  BY <1>1, <1>2, <1>3, <1>4, <1>5, <1>6 DEF Next

(* The invariant holds in every state, whatever calls and sweeps overlap.  *)
THEOREM Invariance == Spec => []Inv
<1>1. QED  BY InvInit, InvNext, PTL DEF Spec

(* The state has the types the module says.                                *)
THEOREM TypeCorrect == Spec => []TypeOK
<1>1. Inv => TypeOK
  BY DEF Inv
<1>2. QED  BY <1>1, Invariance, PTL

(* The map knows every job that lives, and when no call overlapped another *)
(* the jobs are those the table describes, or there are none.              *)
THEOREM RefreshTakesEffectCorrect == Spec => []RefreshTakesEffect
<1>1. Inv => RefreshTakesEffect
  BY DEF Inv, SchedulerInv
<1>2. QED  BY <1>1, Invariance, PTL

(* However the calls overlap, the last one leaves no trigger without a job.*)
THEOREM NoneUnscheduledCorrect == Spec => []NoneUnscheduled
<1>1. Inv => NoneUnscheduled
  BY DEF Inv, SchedulerInv, Scheduled, NoneUnscheduled, Covers, Suspended
<1>2. QED  BY <1>1, Invariance, PTL

(* A minute no sweep and no update straddles has each trigger executed by  *)
(* the sweeps once at most.                                                *)
THEOREM OncePerMinuteCorrect == Spec => []OncePerMinute
<1>1. Inv => OncePerMinute
  BY DEF Inv, SweepInv, OncePerMinute
<1>2. QED  BY <1>1, Invariance, PTL

(* And if a sweep of that minute came to its end, every enabled trigger    *)
(* that was neither edited nor claimed in vain had its turn.               *)
THEOREM NoMinuteMissedCorrect == Spec => NoMinuteMissed
<1> DEFINE Seen ==
      (minute' # minute /\ ~straddled'
         /\ \E w \in Worker : workerPc[w] = "over" /\ now[w] = minute)
        => \A t \in enabled \ disturbed :
             last[t].minute = minute /\ (ran[t][minute] = 1 \/ last[t].by = "update")
<1>1. Inv /\ [Next]_vars => Seen
  <2> SUFFICES ASSUME Inv, [Next]_vars, minute' # minute, ~straddled',
                      NEW v \in Worker, workerPc[v] = "over", now[v] = minute,
                      NEW t \in enabled \ disturbed
               PROVE  last[t].minute = minute /\ (ran[t][minute] = 1 \/ last[t].by = "update")
    OBVIOUS
  <2>1. Tick
    BY DEF Next, vars, schedulerVars, sweepVars, Start, Refresh, ReadTriggers, ScheduleJobs,
       ReadFails, Stop, FireJob, Edit, UpdateLast, BeginSweep, ListTriggers, ClaimTrigger,
       ExecuteClaimed, EndSweep, SweepDies
  <2>2. ~straddled /\ Sweeping = {}
    BY <2>1 DEF Tick
  <2>3. Listed /\ Executed /\ Held
    BY <2>2 DEF Inv, NothingMissed, SweepInv
  <2>4. \A w \in Worker : claimed[w] = {}
    BY <2>2, <2>3 DEF Held, Sweeping
  <2>5. last[t].minute = minute
    BY <2>3 DEF Listed
  <2>6. QED  BY <2>3, <2>4, <2>5 DEF Executed
<1>2. Inv /\ [Next]_vars => [Seen]_vars
  BY <1>1
<1>3. QED  BY <1>2, Invariance, PTL DEF Spec, NoMinuteMissed
=============================================================================
