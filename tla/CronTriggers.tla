---------------------------- MODULE CronTriggers ----------------------------
(***************************************************************************)
(* The cron triggers of a database and the two ways they are fired: the    *)
(* jobs of a CronSchedulerService, on one long-lived process, and          *)
(* executeDueCronTriggers, called once a minute on serverless hosts, by    *)
(* workers that may overlap.                                               *)
(*                                                                         *)
(* start() and refresh() suspend while they read the table, and anything   *)
(* may happen meanwhile: another of them, a stop(), an edit.  A job has    *)
(* the name of its trigger, and croner refuses a second live job under it. *)
(*                                                                         *)
(* Time is counted in the minutes cron expressions speak of; every trigger *)
(* of the model matches every minute.                                      *)
(***************************************************************************)
EXTENDS Integers, FiniteSets

CONSTANTS
  Trigger,
  Op,              \* calls of start() and refresh() that may be suspended at a time
  Worker,          \* calls of executeDueCronTriggers()
  MaxMinute, MaxEdits   \* bounds

ASSUME CronAssumption ==
  /\ IsFiniteSet(Op) /\ IsFiniteSet(Worker)
  /\ {MaxMinute, MaxEdits} \subseteq Nat

VARIABLES
  minute,
  enabled,         \* the triggers of the table that are enabled and whose flow is active
  version,         \* of the expression each of them has there
  last,            \* last_triggered_at: its minute, and who wrote it
  running,         \* CronSchedulerService.running
  jobs,            \* the triggers in its map
  live,            \* the version of the expression by which the job of a trigger fires
  unfired,         \* the triggers whose job has yet to fire in this minute
  opPc, opRead,    \* each call of start or refresh, and what it read
  workerPc, now,   \* each sweep, and the time it was called with
  listed,          \* the triggers it has to look at, with the last it read
  claimed,         \* the trigger it has claimed, to be executed
  written,         \* updates of last_triggered_at that nobody waits for
  ran,             \* how often a sweep executed a trigger for a minute
  steady,          \* not edited since the last start or refresh began
  overlapped,      \* a start, refresh or stop came while another one was suspended
  straddled,       \* a sweep, or an update it left behind, was not over at the full minute
  disturbed,       \* edited in this minute, or claimed in it and not executed for a failure
  edits

schedulerVars == <<running, jobs, live, unfired, opPc, opRead, overlapped>>
sweepVars == <<workerPc, now, listed, claimed, ran>>
tableVars == <<enabled, version, steady, edits>>
vars == <<minute, last, written, straddled, disturbed, tableVars, schedulerVars, sweepVars>>

NoJob == -1
Never == [minute |-> -1, by |-> "nobody"]
Stamp == [minute : 0..MaxMinute, by : Worker \cup {"update"}] \cup {Never}

TypeOK ==
  /\ minute \in 0..MaxMinute
  /\ enabled \subseteq Trigger /\ jobs \subseteq Trigger /\ steady \subseteq Trigger
  /\ disturbed \subseteq Trigger /\ unfired \subseteq Trigger
  /\ version \in [Trigger -> Nat] /\ live \in [Trigger -> Nat \cup {NoJob}]
  /\ last \in [Trigger -> Stamp]
  /\ {running, overlapped, straddled} \subseteq BOOLEAN
  /\ opPc \in [Op -> {"idle", "reading", "read", "failed"}]
  /\ opRead \in [Op -> [Trigger -> Nat \cup {NoJob}]]
  /\ workerPc \in [Worker -> {"uncalled", "listing", "claiming", "executing", "over", "dead"}]
  /\ now \in [Worker -> 0..MaxMinute]
  /\ listed \in [Worker -> SUBSET [trigger : Trigger, last : Stamp]]
  /\ claimed \in [Worker -> {{}} \cup {{t} : t \in Trigger}]
  /\ written \subseteq [trigger : Trigger, minute : 0..MaxMinute]
  /\ ran \in [Trigger -> [0..MaxMinute -> Nat]]
  /\ edits \in 0..MaxEdits

Init ==
  /\ minute = 0 /\ enabled \in SUBSET Trigger /\ steady = {} /\ disturbed = {}
  /\ version = [t \in Trigger |-> 0]
  /\ last = [t \in Trigger |-> Never]
  /\ running = FALSE /\ jobs = {} /\ unfired = {}
  /\ live = [t \in Trigger |-> NoJob]
  /\ opPc = [o \in Op |-> "idle"] /\ opRead = [o \in Op |-> [t \in Trigger |-> NoJob]]
  /\ workerPc = [w \in Worker |-> "uncalled"] /\ now = [w \in Worker |-> 0]
  /\ listed = [w \in Worker |-> {}] /\ claimed = [w \in Worker |-> {}]
  /\ written = {} /\ ran = [t \in Trigger |-> [m \in 0..MaxMinute |-> 0]]
  /\ overlapped = FALSE /\ straddled = FALSE
  /\ edits = 0

-----------------------------------------------------------------------------
(* The scheduler.                                                          *)

Suspended == {o \in Op : opPc[o] \in {"reading", "read", "failed"}}

MistakenStopJobs ==
  /\ jobs' = {}
  /\ UNCHANGED <<live, unfired>>

(* Stop the jobs the map knows, and forget them.                           *)
StopJobs ==
  /\ live' = [t \in Trigger |-> IF t \in jobs THEN NoJob ELSE live[t]]
  /\ unfired' = unfired \ jobs
  /\ jobs' = {}

Await(o) ==
  /\ opPc' = [opPc EXCEPT ![o] = "reading"]
  /\ steady' = Trigger

(* Jobs that a call scheduled after a stop are still there.                *)
Start(o) ==
  /\ opPc[o] = "idle" /\ ~running
  /\ running' = TRUE
  /\ Await(o)
  /\ overlapped' = (overlapped \/ Suspended # {})
  /\ UNCHANGED <<minute, enabled, version, last, jobs, live, unfired, opRead, written,
                 straddled, disturbed, edits, sweepVars>>

Refresh(o) ==
  /\ opPc[o] = "idle"
  /\ StopJobs
  /\ overlapped' = (Suspended # {})
  /\ IF running
     THEN Await(o)
     ELSE UNCHANGED <<opPc, steady>>
  /\ UNCHANGED <<minute, enabled, version, last, running, opRead, written, straddled,
                 disturbed, edits, sweepVars>>

(* The expressions of the enabled triggers.                                *)
Table == [t \in Trigger |-> IF t \in enabled THEN version[t] ELSE NoJob]

(* The database answers, or not: getEnabledCronTriggers.                   *)
ReadTriggers(o) ==
  /\ opPc[o] = "reading"
  /\ \/ /\ opPc' = [opPc EXCEPT ![o] = "read"]
        /\ opRead' = [opRead EXCEPT ![o] = Table]
     \/ /\ opPc' = [opPc EXCEPT ![o] = "failed"]
        /\ UNCHANGED opRead
  /\ UNCHANGED <<minute, last, running, jobs, live, unfired, overlapped, written,
                 straddled, disturbed, tableVars, sweepVars>>

(* The jobs of mine are made, but for those whose name is taken: new Cron  *)
(* throws, and the old job and its entry in the map stay.  A job fires     *)
(* from the next minute on.                                                *)
MakeJobs(mine) ==
  /\ live' = [t \in Trigger |-> IF live[t] = NoJob THEN mine[t] ELSE live[t]]
  /\ jobs' = jobs \cup {t \in Trigger : live[t] = NoJob /\ mine[t] # NoJob}

MistakenScheduleUnlessSuspended(o) ==
  /\ opPc[o] = "read"
  /\ IF Suspended = {o} THEN MakeJobs(opRead[o]) ELSE UNCHANGED <<jobs, live>>
  /\ opPc' = [opPc EXCEPT ![o] = "idle"]
  /\ opRead' = [opRead EXCEPT ![o] = [t \in Trigger |-> NoJob]]
  /\ UNCHANGED <<minute, last, running, unfired, overlapped, written, straddled,
                 disturbed, tableVars, sweepVars>>

(* The call goes on.  It does not look at running again.                   *)
ScheduleJobs(o) ==
  /\ opPc[o] = "read"
  /\ MakeJobs(opRead[o])
  /\ opPc' = [opPc EXCEPT ![o] = "idle"]
  /\ opRead' = [opRead EXCEPT ![o] = [t \in Trigger |-> NoJob]]
  /\ UNCHANGED <<minute, last, running, unfired, overlapped, written, straddled,
                 disturbed, tableVars, sweepVars>>

(* The error is logged; no job is made.                                    *)
ReadFails(o) ==
  /\ opPc[o] = "failed"
  /\ opPc' = [opPc EXCEPT ![o] = "idle"]
  /\ steady' = {}
  /\ UNCHANGED <<minute, enabled, version, last, running, jobs, live, unfired, opRead,
                 overlapped, written, straddled, disturbed, edits, sweepVars>>

Stop ==
  /\ StopJobs
  /\ running' = FALSE
  /\ overlapped' = (Suspended # {})
  /\ UNCHANGED <<minute, last, opPc, opRead, written, straddled, disturbed, tableVars,
                 sweepVars>>

-----------------------------------------------------------------------------
(* Executing a trigger.                                                    *)

(* executeCronTrigger, unless it throws: nothing for a trigger that is     *)
(* gone, disabled or of an inactive flow; else the run is created, and the *)
(* update of last_triggered_at, with the time it has now, is not waited for*)
ExecuteCronTrigger(t) ==
  IF t \in enabled
  THEN written' = written \cup {[trigger |-> t, minute |-> minute]}
  ELSE UNCHANGED written

(* The job logs what it throws.                                            *)
FireJob(t) ==
  /\ t \in unfired
  /\ unfired' = unfired \ {t}
  /\ ExecuteCronTrigger(t) \/ UNCHANGED written
  /\ UNCHANGED <<minute, last, running, jobs, live, opPc, opRead, overlapped,
                 straddled, disturbed, tableVars, sweepVars>>

(* The update lands, or fails and is given up.                             *)
UpdateLast ==
  \E u \in written :
    /\ \/ last' = [last EXCEPT ![u.trigger] = [minute |-> u.minute, by |-> "update"]]
       \/ UNCHANGED last
    /\ written' = written \ {u}
    /\ UNCHANGED <<minute, straddled, disturbed, tableVars, schedulerVars, sweepVars>>

-----------------------------------------------------------------------------
(* A sweep.                                                                *)

Sweeping == {w \in Worker : workerPc[w] \in {"listing", "claiming", "executing"}}

BeginSweep(w) ==
  /\ workerPc[w] = "uncalled"
  /\ workerPc' = [workerPc EXCEPT ![w] = "listing"]
  /\ now' = [now EXCEPT ![w] = minute]
  /\ UNCHANGED <<minute, last, listed, claimed, written, ran, straddled, disturbed, tableVars,
                 schedulerVars>>

ListTriggers(w) ==
  /\ workerPc[w] = "listing"
  /\ workerPc' = [workerPc EXCEPT ![w] = "claiming"]
  /\ listed' = [listed EXCEPT ![w] = {[trigger |-> t, last |-> last[t]] : t \in enabled}]
  /\ UNCHANGED <<minute, last, now, claimed, written, ran, straddled, disturbed, tableVars,
                 schedulerVars>>

MistakenIsDue(e, m) == e.last.minute + 1 < m

(* isCronTriggerDue, for an expression that matches.                       *)
IsDue(e, m) == e.last.minute # m

MistakenClaims(w, e) == TRUE

(* claimDueCronExecution: only while the row is as it was read.            *)
Claims(w, e) == last[e.trigger] = e.last

ClaimTrigger(w) ==
  /\ workerPc[w] = "claiming"
  /\ \E e \in listed[w] :
       /\ listed' = [listed EXCEPT ![w] = @ \ {e}]
       /\ IF IsDue(e, now[w]) /\ Claims(w, e)
          THEN /\ last' = [last EXCEPT ![e.trigger] = [minute |-> now[w], by |-> w]]
               /\ claimed' = [claimed EXCEPT ![w] = {e.trigger}]
               /\ workerPc' = [workerPc EXCEPT ![w] = "executing"]
          ELSE UNCHANGED <<last, claimed, workerPc>>
  /\ UNCHANGED <<minute, now, written, ran, straddled, disturbed, tableVars, schedulerVars>>

(* What it throws is counted as failed, and the sweep goes on: the minute  *)
(* stays claimed.                                                          *)
ExecuteClaimed(w) ==
  /\ workerPc[w] = "executing"
  /\ \E t \in claimed[w] :
       \/ /\ ExecuteCronTrigger(t)
          /\ ran' = IF t \in enabled THEN [ran EXCEPT ![t][now[w]] = @ + 1] ELSE ran
          /\ UNCHANGED disturbed
       \/ /\ disturbed' = disturbed \cup {t}
          /\ UNCHANGED <<written, ran>>
  /\ claimed' = [claimed EXCEPT ![w] = {}]
  /\ workerPc' = [workerPc EXCEPT ![w] = "claiming"]
  /\ UNCHANGED <<minute, last, now, listed, straddled, tableVars, schedulerVars>>

EndSweep(w) ==
  /\ workerPc[w] = "claiming" /\ listed[w] = {}
  /\ workerPc' = [workerPc EXCEPT ![w] = "over"]
  /\ UNCHANGED <<minute, last, now, listed, claimed, written, ran, straddled, disturbed,
                 tableVars, schedulerVars>>

(* The list or a claim throws, which nobody catches, or the host stops the *)
(* worker: what it had claimed is not executed.                            *)
SweepDies(w) ==
  /\ w \in Sweeping
  /\ workerPc' = [workerPc EXCEPT ![w] = "dead"]
  /\ disturbed' = disturbed \cup claimed[w]
  /\ listed' = [listed EXCEPT ![w] = {}] /\ claimed' = [claimed EXCEPT ![w] = {}]
  /\ UNCHANGED <<minute, last, now, written, ran, straddled, tableVars, schedulerVars>>

-----------------------------------------------------------------------------

(* A trigger is enabled or disabled, or its flow (de)activated; or its     *)
(* expression is changed.                                                  *)
Edit(t) ==
  /\ edits < MaxEdits
  /\ edits' = edits + 1
  /\ \/ /\ enabled' = IF t \in enabled THEN enabled \ {t} ELSE enabled \cup {t}
        /\ UNCHANGED version
     \/ /\ version' = [version EXCEPT ![t] = @ + 1]
        /\ UNCHANGED enabled
  /\ steady' = steady \ {t}
  /\ disturbed' = disturbed \cup {t}
  /\ UNCHANGED <<minute, last, written, straddled, schedulerVars, sweepVars>>

(* The jobs of a process that is alive fire, and have created their runs,  *)
(* within their minute.                                                    *)
Tick ==
  /\ minute < MaxMinute /\ unfired = {}
  /\ minute' = minute + 1
  /\ unfired' = {t \in Trigger : live[t] # NoJob}
  /\ straddled' = (straddled \/ Sweeping # {} \/ written # {})
  /\ disturbed' = {}
  /\ UNCHANGED <<last, written, running, jobs, live, opPc, opRead, overlapped,
                 tableVars, sweepVars>>

Next ==
  \/ \E o \in Op : Start(o) \/ Refresh(o) \/ ReadTriggers(o) \/ ScheduleJobs(o) \/ ReadFails(o)
  \/ Stop
  \/ \E t \in Trigger : FireJob(t) \/ Edit(t)
  \/ UpdateLast
  \/ \E w \in Worker : \/ BeginSweep(w) \/ ListTriggers(w) \/ ClaimTrigger(w)
                       \/ ExecuteClaimed(w) \/ EndSweep(w) \/ SweepDies(w)
  \/ Tick

Spec == Init /\ [][Next]_vars

-----------------------------------------------------------------------------

(***************************************************************************)
(* The map knows every job that fires, however the calls overlap, so that  *)
(* a refresh or a stop ends it.  And unless one of them came while another *)
(* was suspended in its read, a scheduler that runs fires each trigger not *)
(* edited since its last call began as the table says, by the expression   *)
(* the table has ("all existing jobs are stopped and re-created from the   *)
(* current registrations"), if the database answered; a stopped one fires  *)
(* none.                                                                   *)
(***************************************************************************)
RefreshTakesEffect ==
  /\ jobs = {t \in Trigger : live[t] # NoJob}
  /\ (~overlapped /\ running /\ Suspended = {}) => \A t \in steady : live[t] = Table[t]
  /\ (~overlapped /\ ~running) => jobs = {}

(***************************************************************************)
(* However the calls overlap, no trigger is without a job: when all calls  *)
(* are over and the scheduler runs, each trigger enabled and not edited    *)
(* since the last of them began has one, if the database answered.         *)
(***************************************************************************)
NoneUnscheduled ==
  (running /\ Suspended = {}) => \A t \in enabled \cap steady : live[t] # NoJob

(***************************************************************************)
(* Whatever sweeps there are, also beside the jobs of a scheduler, a sweep *)
(* executes a trigger once for a minute, unless a sweep or an update of    *)
(* last_triggered_at goes on beyond the minute it began in.                *)
(***************************************************************************)
OncePerMinute ==
  ~straddled => \A t \in Trigger : \A m \in 0..MaxMinute : ran[t][m] <= 1

(***************************************************************************)
(* No minute is missed by all: when a minute is over in which a sweep came *)
(* to its end, each enabled trigger was executed in it, by a sweep or by a *)
(* job of the scheduler, whichever sweeps died or found it claimed; except *)
(* a trigger that was edited in it, or whose execution failed after its    *)
(* claim, which loses the minute.                                          *)
(***************************************************************************)
NoMinuteMissed ==
  [][(minute' # minute /\ ~straddled'
        /\ \E w \in Worker : workerPc[w] = "over" /\ now[w] = minute)
       => \A t \in enabled \ disturbed :
            last[t].minute = minute /\ (ran[t][minute] = 1 \/ last[t].by = "update")]_vars
=============================================================================
