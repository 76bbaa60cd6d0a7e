---------------------------- MODULE FlowExecution ----------------------------
(***************************************************************************)
(* What running a flow segment promises, with no queue, no ready set and   *)
(* no bookkeeping: a node waits for all of its parents, at most            *)
(* Concurrency nodes run at a time, a node runs or is skipped but never    *)
(* both, nothing starts once the segment is halted, and the segment ends   *)
(* only when nothing runs and nothing more may start.                      *)
(***************************************************************************)
EXTENDS FlowGraph

CONSTANTS
  Concurrency,     \* bound on the number of running nodes
  Starts           \* the segments that may be run, see Begin

VARIABLES
  phase,           \* "idle", "running" or "returned"
  scope,           \* the nodes this segment may run
  status,          \* what became of each node
  halted           \* a failure, a submitted batch or an abort was seen

absVars == <<phase, scope, status, halted>>

NodeStatus == {"waiting", "running", "succeeded", "skipped", "failed", "submitted"}

Running  == {n \in Node : status[n] = "running"}
Finished == {n \in Node : status[n] \in {"succeeded", "skipped"}}

Startable(n) == n \in scope /\ status[n] = "waiting" /\ Parents(n) \subseteq Finished

AbsInit ==
  /\ phase = "idle"
  /\ scope = {}
  /\ status = [n \in Node |-> "waiting"]
  /\ halted \in BOOLEAN

AbsBegin(s) ==
  /\ phase = "idle"
  /\ phase' = "running"
  /\ scope' = s.nodes
  /\ status' = [n \in Node |-> IF n \in s.skipped THEN "skipped"
                               ELSE IF n \in s.complete THEN "succeeded"
                               ELSE "waiting"]
  /\ UNCHANGED halted

AbsStart(n) ==
  /\ phase = "running"
  /\ ~halted
  /\ Startable(n)
  /\ Cardinality(Running) < Concurrency
  /\ status' = [status EXCEPT ![n] = "running"]
  /\ UNCHANGED <<phase, scope, halted>>

(* A node that ends well may take waiting nodes with it into "skipped".    *)
AbsFinish(n, skips) ==
  /\ phase = "running"
  /\ status[n] = "running"
  /\ \A m \in skips : status[m] = "waiting"
  /\ \E result \in {"succeeded", "skipped"} :
       status' = [m \in Node |-> IF m = n THEN result
                                 ELSE IF m \in skips THEN "skipped"
                                 ELSE status[m]]
  /\ UNCHANGED <<phase, scope, halted>>

AbsStop(n) ==
  /\ phase = "running"
  /\ status[n] = "running"
  /\ \E result \in {"failed", "submitted"} : status' = [status EXCEPT ![n] = result]
  /\ halted' = TRUE
  /\ UNCHANGED <<phase, scope>>

AbsAbort ==
  /\ halted' = TRUE
  /\ UNCHANGED <<phase, scope, status>>

AbsReturn ==
  /\ phase = "running"
  /\ Running = {}
  /\ halted \/ \A n \in Node : ~Startable(n)
  /\ phase' = "returned"
  /\ UNCHANGED <<scope, status, halted>>

AbsNext ==
  \/ \E s \in Starts : AbsBegin(s)
  \/ \E n \in Node : AbsStart(n) \/ AbsStop(n)
  \/ \E n \in Node, skips \in SUBSET Node : AbsFinish(n, skips)
  \/ AbsAbort
  \/ AbsReturn

AbsSpec == AbsInit /\ [][AbsNext]_absVars
=============================================================================
