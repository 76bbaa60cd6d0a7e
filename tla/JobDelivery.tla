----------------------------- MODULE JobDelivery -----------------------------
(***************************************************************************)
(* What a job runner promises to those who enqueue jobs, whatever its      *)
(* queue looks like: a job is accepted or refused for one like it that was *)
(* accepted before; an accepted job is tried, one invocation of its        *)
(* handler after the other and at most MaxAttempts times, and is given up  *)
(* only when the last of them failed.                                      *)
(***************************************************************************)
EXTENDS Naturals

CONSTANTS Job, KeyOf, NoKey, MaxAttempts

VARIABLES fate, tries

vars == <<fate, tries>>

Accepted == {"waiting", "tried", "succeeded", "failed", "unhandled"}

Init == fate = [j \in Job |-> "new"] /\ tries = [j \in Job |-> 0]

Accept(j) ==
  /\ fate[j] = "new"
  /\ fate' = [fate EXCEPT ![j] = "waiting"]
  /\ UNCHANGED tries

(* Only for a job with a key, and only when its twin was taken.            *)
Refuse(j) ==
  /\ fate[j] = "new" /\ KeyOf[j] # NoKey
  /\ \E i \in Job : KeyOf[i] = KeyOf[j] /\ fate[i] \in Accepted
  /\ fate' = [fate EXCEPT ![j] = "refused"]
  /\ UNCHANGED tries

Try(j) ==
  /\ fate[j] = "waiting"
  /\ fate' = [fate EXCEPT ![j] = "tried"]
  /\ tries' = [tries EXCEPT ![j] = 1]

TryAgain(j) ==
  /\ fate[j] = "tried" /\ tries[j] < MaxAttempts[j]
  /\ tries' = [tries EXCEPT ![j] = @ + 1]
  /\ UNCHANGED fate

Settle(j) ==
  /\ \/ fate[j] = "tried" /\ fate' = [fate EXCEPT ![j] = "succeeded"]
     \/ fate[j] = "tried" /\ tries[j] = MaxAttempts[j]
                          /\ fate' = [fate EXCEPT ![j] = "failed"]
     \/ fate[j] = "waiting" /\ fate' = [fate EXCEPT ![j] = "unhandled"]
  /\ UNCHANGED tries

Next == \E j \in Job : Accept(j) \/ Refuse(j) \/ Try(j) \/ TryAgain(j) \/ Settle(j)

Spec == Init /\ [][Next]_vars
=============================================================================
