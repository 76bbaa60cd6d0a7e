------------------------ MODULE MCVersionControlSync ------------------------
(* VersionControlSync with the names of workers, processes and texts fixed *)
(* as far as the initial states leave them open, and the first version of  *)
(* each flow in the repository, as the bootstrap of an instance leaves it. *)
EXTENDS VersionControlSync

CONSTANTS a, w1, r1

MCInit ==
  /\ Init
  /\ home[w1] = r1
  /\ \A f \in Flow : versions[f] = <<a>> /\ commits[1][f] = a

(* With one operation, by no choice of names but that it is of w1.         *)
MCNext == Next /\ \A p \in Worker \ {w1} : pc[p] = "idle" => pc'[p] \in {"idle", "walk"}

MCSpec == MCInit /\ [][MCNext]_vars
MCFairSpec == MCSpec /\ \A p \in Worker : WF_vars(OpNext(p) \/ TickNext(p))

(* No step reads live.                                                     *)
MCView == <<commits, versions, last, lastVersion, imported, position, home, held, inFlight,
            pc, work, walk, ops, faults>>
=============================================================================
