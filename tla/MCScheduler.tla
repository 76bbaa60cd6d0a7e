----------------------------- MODULE MCScheduler -----------------------------
(***************************************************************************)
(* A small flow for the scheduler: an if/else (c0) whose branch leads to a *)
(* second one (c1), with a join (x) below both; a node (t) of its own; and *)
(* a join (j) of what is below them all.  Segments: a fresh run, one       *)
(* started by c0's side or by t's, one resumed after c0, one to node x.    *)
(***************************************************************************)
EXTENDS Scheduler

MCHandle == {"t", "f"}

Arrow(s, t)     == [source |-> s, target |-> t, handle |-> NoHandle]
Branch(s, h, t) == [source |-> s, target |-> t, handle |-> h]

NestedNode == {"c0", "c1", "y", "x", "t", "j"}
NestedEdge ==
  {Branch("c0", "t", "y"), Branch("c0", "f", "c1"), Arrow("y", "x"),
   Branch("c1", "t", "x"), Branch("c1", "f", "j"), Arrow("x", "j"),
   Arrow("t", "j")}

Fresh(skips) == [nodes |-> NestedNode, complete |-> {}, skipped |-> skips]

NestedStarts ==
  {Fresh({})}
  \cup {Fresh(TriggerSkips({"c0", "t"}, trigger)) : trigger \in {"c0", "t"}}
  \cup {[nodes |-> ExecutionPathToNode("x"), complete |-> {}, skipped |-> {}],
        [nodes |-> NestedNode, complete |-> {"c0"}, skipped |-> {"y"}]}
=============================================================================
