------------------------- MODULE MCFlowRunCoordinator -------------------------
(***************************************************************************)
(* Small flows for runs that pause.                                        *)
(*                                                                         *)
(* Chain:  two nodes that may submit a batch, one after the other, and a   *)
(*         last node.                                                      *)
(* Nested: a branch (c0) inside whose one side, beside a node that may     *)
(*         submit a batch (s0), is another branch (c1); all join below.    *)
(***************************************************************************)
EXTENDS FlowRunCoordinator

MCHandle == {"t", "f"}

Arrow(s, t)     == [source |-> s, target |-> t, handle |-> NoHandle]
Branch(s, h, t) == [source |-> s, target |-> t, handle |-> h]

ChainNode == {"b1", "b2", "l"}
ChainEdge == {Arrow("b1", "b2"), Arrow("b2", "l")}

NestedNode == {"c0", "s0", "c1", "b", "s1", "a", "j"}
NestedEdge ==
  {Branch("c0", "t", "s0"), Branch("c0", "t", "c1"), Branch("c0", "f", "b"),
   Branch("c1", "t", "s1"), Branch("c1", "f", "a"),
   Arrow("s0", "j"), Arrow("s1", "j"), Arrow("a", "j"), Arrow("b", "j")}
=============================================================================
