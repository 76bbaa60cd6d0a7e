-------------------------- MODULE MCGraphAlgorithms --------------------------
(***************************************************************************)
(* All graphs on four nodes whose edges are among these: every pair up     *)
(* the order (so every acyclic graph, up to renaming), one of them twice,  *)
(* and some pairs down it, which give loops of one, two and three nodes.   *)
(***************************************************************************)
EXTENDS GraphAlgorithms

MCNode == 1..4

Drawn(p, h) == [source |-> p[1], target |-> p[2], handle |-> h]

MCDrawable ==
  {Drawn(p, NoHandle) : p \in {q \in MCNode \X MCNode : q[1] < q[2]} \cup {<<3, 1>>, <<2, 2>>}}
    \cup {Drawn(<<1, 3>>, "else")}
=============================================================================
