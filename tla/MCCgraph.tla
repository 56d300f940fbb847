------------------------------ MODULE MCCgraph ------------------------------
(* Small instances of Cgraph.                                              *)
EXTENDS Cgraph, TLC

CONSTANTS root, g1, g2, g3, k1, k2

\* Addresses are interchangeable, except that of the root graph, and so are
\* names, except that of the root graph.
Interchangeable ==
  Permutations(Graph \ {Root}) \cup Permutations(Node) \cup Permutations(Edge)
=============================================================================
