------------------------------ MODULE MCAgRec ------------------------------
(* Small instances of AgRec: a node and the two halves of an edge.         *)
EXTENDS AgRec, TLC

CONSTANTS node, out, in, r1, r2, r3, r4

Halves == [h \in {node, out, in} |->
             CASE h = node -> node [] h = out -> in [] h = in -> out]

\* Nothing distinguishes two addresses.
Interchangeable == Permutations({r1, r2, r3, r4})
=============================================================================
