------------------------------ MODULE MCAgAttr ------------------------------
(* Small instances of AgAttr.                                              *)
EXTENDS AgAttr, TLC

CONSTANTS root, g1, g2, proto, t1, t2

Interchangeable == Permutations({t1, t2})

\* g2 in g1 in the root
Nested == root :> NULL @@ proto :> NULL @@ g1 :> root @@ g2 :> g1
=============================================================================
