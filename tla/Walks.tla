------------------------------- MODULE Walks -------------------------------
(* Reachability, for recursions over the subgraph tree.                    *)

\* The members of U a recursion visits that starts in start and follows the
\* pairs of step: the least subset of U that contains start and is closed under
\* step.
Reach(U, start, step) ==
  {s \in U : \A S \in SUBSET (U \ {s}) :
     start \subseteq S => \E p \in step : p[1] \in S /\ p[2] \notin S}
=============================================================================
