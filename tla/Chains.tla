------------------------------- MODULE Chains -------------------------------
(* Lists that are linked by a field of their members.                      *)
EXTENDS Integers, FiniteSets

\* first, the member that step leads to from it, and so on, n times
Iterates(n, first, step) ==
  LET at[i \in 0 .. n] == IF i = 0 THEN first ELSE step[at[i - 1]]
  IN  at

\* The members of a list from first on, n of them at most, where step leads
\* from each to the next and in the end to null, and from there nowhere.
Listed(n, first, step, null) ==
  LET at == Iterates(n, first, step)
  IN  [i \in 1 .. Cardinality({k \in 0 .. n - 1 : at[k] # null}) |-> at[i - 1]]
=============================================================================
