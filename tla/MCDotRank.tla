----------------------------- MODULE MCDotRank -----------------------------
(* Small instances of DotRank.                                             *)
EXTENDS DotRank

CONSTANTS N, Patterns, RankSets

S(kind, nodes) == [kind |-> kind, nodes |-> nodes]

\* none, one, or two rank sets
SomeSets == {<<>>,
             <<S("same", {1, 3})>>,
             <<S("min", {2})>>,
             <<S("sink", {1}), S("same", {1, 3})>>,
             <<S("source", {3}), S("max", {2})>>,
             <<S("min", {3}), S("min", {4}), S("max", {1, 2})>>}

Pairs == {p \in (1 .. N) \X (1 .. N) : p[1] # p[2]}

\* the least lengths of the edges; -1 for constraint=false
SomePatterns == {<<1, 2, 1, 1>>, <<2, 0, 1, -1>>}

\* edge i weighs 2^i, so that a sum of weights tells of which edges it is
Edges_(P, m) ==
  LET list == SetToSeq(P)
  IN  [i \in DOMAIN list |-> [tail |-> list[i][1], head |-> list[i][2],
                              minlen |-> IF m[i] < 0 THEN 1 ELSE m[i],
                              weight |-> 2 ^ i, constraint |-> m[i] >= 0]]

SmallJobs ==
  {[n |-> N, edge |-> Edges_(P, m), sets |-> s] :
     <<P, m, s>> \in UNION {kSubset(Len(m), Pairs) \X {m} \X RankSets : m \in Patterns}}
=============================================================================
