-------------------------- MODULE MCNetworkSimplex --------------------------
(* Small instances of NetworkSimplex.                                      *)
EXTENDS NetworkSimplex

CONSTANTS Shapes, Kinds, Balances, Maxiters, Starts

\* the edges of a shape go from a smaller place to a greater
Diamond   == << <<1, 2>>, <<1, 3>>, <<2, 4>>, <<3, 4>> >>
Kite      == Append(Diamond, <<2, 3>>)
Hourglass == << <<1, 3>>, <<2, 3>>, <<2, 4>>, <<1, 4>> >>
Thick     == Append(Hourglass, <<3, 4>>)
Tent      == << <<1, 3>>, <<2, 3>>, <<2, 4>>, <<1, 5>>, <<4, 5>>, <<3, 5>> >>
Apart     == << <<1, 2>>, <<3, 4>> >>

AllShapes == {Diamond, Kite, Hourglass, Thick, Tent, Apart}

\* minlen and weight of an edge
ShortOrLong == {<<1, 1>>, <<2, 2>>}

\* the places as nodes: in turn from any one of them, forwards or backwards
Numberings(n) == {[i \in 1 .. n |-> 1 + ((d * i + s) % n)] : s \in 0 .. n - 1, d \in {1, -1}}

Size(E) == Max({a[2] : a \in Range(E)})

\* Graphs with the ranks their nodes have before rank() is called: all the same
\* ("level"), which no edge allows, or those of the places along a line, which every
\* edge does.
GraphsOf(E) ==
  LET n == Size(E)
      place(p, v) == CHOOSE i \in 1 .. n : p[i] = v
  IN  {[arc  |-> [i \in DOMAIN E |-> [tail |-> p[E[i][1]], head |-> p[E[i][2]],
                                      minlen |-> k[i][1], weight |-> k[i][2]]],
        rank |-> [v \in 1 .. n |-> IF start = "level" THEN 0 ELSE 2 * place(p, v)]] :
         k \in [DOMAIN E -> Kinds], p \in Numberings(n), start \in Starts}

\* Ranks that are feasible are taken as they are; tight_tree has to find an edge among
\* them that has its least length already.
AllLoose(g) ==
  \A e \in DOMAIN g.arc : g.rank[g.arc[e].head] - g.rank[g.arc[e].tail] > g.arc[e].minlen

JobsOn(graphs) ==
  {[arc |-> g.arc, rank |-> g.rank, normal |-> DOMAIN g.rank, balance |-> b, maxiter |-> m] :
     g \in graphs, b \in Balances, m \in Maxiters}

SmallJobs == JobsOn({g \in UNION {GraphsOf(E) : E \in Shapes} : ~AllLoose(g)})
LooseJobs == JobsOn({g \in UNION {GraphsOf(E) : E \in Shapes} : AllLoose(g)})
=============================================================================
