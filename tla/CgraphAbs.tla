----------------------------- MODULE CgraphAbs -----------------------------
(***************************************************************************)
(* What libcgraph promises of the sets of a root graph and its subgraphs:  *)
(* inserting a node or an edge in a graph inserts it in every graph above, *)
(* removing it from a graph removes it from every graph below, with the    *)
(* edges that lose an endpoint, and no other set changes.  Objects are     *)
(* themselves here: there are no ids, no dictionaries and no searches.     *)
(***************************************************************************)
EXTENDS Walks

CONSTANTS Graph, Node, Edge, Root, NULL

VARIABLES
  live,  \* the open graphs
  up,    \* the parent of each
  N, E,  \* the nodes and the edges of each
  ends   \* the endpoints of each edge

vars == <<live, up, N, E, ends>>

Above(g) == Reach(live, {g}, {p \in live \X live : p[2] = up[p[1]]})
Below(g) == {s \in live : g \in Above(s)}

Plus(sets, S, X) == [g \in Graph |-> IF g \in S THEN sets[g] \cup X ELSE sets[g]]
Minus(sets, S, X) == [g \in Graph |-> IF g \in S THEN sets[g] \ X ELSE sets[g]]
NoEnds == <<NULL, NULL>>

Init ==
  /\ live = {}
  /\ up = [g \in Graph |-> NULL]
  /\ N = [g \in Graph |-> {}]
  /\ E = [g \in Graph |-> {}]
  /\ ends = [e \in Edge |-> NoEnds]

Open ==
  /\ live = {}
  /\ live' = {Root}
  /\ UNCHANGED <<up, N, E, ends>>

NewSubgraph(g, s) ==
  /\ s \notin live
  /\ live' = live \cup {s}
  /\ up' = [up EXCEPT ![s] = g]
  /\ UNCHANGED <<N, E, ends>>

\* g goes, and all that is below it; the root takes its objects with it
Close(g) ==
  /\ live' = live \ Below(g)
  /\ up' = [s \in Graph |-> IF s \in Below(g) THEN NULL ELSE up[s]]
  /\ N' = Minus(N, Below(g), Node)
  /\ E' = Minus(E, Below(g), Edge)
  /\ ends' = IF g = Root THEN [e \in Edge |-> NoEnds] ELSE ends

InsertNode(g, n) ==
  /\ N' = Plus(N, Above(g), {n})
  /\ UNCHANGED <<live, up, E, ends>>

RemoveNode(g, n) ==
  LET lost == {e \in E[g] : n \in {ends[e][1], ends[e][2]}} IN
  /\ n \in N[g]
  /\ N' = Minus(N, Below(g), {n})
  /\ E' = Minus(E, Below(g), lost)
  /\ ends' = [e \in Edge |-> IF g = Root /\ e \in lost THEN NoEnds ELSE ends[e]]
  /\ UNCHANGED <<live, up>>

\* a new edge between two nodes of g
NewEdge(g, t, h, e) ==
  /\ E' = Plus(E, Above(g), {e})
  /\ ends' = [ends EXCEPT ![e] = <<t, h>>]
  /\ UNCHANGED <<live, up, N>>

\* an edge of the root, with its endpoints
InsertEdge(g, e) ==
  /\ N' = Plus(N, Above(g), {ends[e][1], ends[e][2]})
  /\ E' = Plus(E, Above(g), {e})
  /\ UNCHANGED <<live, up, ends>>

RemoveEdge(g, e) ==
  /\ E' = Minus(E, Below(g), {e})
  /\ ends' = IF g = Root THEN [ends EXCEPT ![e] = NoEnds] ELSE ends
  /\ UNCHANGED <<live, up, N>>

Next ==
  \/ Open
  \/ \E g \in live :
       \/ Close(g)
       \/ \E s \in Graph : NewSubgraph(g, s)
       \/ \E n \in Node : InsertNode(g, n) \/ RemoveNode(g, n)
       \/ \E e \in E[g] : RemoveEdge(g, e)
       \/ \E e \in E[Root] : InsertEdge(g, e)
       \/ \E e \in Edge \ E[Root], t, h \in N[g] : NewEdge(g, t, h, e)

Spec == Init /\ [][Next]_vars
=============================================================================
