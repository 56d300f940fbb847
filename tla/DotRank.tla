------------------------------ MODULE DotRank ------------------------------
(***************************************************************************)
(* How dot assigns ranks to the nodes of a graph without clusters          *)
(* (lib/dotgen rank.c: dot_rank): the rank sets are collapsed, the edges   *)
(* become edges of a fast graph between the leaders of the sets, edges     *)
(* into the least set and out of the greatest are reversed, the fast graph *)
(* is divided into components and made acyclic, and rank() gives each      *)
(* component its ranks.                                                    *)
(*                                                                         *)
(* Nodes are 1 .. n in the order they were created; an edge of the fast    *)
(* graph is its place in fast, 0 is no such edge.  ED_count and            *)
(* ED_xpenalty are kept like ED_weight and left out.                       *)
(*                                                                         *)
(* An operator named Bug... is a wrong version of the one that follows it. *)
(***************************************************************************)
EXTENDS Integers, Sequences, FiniteSets, FiniteSetsExt, SequencesExt, Functions, Chains

CONSTANTS
  Jobs,    \* graphs: records of n, edge (tail, head, minlen, weight), sets (kind, nodes)
  Marks,   \* values of Cmark that earlier graphs may have left
  Extra    \* how far rank() may stretch a component beyond its longest path

ASSUME RankAssumption ==
  /\ \A j \in Jobs :
       /\ j.n \in Nat
       /\ j.edge \in Seq([tail : 1 .. j.n, head : 1 .. j.n, minlen : Nat, weight : Nat,
                          constraint : BOOLEAN])
       /\ j.sets \in Seq([kind : {"same", "min", "source", "max", "sink"},
                          nodes : (SUBSET (1 .. j.n)) \ {{}}])
  /\ Marks \subseteq 0 .. 255 /\ Extra \in Nat

VARIABLES
  job,       \* the graph
  pc,        \* where dot_rank is
  at,        \* how far its present loop is
  leader,    \* UF_find of each node
  ranktype,  \* ND_ranktype
  minset, maxset,
  fast,      \* the edges of the fast graph, deleted ones too, with ED_to_virt
  out, in,   \* ND_out and ND_in
  virt,      \* ED_to_virt of the edges of the graph
  slen,      \* the least lengths of the edges to the least and from the greatest set
  mark,      \* ND_mark
  Cmark,
  comp,      \* GD_comp: the nodes of each component
  stack,     \* the calls of dfs that have begun
  rank       \* ND_rank

vars == <<job, pc, at, leader, ranktype, minset, maxset, fast, out, in, virt, slen,
          mark, Cmark, comp, stack, rank>>
sets == <<leader, ranktype, minset, maxset>>
fastgraph == <<fast, out, in>>
marks == <<mark, Cmark, comp>>

Node == 1 .. job.n
Edge == DOMAIN job.edge
NONE == 0
TRUE_ == 1
Leaders == {n \in Node : leader[n] = n}

-----------------------------------------------------------------------------
(* collapse_sets: union and find.  The leader is the node with the least id. *)

Union(l, u, v) == [n \in Node |-> IF l[n] \in {l[u], l[v]} THEN Min({l[u], l[v]}) ELSE l[n]]

\* GD_minset or GD_maxset, and the nodes, after u joins it
Joined(l, set, u) ==
  IF set = NONE THEN [l |-> l, set |-> u]
  ELSE [l |-> Union(l, set, u), set |-> Min({l[set], l[u]})]

\* the type of a least or greatest set of its own
Strict(type, set, kind) ==
  IF kind \in {"source", "sink"} THEN [type EXCEPT ![set] = kind] ELSE type

\* collapse_rankset, for the next subgraph with a rank
CollapseRankset ==
  /\ pc = "collapse" /\ at <= Len(job.sets)
  /\ LET S == job.sets[at].nodes
         kind == job.sets[at].kind
         u == Min(S)
         l == [n \in Node |-> IF \E s \in S : leader[n] = leader[s]
                              THEN Min({leader[s] : s \in S}) ELSE leader[n]]
         type == [n \in Node |-> IF n \in S THEN kind ELSE ranktype[n]]
         min == Joined(l, minset, u)
         max == Joined(l, maxset, u)
     IN  CASE kind = "same" ->
                leader' = l /\ ranktype' = type /\ UNCHANGED <<minset, maxset>>
           [] kind \in {"min", "source"} ->
                /\ leader' = min.l /\ minset' = min.set
                /\ ranktype' = Strict(type, min.set, kind)
                /\ UNCHANGED maxset
           [] OTHER ->
                /\ leader' = max.l /\ maxset' = max.set
                /\ ranktype' = Strict(type, max.set, kind)
                /\ UNCHANGED minset
  /\ at' = at + 1
  /\ UNCHANGED <<job, pc, fastgraph, virt, slen, marks, stack, rank>>

CollapseDone ==
  /\ pc = "collapse" /\ at > Len(job.sets)
  /\ pc' = "class1" /\ at' = 1
  /\ UNCHANGED <<job, sets, fastgraph, virt, slen, marks, stack, rank>>

-----------------------------------------------------------------------------
(* The fast graph (fastgr.c).  An operator takes and returns a record of    *)
(* fast, out and in.                                                        *)

G == [fast |-> fast, out |-> out, in |-> in]

Set(g) == fast' = g.fast /\ out' = g.out /\ in' = g.in

\* find_fast_edge: the shorter of the two lists is searched
Find(g, u, v) ==
  LET L == IF Len(g.out[u]) < Len(g.in[v]) THEN g.out[u] ELSE g.in[v]
      I == {i \in DOMAIN L : g.fast[L[i]].tail = u /\ g.fast[L[i]].head = v}
  IN  IF I = {} THEN NONE ELSE L[Min(I)]

\* virtual_edge
Add(g, u, v, minlen, weight) ==
  LET e == Len(g.fast) + 1
  IN  [fast |-> Append(g.fast, [tail |-> u, head |-> v, minlen |-> minlen,
                                weight |-> weight, virt |-> NONE]),
       out |-> [g.out EXCEPT ![u] = Append(@, e)],
       in |-> [g.in EXCEPT ![v] = Append(@, e)]]

\* zapinlist: the last member fills the hole
Zap(L, e) ==
  LET I == {i \in DOMAIN L : L[i] = e}
  IN  IF I = {} THEN L ELSE Front(ReplaceAt(L, Min(I), Last(L)))

\* delete_fast_edge
Delete(g, e) == [g EXCEPT !.out[g.fast[e].tail] = Zap(@, e),
                          !.in[g.fast[e].head] = Zap(@, e)]

\* rep and the edges that stand for it, by ED_to_virt
Chain(f, rep) ==
  LET onward == [e \in 0 .. Len(f) |-> IF e = NONE THEN NONE ELSE f[e].virt]
  IN  Range(Listed(Len(f), rep, onward, NONE))

\* (the least length stays as it was)
BugMerge(g, minlen, weight, rep) ==
  [g EXCEPT !.fast =
     [e \in DOMAIN g.fast |->
        [g.fast[e] EXCEPT !.weight = @ + IF e \in Chain(g.fast, rep) THEN weight ELSE 0]]]

\* basic_merge
Merge(g, minlen, weight, rep) ==
  [g EXCEPT !.fast =
     [e \in DOMAIN g.fast |->
        [g.fast[e] EXCEPT !.weight = @ + IF e \in Chain(g.fast, rep) THEN weight ELSE 0,
                     !.minlen = IF e = rep /\ @ < minlen THEN minlen ELSE @]]]

\* (the opposite edge is not looked for)
BugReversed(g, e) ==
  LET x == g.fast[e]
      a == Add(Delete(g, e), x.head, x.tail, x.minlen, x.weight)
  IN  [a EXCEPT !.fast[e].virt = Len(a.fast)]

\* reverse_edge (acyclic.c)
Reversed(g, e) ==
  LET x == g.fast[e]
      d == Delete(g, e)
      f == Find(d, x.head, x.tail)
      a == Add(d, x.head, x.tail, x.minlen, x.weight)
  IN  IF f = NONE THEN [a EXCEPT !.fast[e].virt = Len(a.fast)]
      ELSE Merge([d EXCEPT !.fast[e].virt = f], x.minlen, x.weight, f)

-----------------------------------------------------------------------------
(* class1: the next edge of the graph, in the order of their tails.         *)

Earlier(d, e) == \/ job.edge[d].tail < job.edge[e].tail
                 \/ job.edge[d].tail = job.edge[e].tail /\ d < e

\* as many edges come before the one whose turn it is as have had theirs
Turn(e) == Cardinality({d \in Edge : Earlier(d, e)}) = at - 1

Class1 ==
  /\ pc = "class1" /\ at <= Len(job.edge)
  /\ \E e \in Edge :
     LET x == job.edge[e]
         t == leader[x.tail]
         h == leader[x.head]
         rep == Find(G, t, h)
     IN  /\ Turn(e)
         /\ IF ~x.constraint \/ t = h THEN UNCHANGED <<fastgraph, virt>>
            ELSE IF rep # NONE
            THEN /\ Set(Merge(G, x.minlen, x.weight, rep))
                 /\ virt' = [virt EXCEPT ![e] = rep]
            ELSE /\ Set(Add(G, t, h, x.minlen, x.weight))
                 /\ virt' = [virt EXCEPT ![e] = Len(fast) + 1]
  /\ at' = at + 1
  /\ UNCHANGED <<job, pc, sets, slen, marks, stack, rank>>

Class1Done ==
  /\ pc = "class1" /\ at > Len(job.edge)
  /\ minset' = IF minset = NONE THEN NONE ELSE leader[minset]
  /\ maxset' = IF maxset = NONE THEN NONE ELSE leader[maxset]
  /\ slen' = [x |-> IF minset # NONE /\ ranktype[leader[minset]] = "source" THEN 1 ELSE 0,
              y |-> IF maxset # NONE /\ ranktype[leader[maxset]] = "sink" THEN 1 ELSE 0]
  /\ pc' = "maxset"
  /\ UNCHANGED <<job, at, leader, ranktype, fastgraph, virt, marks, stack, rank>>

\* minmax_edges: the first edge out of the greatest set, while there is one
MaxsetReverse ==
  /\ pc = "maxset" /\ maxset # NONE /\ out[maxset] # <<>>
  /\ Set(Reversed(G, out[maxset][1]))
  /\ UNCHANGED <<job, pc, at, sets, virt, slen, marks, stack, rank>>

MaxsetDone ==
  /\ pc = "maxset" /\ (maxset # NONE => out[maxset] = <<>>)
  /\ pc' = "minset"
  /\ UNCHANGED <<job, at, sets, fastgraph, virt, slen, marks, stack, rank>>

\* then the first edge into the least set
MinsetReverse ==
  /\ pc = "minset" /\ minset # NONE /\ in[minset] # <<>>
  /\ Set(Reversed(G, in[minset][1]))
  /\ UNCHANGED <<job, pc, at, sets, virt, slen, marks, stack, rank>>

-----------------------------------------------------------------------------
(* decompose (decomp.c).                                                    *)

\* (the mark of the last time, which is TRUE the first time)
BugNextMark == TRUE_

NextMark == IF Cmark = 255 THEN 1 ELSE Cmark + 1

\* the nodes found so far, and their marks
Found == [mark : [Node -> 0 .. 255], nodes : Seq(Node)]

Other(e, n) == IF fast[e].head = n THEN fast[e].tail ELSE fast[e].head

\* m is marked, and each of its neighbours in turn searched from, if it has no mark
Spread(r, m, search) ==
  LET near == out[m] \o in[m]
      visit[i \in 0 .. Len(near)] ==
        IF i = 0 THEN [mark |-> [r.mark EXCEPT ![m] = NextMark], nodes |-> Append(r.nodes, m)]
        ELSE LET v == visit[i - 1]
                 o == Other(near[i], m)
             IN  IF v.mark[o] # NextMark /\ leader[o] = o THEN search[v][o] ELSE v
  IN  visit[Len(near)]

\* search_component; there are no more calls under way than nodes
Search(s, n) ==
  LET search[k \in 0 .. job.n] ==
        [r \in Found |-> [m \in Node |-> IF k = 0 THEN r ELSE Spread(r, m, search[k - 1])]]
  IN  search[job.n][s][n]

Decompose ==
  LET upto[n \in 0 .. job.n] ==
        IF n = 0 THEN [mark |-> mark, comp |-> <<>>]
        ELSE LET s == upto[n - 1]
                 c == Search([mark |-> s.mark, nodes |-> <<>>], n)
             IN  IF leader[n] # n \/ s.mark[n] = NextMark THEN s
                 ELSE [mark |-> c.mark, comp |-> Append(s.comp, c.nodes)]
  IN  comp' = upto[job.n].comp /\ mark' = upto[job.n].mark /\ Cmark' = NextMark

\* decompose, after minmax_edges
FirstDecompose ==
  /\ pc = "minset" /\ (minset # NONE => in[minset] = <<>>)
  /\ Decompose
  /\ pc' = "acyclic" /\ at' = 1
  /\ UNCHANGED <<job, sets, fastgraph, virt, slen, stack, rank>>

-----------------------------------------------------------------------------
(* acyclic: a search in each component, whose calls are on the stack.       *)

onstack == {stack[k].node : k \in DOMAIN stack}

\* acyclic: the marks of the component are taken off
BeginComponent ==
  /\ pc = "acyclic" /\ at <= Len(comp)
  /\ mark' = [n \in Node |-> IF n \in Range(comp[at]) THEN 0 ELSE mark[n]]
  /\ pc' = "dfs"
  /\ UNCHANGED <<job, at, sets, fastgraph, virt, slen, Cmark, comp, stack, rank>>

Call(n, s) == /\ stack' = Append(s, [node |-> n, i |-> 1])
              /\ mark' = [mark EXCEPT ![n] = TRUE_]

\* dfs of the first node of the component that has no mark
DfsRoot ==
  /\ pc = "dfs" /\ stack = <<>>
  /\ LET rest == {i \in DOMAIN comp[at] : mark[comp[at][i]] = 0}
     IN  IF rest = {}
         THEN pc' = "acyclic" /\ at' = at + 1 /\ UNCHANGED <<stack, mark>>
         ELSE Call(comp[at][Min(rest)], <<>>) /\ UNCHANGED <<pc, at>>
  /\ UNCHANGED <<job, sets, fastgraph, virt, slen, Cmark, comp, rank>>

Step(i) == ReplaceAt(stack, Len(stack), [Last(stack) EXCEPT !.i = i])

\* (the edge that takes the place of a reversed one is passed over)
BugAfterReversal(i) == i + 1

\* the index after an edge is reversed: what was last in the list is there now
AfterReversal(i) == i

\* dfs: the next edge out of the node on top
DfsEdge ==
  /\ pc = "dfs" /\ stack # <<>>
  /\ LET n == Last(stack).node
         i == Last(stack).i
     IN  /\ i <= Len(out[n])
         /\ LET w == fast[out[n][i]].head
            IN  IF w \in onstack
                THEN /\ Set(Reversed(G, out[n][i]))
                     /\ stack' = Step(AfterReversal(i)) /\ UNCHANGED mark
                ELSE /\ UNCHANGED fastgraph
                     /\ IF mark[w] = 0 THEN Call(w, Step(i + 1))
                        ELSE stack' = Step(i + 1) /\ UNCHANGED mark
  /\ UNCHANGED <<job, pc, at, sets, virt, slen, Cmark, comp, rank>>

\* dfs returns
DfsReturn ==
  /\ pc = "dfs" /\ stack # <<>>
  /\ Last(stack).i > Len(out[Last(stack).node])
  /\ stack' = Front(stack)
  /\ UNCHANGED <<job, pc, at, sets, fastgraph, virt, slen, marks, rank>>

AcyclicDone ==
  /\ pc = "acyclic" /\ at > Len(comp)
  /\ pc' = "minmax2" /\ at' = 1
  /\ UNCHANGED <<job, sets, fastgraph, virt, slen, marks, stack, rank>>

-----------------------------------------------------------------------------
(* minmax_edges2: edges to the greatest set from where none goes on, and     *)
(* from the least to where none comes in.                                    *)

\* (a sink is not tied)
BugTied(g, n) ==
  IF g.in[n] = <<>> /\ minset # NONE /\ n # minset THEN Add(g, minset, n, slen.x, 1) ELSE g

Tied(g, n) ==
  LET a == IF g.out[n] = <<>> /\ maxset # NONE /\ n # maxset
           THEN Add(g, n, maxset, slen.y, 1) ELSE g
  IN  IF a.in[n] = <<>> /\ minset # NONE /\ n # minset
      THEN Add(a, minset, n, slen.x, 1) ELSE a

Minmax2 ==
  /\ pc = "minmax2" /\ at <= job.n
  /\ IF leader[at] = at THEN Set(Tied(G, at)) ELSE UNCHANGED fastgraph
  /\ at' = at + 1
  /\ UNCHANGED <<job, pc, sets, virt, slen, marks, stack, rank>>

\* whether minmax_edges2 made an edge: such an edge stands for no other
Added == \E e \in DOMAIN fast :
           /\ e \notin UNION {Chain(fast, virt[d]) : d \in Edge}

\* decompose again, if minmax_edges2 made an edge
SecondDecompose ==
  /\ pc = "minmax2" /\ at > job.n
  /\ IF Added THEN Decompose ELSE UNCHANGED marks
  /\ pc' = "rank" /\ at' = 1
  /\ UNCHANGED <<job, sets, fastgraph, virt, slen, stack, rank>>

-----------------------------------------------------------------------------
(* rank1, expand_ranksets.                                                  *)

Live(n) == Range(out[n])

Edges(S) == UNION {Live(n) : n \in S}

Feasible(r, S) ==
  \A e \in Edges(S) : r[fast[e].head] - r[fast[e].tail] >= fast[e].minlen

\* nodes of S from which one can go on for ever
Cyclic(S) == UNION {T \in SUBSET S : \A n \in T : \E e \in Live(n) : fast[e].head \in T}

\* the length of the longest path from n
Depth(n) ==
  LET depth[m \in Node] == Max({0} \cup {fast[e].minlen + depth[fast[e].head] : e \in Live(m)})
  IN  depth[n]

\* rank() of the next component: some feasible ranks, the least of them zero
RankComponent ==
  /\ pc = "rank" /\ at <= Len(comp)
  /\ LET S == Range(comp[at])
     IN  IF Cyclic(S) # {} THEN pc' = "trouble" /\ UNCHANGED <<at, rank>>
         ELSE /\ \E r \in [S -> 0 .. Max({Depth(n) : n \in S}) + Extra] :
                   /\ Feasible(r, S) /\ \E n \in S : r[n] = 0
                   /\ rank' = [n \in Node |-> IF n \in S THEN r[n] ELSE rank[n]]
              /\ at' = at + 1 /\ UNCHANGED pc
  /\ UNCHANGED <<job, sets, fastgraph, virt, slen, marks, stack>>

\* expand_ranksets
Expand ==
  /\ pc = "rank" /\ at > Len(comp)
  /\ rank' = [n \in Node |-> rank[n] + IF leader[n] # n THEN rank[leader[n]] ELSE 0]
  /\ pc' = "done"
  /\ UNCHANGED <<job, at, sets, fastgraph, virt, slen, marks, stack>>

Init ==
  /\ job \in Jobs
  /\ pc = "collapse" /\ at = 1
  /\ leader = [n \in 1 .. job.n |-> n]
  /\ ranktype = [n \in 1 .. job.n |-> "normal"]
  /\ minset = NONE /\ maxset = NONE
  /\ fast = <<>>
  /\ out = [n \in 1 .. job.n |-> <<>>]
  /\ in = [n \in 1 .. job.n |-> <<>>]
  /\ virt = [e \in DOMAIN job.edge |-> NONE]
  /\ slen = [x |-> 0, y |-> 0]
  /\ mark = [n \in 1 .. job.n |-> 0]
  /\ Cmark \in Marks
  /\ comp = <<>> /\ stack = <<>>
  /\ rank = [n \in 1 .. job.n |-> 0]

Next ==
  \/ CollapseRankset \/ CollapseDone \/ Class1 \/ Class1Done
  \/ MaxsetReverse \/ MaxsetDone \/ MinsetReverse \/ FirstDecompose
  \/ BeginComponent \/ DfsRoot \/ DfsEdge \/ DfsReturn \/ AcyclicDone
  \/ Minmax2 \/ SecondDecompose \/ RankComponent \/ Expand

Spec == Init /\ [][Next]_vars

-----------------------------------------------------------------------------
(* Properties.                                                              *)

AllLive == Edges(Node)

\* The two lists of edges agree while edges are reversed, merged and moved into the
\* place of others, and no two edges of the fast graph go from one node to one other
\* (the assertions of fast_edge in a debugging build).
FastGraphSound ==
  /\ \A n \in Node :
       /\ IsInjective(out[n]) /\ IsInjective(in[n])
       /\ \A e \in Range(out[n]) : fast[e].tail = n /\ e \in Range(in[fast[e].head])
       /\ \A e \in Range(in[n]) : fast[e].head = n /\ e \in Range(out[fast[e].tail])
  /\ \A d, e \in AllLive : fast[d].tail = fast[e].tail /\ fast[d].head = fast[e].head => d = e

Ends(e) == {leader[job.edge[e].tail], leader[job.edge[e].head]}

\* the edge of the fast graph that stands for e in the end
Standing(e) == CHOOSE f \in Chain(fast, virt[e]) : fast[f].virt = NONE

Stood == {e \in Edge : virt[e] # NONE}

\* However often the edge that stands for an edge is merged or turned round, there is
\* one left in the lists between the same leaders, at least as long as is asked for,
\* whose weight is that of all the edges it stands for.
Represented ==
  \A e \in Stood :
    LET f == Standing(e)
    IN  /\ f \in AllLive
        /\ {fast[f].tail, fast[f].head} = Ends(e)
        /\ fast[f].minlen >= job.edge[e].minlen
        /\ fast[f].weight = MapThenSumSet(LAMBDA d : job.edge[d].weight,
                                          {d \in Stood : Standing(d) = f})

\* What rank() is given has no cycle, although the search for cycles changes the list
\* that it walks ("Break cycles in a directed graph by depth-first search", acyclic.c),
\* and although edges are added afterwards.
AcyclicGiven == pc = "rank" => Cyclic(Node) = {}

\* Once the graph is divided, each leader is in one component, once, and no edge goes
\* from one component to another ("Decompose finds the connected components of a
\* graph", decomp.c).
Divided ==
  pc \in {"dfs", "rank", "done"} =>
    /\ \A n \in Leaders : Cardinality({p \in UNION {{c} \X DOMAIN comp[c] : c \in DOMAIN comp} :
                                         comp[p[1]][p[2]] = n}) = 1
    /\ \A e \in AllLive : \E c \in DOMAIN comp : {fast[e].tail, fast[e].head} \subseteq Range(comp[c])

Asked(kinds) == UNION {job.sets[i].nodes : i \in {j \in DOMAIN job.sets : job.sets[j].kind \in kinds}}

\* The nodes of a rank set are on one rank; a set of kind min or source is on the least
\* rank of the graph, one of kind max or sink on the greatest.
RanksAsAsked ==
  pc = "done" =>
    /\ \A i \in DOMAIN job.sets : \A u, v \in job.sets[i].nodes : rank[u] = rank[v]
    /\ \A u \in Asked({"min", "source"}), v \in Node : rank[u] <= rank[v]
    /\ \A u \in Asked({"max", "sink"}), v \in Node : rank[u] >= rank[v]

\* An edge that counts spans as many ranks as its least length, up or down, unless its
\* ends are in one rank set.
LongEnough ==
  pc = "done" =>
    \A e \in Edge :
      LET x == job.edge[e]
          span == rank[x.head] - rank[x.tail]
      IN  x.constraint /\ leader[x.tail] # leader[x.head] =>
            span >= x.minlen \/ -span >= x.minlen

\* A set of kind source is on a rank strictly less than that of any node outside the
\* sets of kind min and source (doc/dotguide/dotguide.tex).
SourceStrict ==
  pc = "done" =>
    \A u \in Asked({"source"}), v \in Node \ Asked({"min", "source"}) :
      leader[v] # leader[u] => rank[u] < rank[v]
=============================================================================
