--------------------------- MODULE NetworkSimplex ---------------------------
(***************************************************************************)
(* Ranks for the nodes of an acyclic graph by the network simplex method   *)
(* (lib/common ns.c): each edge must have its least length, and the sum of *)
(* weight times length over all edges shall be as small as can be.         *)
(*                                                                         *)
(* The nodes are 1 .. n in the order of GD_nlist, and the lists ND_out and *)
(* ND_in are in the order of the edges in arc.  A step is one round of     *)
(* feasible_tree, one exchange of tree edges, or one move of a balancing   *)
(* pass.                                                                   *)
(*                                                                         *)
(* An operator named Bug... is a wrong version of the one that follows it. *)
(***************************************************************************)
EXTENDS Integers, Sequences, FiniteSets, FiniteSetsExt, SequencesExt, Functions

CONSTANTS
  Jobs,        \* calls of rank(): records of arc, normal, rank, balance, maxiter
  SearchSize,  \* Search_size: how many candidates leave_edge looks at
  NULL

ASSUME SearchAssumption == SearchSize \in Nat \ {0}

VARIABLES
  job,       \* the graph and the arguments of rank()
  pc,        \* where rank() is
  rank,      \* ND_rank
  t,         \* the spanning tree, with its cut values
  S_i,       \* where leave_edge goes on
  iter,      \* exchanges so far
  next,      \* what a balancing pass looks at next
  Maxrank    \* the greatest rank of a node of type NORMAL, set by the passes

vars == <<job, pc, rank, t, S_i, iter, next, Maxrank>>

arc == job.arc
Node == DOMAIN job.rank
Arc == DOMAIN arc
N_nodes == Len(job.rank)
Tail_(e) == arc[e].tail
Head_(e) == arc[e].head
Other(e, v) == IF arc[e].tail = v THEN arc[e].head ELSE arc[e].tail
Out(v) == SelectSeq([e \in Arc |-> e], LAMBDA e : arc[e].tail = v)
In(v) == SelectSeq([e \in Arc |-> e], LAMBDA e : arc[e].head = v)

LENGTH(r, e) == r[arc[e].head] - r[arc[e].tail]
SLACK(r, e) == LENGTH(r, e) - arc[e].minlen
SEQ(a, b, c) == a <= b /\ b <= c

\* the total that shall be small
Cost(r) == MapThenSumSet(LAMBDA e : arc[e].weight * LENGTH(r, e), Arc)

NoTree == [edge |-> <<>>, node |-> {},
           out |-> [v \in Node |-> <<>>], in |-> [v \in Node |-> <<>>],
           cutvalue |-> [e \in Arc |-> 0],
           low |-> [v \in Node |-> 0], lim |-> [v \in Node |-> 0],
           par |-> [v \in Node |-> NULL], top |-> 0]

-----------------------------------------------------------------------------
(* init_graph and init_rank.                                               *)

\* init_rank: the longest path from a source
Longest ==
  LET far[v \in Node] ==
        Max({0} \cup {far[arc[e].tail] + arc[e].minlen : e \in Range(In(v))})
  IN  far

Start ==
  /\ pc = "start"
  /\ rank' = IF \A e \in Arc : SLACK(rank, e) >= 0 THEN rank ELSE Longest
  /\ t' = NoTree
  /\ pc' = IF job.maxiter <= 0 THEN "done"
           ELSE IF N_nodes <= 1 THEN "pivot" ELSE "grow"
  /\ UNCHANGED <<job, S_i, iter, next, Maxrank>>

-----------------------------------------------------------------------------
(* feasible_tree.                                                          *)

AddTreeEdge(x, e) ==
  [x EXCEPT !.edge = Append(@, e), !.node = @ \cup {Tail_(e), Head_(e)},
            !.out[Tail_(e)] = Append(@, e), !.in[Head_(e)] = Append(@, e)]

RECURSIVE Treesearch(_, _)
Treesearch(x, v) ==
  LET try(y, e) ==
        IF Other(e, v) \in y.node \/ SLACK(rank, e) # 0 \/ Len(y.edge) = N_nodes - 1
        THEN y ELSE Treesearch(AddTreeEdge(y, e), Other(e, v))
  IN  FoldLeft(try, x, Out(v) \o In(v))

\* tight_tree: from the first node that has a tight edge
TightTree ==
  LET from(x, v) == IF x.edge = <<>> THEN Treesearch(x, v) ELSE x
  IN  FoldLeft(from, NoTree, [v \in Node |-> v])

\* (only from the tail)
BugIncident(x, e) == Tail_(e) \in x.node /\ Head_(e) \notin x.node

Incident(x, e) == (Tail_(e) \in x.node) # (Head_(e) \in x.node)

\* the first of the edges between the tree and the rest that have least slack
Closest(x) ==
  LET better(best, e) ==
        IF Incident(x, e) /\ (best = NULL \/ SLACK(rank, e) < SLACK(rank, best))
        THEN e ELSE best
  IN  FoldLeft(better, NULL, FlattenSeq([v \in Node |-> Out(v)]))

\* dfs_range: low and lim number the nodes of each subtree, par is its edge up
RECURSIVE DfsRange(_, _, _, _)
DfsRange(x, v, up, from) ==
  LET visit(y, e) == IF e = up THEN y ELSE DfsRange(y, Other(e, v), e, y.top)
      end == FoldLeft(visit, [x EXCEPT !.par[v] = up, !.low[v] = from, !.top = from],
                      x.out[v] \o x.in[v])
  IN  [end EXCEPT !.lim[v] = end.top, !.top = @ + 1]

\* x_val: what e adds to the cut value of the edge from v up
XVal(x, e, v, dir) ==
  LET outside == ~SEQ(x.low[v], x.lim[Other(e, v)], x.lim[v])
      value == IF outside THEN arc[e].weight
               ELSE (IF e \in Range(x.edge) THEN x.cutvalue[e] ELSE 0) - arc[e].weight
      plus == (IF dir > 0 THEN Head_(e) = v ELSE Tail_(e) = v) # outside
  IN  IF plus THEN value ELSE -value

XCutval(x, f) ==
  LET up  == x.par[Tail_(f)] = f
      v   == IF up THEN Tail_(f) ELSE Head_(f)
      dir == IF up THEN 1 ELSE -1
      add(sum, e) == sum + XVal(x, e, v, dir)
  IN  [x EXCEPT !.cutvalue[f] = FoldLeft(add, 0, Out(v) \o In(v))]

RECURSIVE DfsCutval(_, _, _)
DfsCutval(x, v, up) ==
  LET visit(y, e) == IF e = up THEN y ELSE DfsCutval(y, Other(e, v), e)
      y == FoldLeft(visit, x, x.out[v] \o x.in[v])
  IN  IF up = NULL THEN y ELSE XCutval(y, up)

InitCutvalues(x) == DfsCutval(DfsRange(x, 1, NULL, 1), 1, NULL)

\* (the tree always moves up)
BugToward(x, e) == SLACK(rank, e)

\* how the tree moves to make e tight
Toward(x, e) == IF Tail_(e) \in x.node THEN SLACK(rank, e) ELSE -SLACK(rank, e)

\* one round of the loop in feasible_tree
GrowTree ==
  /\ pc = "grow"
  /\ \E x \in {TightTree} :
       IF Cardinality(x.node) = N_nodes
       THEN pc' = "pivot" /\ t' = InitCutvalues(x) /\ UNCHANGED rank
       ELSE /\ t' = x
            /\ IF Closest(x) = NULL
               THEN pc' = "failed" /\ UNCHANGED rank
               ELSE /\ rank' = [v \in Node |-> rank[v] +
                                 IF v \in x.node THEN Toward(x, Closest(x)) ELSE 0]
                    /\ UNCHANGED pc
  /\ UNCHANGED <<job, S_i, iter, next, Maxrank>>

-----------------------------------------------------------------------------
(* Exchanges.                                                              *)

\* leave_edge: the places of Tree_edge (from 0) in the order of the search
Places == LET size == Len(t.edge)
          IN  [k \in 1 .. size |-> (S_i + k - 1) % size]

\* (one too few)
BugBelow == SelectSeq(Places, LAMBDA p : t.cutvalue[t.edge[p + 1]] < -1)

\* (zero too)
BugNegative == SelectSeq(Places, LAMBDA p : t.cutvalue[t.edge[p + 1]] <= 0)

Negative == SelectSeq(Places, LAMBDA p : t.cutvalue[t.edge[p + 1]] < 0)

LeaveEdge ==
  LET seen == SubSeq(Negative, 1, IF Len(Negative) < SearchSize THEN Len(Negative)
                                  ELSE SearchSize)
      better(best, p) ==
        IF best = NULL \/ t.cutvalue[best] > t.cutvalue[t.edge[p + 1]]
        THEN t.edge[p + 1] ELSE best
  IN  [edge |-> FoldLeft(better, NULL, seen),
       S_i |-> IF Len(Negative) >= SearchSize THEN Last(seen)
               ELSE IF S_i > 0 THEN S_i ELSE Len(t.edge)]

\* dfs_enter_outedge and dfs_enter_inedge: an edge from the subtree below v to a
\* node outside, or from outside, of least slack
RECURSIVE DfsEnter(_, _, _, _, _)
DfsEnter(v, best, out, Low, Lim) ==
  LET below(e) == t.lim[Other(e, v)] < t.lim[v]
      look(b, e) ==
        IF e \notin Range(t.edge)
        THEN IF /\ ~SEQ(Low, t.lim[Other(e, v)], Lim)
                /\ b = NULL \/ SLACK(rank, e) < SLACK(rank, b)
             THEN e ELSE b
        ELSE IF below(e) THEN DfsEnter(Other(e, v), b, out, Low, Lim) ELSE b
      back(b, e) ==
        IF below(e) /\ (b = NULL \/ SLACK(rank, b) > 0)
        THEN DfsEnter(Other(e, v), b, out, Low, Lim) ELSE b
  IN  FoldLeft(back, FoldLeft(look, best, IF out THEN Out(v) ELSE In(v)),
               IF out THEN t.in[v] ELSE t.out[v])

EnterEdge(e) ==
  LET out == t.lim[Tail_(e)] >= t.lim[Head_(e)]
      v   == IF out THEN Head_(e) ELSE Tail_(e)
  IN  DfsEnter(v, NULL, out, t.low[v], t.lim[v])

\* rerank: v and what hangs below it move
RECURSIVE Rerank(_, _, _)
Rerank(r, v, delta) ==
  LET visit(s, e) == IF e = t.par[v] THEN s ELSE Rerank(s, Other(e, v), delta)
  IN  FoldLeft(visit, [r EXCEPT ![v] = @ - delta], t.out[v] \o t.in[v])

\* the ranks after the exchange of e and f: the side of a leaf moves if there is
\* one, otherwise the side below e
Moved(e, f) ==
  LET delta == SLACK(rank, f)
      leaf(v) == Len(t.in[v]) + Len(t.out[v]) = 1
  IN  IF delta <= 0 THEN rank
      ELSE IF leaf(Tail_(e)) THEN Rerank(rank, Tail_(e), delta)
      ELSE IF leaf(Head_(e)) THEN Rerank(rank, Head_(e), -delta)
      ELSE IF t.lim[Tail_(e)] < t.lim[Head_(e)] THEN Rerank(rank, Tail_(e), delta)
      ELSE Rerank(rank, Head_(e), -delta)

\* treeupdate: from v up to the first node that has u below it
RECURSIVE Treeupdate(_, _, _, _, _)
Treeupdate(x, v, u, value, dir) ==
  IF SEQ(x.low[v], x.lim[u], x.lim[v]) THEN [tree |-> x, lca |-> v]
  ELSE LET e  == x.par[v]
           up == (v = Tail_(e)) = dir
           w  == IF x.lim[Tail_(e)] > x.lim[Head_(e)] THEN Tail_(e) ELSE Head_(e)
       IN  Treeupdate([x EXCEPT !.cutvalue[e] = @ + IF up THEN value ELSE -value],
                      w, u, value, dir)

\* what is at the end of a list takes the place of e
Without(list, e) ==
  LET j == SelectInSeq(list, LAMBDA x : x = e)
  IN  Front(IF j = 0 THEN list ELSE ReplaceAt(list, j, Last(list)))

\* (f does not enter the list of its head)
BugExchange(x, e, f) ==
  [x EXCEPT !.edge = ReplaceAt(@, SelectInSeq(@, LAMBDA y : y = e), f),
            !.out = [[@ EXCEPT ![Tail_(e)] = Without(@, e)]
                        EXCEPT ![Tail_(f)] = Append(@, f)],
            !.in = [@ EXCEPT ![Head_(e)] = Without(@, e)]]

\* exchange_tree_edges
Exchange(x, e, f) ==
  [x EXCEPT !.edge = ReplaceAt(@, SelectInSeq(@, LAMBDA y : y = e), f),
            !.out = [[@ EXCEPT ![Tail_(e)] = Without(@, e)]
                        EXCEPT ![Tail_(f)] = Append(@, f)],
            !.in = [[@ EXCEPT ![Head_(e)] = Without(@, e)]
                       EXCEPT ![Head_(f)] = Append(@, f)]]

\* the tree and the cut values after the exchange
Updated(e, f) ==
  LET value == t.cutvalue[e]
      one == Treeupdate(t, Tail_(f), Head_(f), value, TRUE)
      two == Treeupdate(one.tree, Head_(f), Tail_(f), value, FALSE)
      x   == [two.tree EXCEPT !.cutvalue = [@ EXCEPT ![f] = -value, ![e] = 0]]
  IN  DfsRange(Exchange(x, e, f), one.lca, x.par[one.lca], x.low[one.lca])

Balance == CASE job.balance = 1 -> "tb" [] job.balance = 2 -> "lr" [] OTHER -> "normalize"

\* leave_edge finds e, enter_edge f, and update exchanges them
Pivot ==
  /\ pc = "pivot"
  /\ LeaveEdge.edge # NULL
  /\ LET e == LeaveEdge.edge
         f == EnterEdge(e)
     IN  rank' = Moved(e, f) /\ t' = Updated(e, f)
  /\ S_i' = LeaveEdge.S_i
  /\ iter' = iter + 1
  /\ pc' = IF iter + 1 >= job.maxiter THEN Balance ELSE "pivot"
  /\ UNCHANGED <<job, next, Maxrank>>

\* no cut value is negative
Settle ==
  /\ pc = "pivot"
  /\ LeaveEdge.edge = NULL
  /\ S_i' = LeaveEdge.S_i
  /\ pc' = Balance
  /\ UNCHANGED <<job, rank, t, iter, next, Maxrank>>

-----------------------------------------------------------------------------
(* Balancing.                                                              *)

Normal(r) == {r[v] : v \in job.normal}

\* scan_and_normalize, which ends rank() unless TB_balance goes on
Normalize ==
  /\ pc \in {"normalize", "tb"}
  /\ next = 0
  /\ rank' = [v \in Node |-> rank[v] - Min(Normal(rank))]
  /\ Maxrank' = Max(Normal(rank)) - Min(Normal(rank))
  /\ IF pc = "tb" THEN next' = 1 /\ UNCHANGED pc ELSE pc' = "done" /\ UNCHANGED next
  /\ UNCHANGED <<job, t, S_i, iter>>

Weight(list) == FoldLeft(LAMBDA s, e : s + arc[e].weight, 0, list)

\* (the edges are counted, not weighed)
BugLevel(v) == Len(In(v)) = Len(Out(v))

\* whether as much pulls v up as down
Level(v) == Weight(In(v)) = Weight(Out(v))

\* how many nodes of type NORMAL have rank i
nrank(i) == Cardinality({v \in job.normal : rank[v] = i})

\* between which ranks v may be
Room(v) == [low |-> Max({0} \cup {rank[Tail_(e)] + arc[e].minlen : e \in Range(In(v))}),
            high |-> Min({Maxrank} \cup {rank[Head_(e)] - arc[e].minlen : e \in Range(Out(v))})]

\* the first of the ranks v may have that have the fewest nodes
Choice(v) ==
  LET better(c, i) == IF nrank(i) < nrank(c) THEN i ELSE c
      low == Room(v).low
  IN  FoldLeft(better, low, [k \in 1 .. Room(v).high - low |-> low + k])

\* TB_balance, for the next node
TBMove ==
  /\ pc = "tb"
  /\ next > 0
  /\ rank' = IF next \in job.normal /\ Level(next)
             THEN [rank EXCEPT ![next] = Choice(next)] ELSE rank
  /\ IF next = N_nodes THEN pc' = "done" /\ UNCHANGED next
     ELSE next' = next + 1 /\ UNCHANGED pc
  /\ UNCHANGED <<job, t, S_i, iter, Maxrank>>

\* LR_balance, for the next tree edge: one whose length costs nothing
LRMove ==
  /\ pc = "lr"
  /\ next < Len(t.edge)
  /\ next' = next + 1
  /\ LET e == t.edge[next + 1]
         f == EnterEdge(e)
     IN  rank' = IF t.cutvalue[e] # 0 \/ f = NULL THEN rank
                 ELSE IF SLACK(rank, f) <= 1 THEN rank
                 ELSE LET half == SLACK(rank, f) \div 2
                      IN  IF t.lim[Tail_(e)] < t.lim[Head_(e)]
                          THEN Rerank(rank, Tail_(e), half) ELSE Rerank(rank, Head_(e), -half)
  /\ UNCHANGED <<job, pc, t, S_i, iter, Maxrank>>

LRDone ==
  /\ pc = "lr"
  /\ next = Len(t.edge)
  /\ pc' = "done"
  /\ UNCHANGED <<job, rank, t, S_i, iter, next, Maxrank>>

Init ==
  /\ job \in Jobs
  /\ pc = "start"
  /\ rank = job.rank
  /\ t = NoTree
  /\ S_i = 0 /\ iter = 0 /\ next = 0 /\ Maxrank = 0

Next == Start \/ GrowTree \/ Pivot \/ Settle \/ Normalize \/ TBMove \/ LRMove \/ LRDone

Spec == Init /\ [][Next]_vars

-----------------------------------------------------------------------------
(* Properties.                                                             *)

\* the nodes on v's side of the tree without edge e
Side(v, e) ==
  LET more(S, i) == S \cup {w \in Node : \E f \in Range(t.edge) \ {e} :
                              {Tail_(f), Head_(f)} \cap S # {} /\ w \in {Tail_(f), Head_(f)}}
  IN  FoldLeft(more, {v}, [i \in Node |-> i])

\* The tree spans the graph, its lists and its numbering agree, and each cut value,
\* which is only ever corrected along the path between two nodes, is what it is
\* defined to be: the weight of the edges that cross as e does less that of the others
\* (check_cutvalues and checktree in ns.c look at this in a debugging build).
TreeSound ==
  pc \in {"pivot", "lr"} /\ N_nodes > 1 =>
    /\ \A e \in Range(t.edge) :
         LET S == Side(Tail_(e), e)
             w(A, B) == MapThenSumSet(LAMBDA f : arc[f].weight,
                          {f \in Arc : Tail_(f) \in A /\ Head_(f) \in B})
         IN  /\ Head_(e) \notin S
             /\ t.cutvalue[e] = w(S, Node \ S) - w(Node \ S, S)
    /\ Len(t.edge) = N_nodes - 1
    /\ \A v \in Node :
         /\ Range(t.out[v]) = {e \in Range(t.edge) : Tail_(e) = v}
         /\ Range(t.in[v]) = {e \in Range(t.edge) : Head_(e) = v}
         /\ t.par[v] # NULL =>
              {u \in Node : SEQ(t.low[v], t.lim[u], t.lim[v])} = Side(v, t.par[v])

\* An exchange moves the nodes in the tail side of the edge that leaves, by the slack of
\* the edge that enters, against all other nodes (the comment at the head of update).
TailSideMoves ==
  [][pc = "pivot" /\ LeaveEdge.edge # NULL =>
       LET e == LeaveEdge.edge
           delta == SLACK(rank, EnterEdge(e))
       IN  \E c \in {0, delta} :
             rank' = [v \in Node |-> rank[v] + c - IF v \in Side(Tail_(e), e) THEN delta ELSE 0]]_vars

\* No exchange makes the ranking longer, and balancing, with or without a limit on
\* the exchanges before it, leaves its length as it is.
NoCostlier ==
  [][/\ pc = "pivot" => Cost(rank') <= Cost(rank)
     /\ pc \in {"tb", "lr", "normalize"} => Cost(rank') = Cost(rank)]_vars

\* When no exchange is left to make, and unless the limit came first, a tree that is
\* tight gives ranks of least length: no set of nodes can move by one and shorten the
\* total (which is enough, as the total is convex in the differences of ranks).
Optimal ==
  /\ pc \in {"normalize", "tb", "lr"} /\ next = 0 /\ iter < job.maxiter
  /\ \A e \in Range(t.edge) : SLACK(rank, e) = 0
  => \A S \in SUBSET Node :
       LET r == [v \in Node |-> rank[v] + IF v \in S THEN 1 ELSE 0]
       IN  (\A e \in Arc : SLACK(r, e) >= 0) => Cost(rank) <= Cost(r)

\* An exchange with slack zero changes nothing about the ranks, and still no tree comes
\* back: there are fewer exchanges than trees to choose from.
NoCycling == iter > 0 => iter < Cardinality(kSubset(N_nodes - 1, Arc))

Connected == \A S \in (SUBSET Node) \ {{}, Node} :
               \E e \in Arc : (Tail_(e) \in S) # (Head_(e) \in S)

\* rank() fails exactly on the graphs that are not connected ("Returns 0 if successful;
\* returns 1 if not, the latter indicating that the graph was not connected").
FailsIfApart == /\ pc = "failed" => ~Connected
                /\ pc \in {"pivot", "tb", "lr", "normalize"} => Connected

\* What a caller of rank() learns from its result and finds in the ranks.
AnswerRight == FailsIfApart /\ Optimal

\* Whatever was done so far, once a first tree is found the ranks stay feasible, and
\* every later step is a move between feasible ranks (RankAbs).
Promise == INSTANCE RankAbs WITH
  Node <- 1 .. 5, Arc <- 1 .. 6, Deltas <- -9 .. 9, ready <- pc # "start"

KeepsPromise == Promise!Spec
=============================================================================
