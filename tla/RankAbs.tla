------------------------------ MODULE RankAbs ------------------------------
(***************************************************************************)
(* What rank() (lib/common ns.c) promises at any time, however it chooses: *)
(* once it has given the nodes ranks, it only moves sets of nodes, never   *)
(* further than the edges between such a set and the rest allow.           *)
(***************************************************************************)
EXTENDS Integers

CONSTANTS Node, Arc,
          Deltas  \* by how much a set may move

VARIABLES
  arc,    \* the tail, the head, the least length and the weight of each edge
  rank,   \* ranks of the nodes
  ready   \* whether rank() has begun

Slack(e) == rank[arc[e].head] - rank[arc[e].tail] - arc[e].minlen

\* every edge that is there has its least length
Feasible == \A e \in DOMAIN arc : Slack(e) >= 0

\* the nodes of S move towards rank zero by d
Move(S, d) ==
  /\ ready /\ d \in Int
  /\ \A e \in DOMAIN arc :
       /\ arc[e].head \in S /\ arc[e].tail \notin S => Slack(e) >= d
       /\ arc[e].tail \in S /\ arc[e].head \notin S => Slack(e) >= -d
  /\ rank' = [n \in DOMAIN rank |-> rank[n] - IF n \in S THEN d ELSE 0]
  /\ UNCHANGED <<arc, ready>>

Begin ==
  /\ ~ready
  /\ ready' = TRUE
  /\ rank' \in [DOMAIN rank -> Int]
  /\ Feasible'
  /\ UNCHANGED arc

\* a graph, with ranks of its nodes
TypeOK ==
  /\ DOMAIN rank \subseteq Node /\ DOMAIN arc \subseteq Arc
  /\ arc \in [DOMAIN arc -> [tail : DOMAIN rank, head : DOMAIN rank, minlen : Int, weight : Int]]
  /\ rank \in [DOMAIN rank -> Int]

\* The ranks that rank() leaves behind, whenever it stops, give each edge its length.
Lasting == ready => Feasible

\* any graph, and any ranks to begin with
Init == TypeOK /\ ready = FALSE

Next == Begin \/ \E S \in SUBSET DOMAIN rank, d \in Deltas : Move(S, d)

Spec == Init /\ [][Next]_<<arc, rank, ready>>
=============================================================================
