---------------------------- MODULE CgraphProofs ----------------------------
(***************************************************************************)
(* Theorems about Cgraph, for any sets of graphs, nodes, edges and names:  *)
(* what has which type and, as long as the sequence numbers of one root    *)
(* graph have not run out, that the sets of the graphs that can be reached *)
(* stay in step, that ids tell objects apart and that nothing leaks; and,  *)
(* for a client that closes subgraphs with agclose, that every step does   *)
(* what CgraphAbs promises: inserting in a graph inserts above it,         *)
(* deleting from a graph deletes below it, and nothing else changes.       *)
(***************************************************************************)
EXTENDS Cgraph, ChainsProofs

LEMMA ClosedTypes ==
  ASSUME NEW S, NEW V, NEW f \in [S -> V], NEW X, NEW v \in V
  PROVE  Blank(f, X, v) \in [S -> V]
BY DEF Blank

LEMMA JoinedType ==
  ASSUME NEW V, NEW sets \in [Graph -> SUBSET V], NEW S, NEW x \in V, NEW key
  PROVE  Joined(sets, S, x, key) \in [Graph -> SUBSET V]
BY DEF Joined, AddNew

LEMMA FreeIdsType ==
  ASSUME TypeOK, NEW G \in SUBSET Graph, NEW N \in SUBSET Node,
         NEW E \in SUBSET Edge, FreeIds(G, N, E)
  PROVE  refcnt' \in [Name -> Int] /\ anonCtr' \in Nat
<1>1. ASSUME NEW x \in Name
      PROVE  /\ Cardinality({g \in G : graphId[g] = x}) \in Nat
             /\ Cardinality({n \in N : nodeId[n] = x}) \in Nat
             /\ Cardinality({e \in E : edgeId[e] = x}) \in Nat
  <2>1. IsFiniteSet({g \in G : graphId[g] = x})
    BY GraphAssumption, FS_Subset DEF GraphAssumption
  <2>2. IsFiniteSet({n \in N : nodeId[n] = x})
    BY GraphAssumption, FS_Subset DEF GraphAssumption
  <2>3. IsFiniteSet({e \in E : edgeId[e] = x})
    BY GraphAssumption, FS_Subset DEF GraphAssumption
  <2> QED BY <2>1, <2>2, <2>3, FS_CardinalityType
<1> QED BY <1>1 DEF FreeIds, TypeOK

LEMMA ReserveType ==
  ASSUME TypeOK, NEW name \in Name \cup {NULL}, NEW id, Reserve(name, id)
  PROVE  id \in Id /\ refcnt' \in [Name -> Int] /\ anonCtr' \in Nat
BY GraphAssumption DEF Reserve, TypeOK, Id, GraphAssumption

LEMMA NextSeqType ==
  ASSUME TypeOK, NEW kind \in {"node", "edge"}, NextSeq(kind)
  PROVE  /\ seqCtr' \in [{"node", "edge"} -> Nat]
         /\ seqCtr'[kind] % SeqMod \in Nat
BY GraphAssumption DEF NextSeq, TypeOK, GraphAssumption

-----------------------------------------------------------------------------
(* Type correctness.  The dictionary insertions and deletions yield subsets *)
(* of the same domain, ids come from Reserve, sequence numbers are natural.*)

LEMMA FreeGraphsType ==
  ASSUME TypeOK, NEW G, FreeGraphs(G)
  PROVE  /\ graphs' \subseteq Graph
         /\ parent' \in [Graph -> Graph \cup {NULL}]
         /\ graphId' \in [Graph -> Id]
         /\ nIdx' \in [Graph -> SUBSET Node] /\ nSeq' \in [Graph -> SUBSET Node]
         /\ outIdx' \in [Graph -> SUBSET Edge] /\ outSeq' \in [Graph -> SUBSET Edge]
         /\ inIdx' \in [Graph -> SUBSET Edge] /\ inSeq' \in [Graph -> SUBSET Edge]
BY DEF TypeOK, FreeGraphs, Blank, Id, NoId

LEMMA FreeNodesType ==
  ASSUME TypeOK, NEW N, FreeNodes(N)
  PROVE  /\ nodes' \subseteq Node
         /\ nodeId' \in [Node -> Id]
         /\ nodeSeq' \in [Node -> Nat]
BY DEF TypeOK, FreeNodes, Blank, Id, NoId

LEMMA FreeEdgesType ==
  ASSUME TypeOK, NEW E, FreeEdges(E)
  PROVE  /\ edges' \subseteq Edge
         /\ edgeId' \in [Edge -> Id]
         /\ edgeSeq' \in [Edge -> Nat]
         /\ tail' \in [Edge -> Node \cup {NULL}]
         /\ head' \in [Edge -> Node \cup {NULL}]
         /\ \A e \in edges' : {tail'[e], head'[e]} \subseteq Node
BY DEF TypeOK, FreeEdges, Blank, Id, NoId

LEMMA DropEdgesType ==
  ASSUME TypeOK, NEW lost, DropEdges(lost)
  PROVE  /\ outIdx' \in [Graph -> SUBSET Edge] /\ outSeq' \in [Graph -> SUBSET Edge]
         /\ inIdx' \in [Graph -> SUBSET Edge] /\ inSeq' \in [Graph -> SUBSET Edge]
BY DEF TypeOK, DropEdges, Without

LEMMA DropNodeType ==
  ASSUME TypeOK, NEW S, NEW n, DropNode(S, n)
  PROVE  nIdx' \in [Graph -> SUBSET Node] /\ nSeq' \in [Graph -> SUBSET Node]
BY DEF TypeOK, DropNode, Without

LEMMA InstallEdgeType ==
  ASSUME TypeOK, NEW S, NEW e \in Edge, NEW t, NEW h, NEW id, NEW seq,
         InstallEdge(S, e, t, h, id, seq)
  PROVE  /\ outIdx' \in [Graph -> SUBSET Edge] /\ outSeq' \in [Graph -> SUBSET Edge]
         /\ inIdx' \in [Graph -> SUBSET Edge] /\ inSeq' \in [Graph -> SUBSET Edge]
BY JoinedType DEF TypeOK, InstallEdge

LEMMA EndsUnchanged ==
  TypeOK /\ UNCHANGED <<edges, tail, head>>
    => \A e \in edges' : {tail'[e], head'[e]} \subseteq Node
BY DEF TypeOK

LEMMA GraphOpType == TypeOK /\ GraphOp => TypeOK'
<1> SUFFICES ASSUME TypeOK, GraphOp PROVE TypeOK'
  OBVIOUS
<1> USE DEF objs, tree, ntags, etags, nsets, esets, ids
<1>1. CASE Agopen
  BY <1>1, GraphAssumption DEF Agopen, TypeOK, GraphAssumption, Id
<1>2. CASE AgcloseRoot
  <2> DEFINE freed == {e \in UNION {Incident(Root, n) : n \in Swept} :
                         FoundEdge(Root, tail[e], head[e], edgeId[e]) # {}}
  <2>1. /\ FreeGraphs(Attached) /\ FreeNodes(Swept) /\ FreeEdges(freed)
        /\ gDict' = Blank(gDict, Attached, {})
        /\ refcnt' = [x \in Name |-> 0]
        /\ UNCHANGED <<anonCtr, seqCtr>>
    BY <1>2 DEF AgcloseRoot
  <2>2. gDict' \in [Graph -> SUBSET Graph]
    BY <2>1 DEF Blank, TypeOK
  <2> HIDE DEF freed
  <2> QED BY <2>1, <2>2, FreeGraphsType, FreeNodesType, FreeEdgesType DEF TypeOK
<1>3. ASSUME NEW g \in Graph, AgcloseSubg(g) PROVE TypeOK'
  <2> DEFINE gone == Visit(g, Graph)
  <2>1. /\ FreeGraphs(gone) /\ FreeIds(gone, {}, {})
        /\ gDict' = [Blank(gDict, gone, {}) EXCEPT
                       ![parent[g]] = Without(@, {g}, graphId)]
        /\ UNCHANGED <<nodes, edges, nodeId, nodeSeq, edgeId, edgeSeq,
                        tail, head, seqCtr>>
    BY <1>3 DEF AgcloseSubg
  <2>2. gDict' \in [Graph -> SUBSET Graph]
    BY <2>1 DEF Blank, TypeOK, Without
  <2>3. gone \in SUBSET Graph
    BY DEF Visit, Reach
  <2>4. refcnt' \in [Name -> Int] /\ anonCtr' \in Nat
    BY <2>1, <2>3, FreeIdsType
  <2> HIDE DEF gone
  <2>5. \A e \in edges' : {tail'[e], head'[e]} \subseteq Node
    BY <2>1, EndsUnchanged
  <2> QED BY <2>1, <2>2, <2>4, <2>5, FreeGraphsType DEF TypeOK
<1>4. ASSUME NEW g \in Graph, Agdelsubg(g) PROVE TypeOK'
  BY <1>4 DEF Agdelsubg, TypeOK, Without
<1>5. ASSUME NEW g \in Graph, NEW s \in Graph, NEW name \in SubgNames,
             AgsubgCreate(g, name, s)
      PROVE  TypeOK'
  <2>1. name \in Name \cup {NULL}
    BY GraphAssumption DEF GraphAssumption
  <2>2. PICK id \in {name, anonCtr} :
          Reserve(name, id) /\ graphId' = [graphId EXCEPT ![s] = id]
    BY <1>5 DEF AgsubgCreate
  <2>3. id \in Id /\ refcnt' \in [Name -> Int] /\ anonCtr' \in Nat
    BY <2>1, <2>2, ReserveType
  <2>4. gDict' \in [Graph -> SUBSET Graph]
    BY <1>5 DEF AgsubgCreate, AddNew, TypeOK
  <2>5. \A e \in edges' : {tail'[e], head'[e]} \subseteq Node
    BY <1>5, EndsUnchanged DEF AgsubgCreate
  <2> QED BY <1>5, <2>2, <2>3, <2>4, <2>5 DEF AgsubgCreate, TypeOK
<1>6. Attached \subseteq Graph
  BY DEF Attached, Visit, Reach
<1> QED BY <1>1, <1>2, <1>3, <1>4, <1>5, <1>6 DEF GraphOp

LEMMA NodeOpType == TypeOK /\ NodeOp => TypeOK'
<1> SUFFICES ASSUME TypeOK, NodeOp PROVE TypeOK'
  OBVIOUS
<1> USE DEF objs, tree, ntags, etags, nsets, esets, ids
<1>1. ASSUME NEW n \in Node, AgdelnodeRoot(n) PROVE TypeOK'
  <2> DEFINE freed == {e \in Incident(Root, n) :
                         FoundEdge(Root, tail[e], head[e], edgeId[e]) # {}}
             S == NodeVisit(Root, n)
             lost == [s \in Graph |->
                        {e \in freed : s \in EdgeVisit(Root, e)}
                          \cup (IF s \in S THEN Incident(s, n) ELSE {})]
  <2>1. /\ DropEdges(lost) /\ DropNode(S, n) /\ FreeIds({}, {n}, freed)
        /\ FreeNodes({n}) /\ FreeEdges(freed)
        /\ UNCHANGED <<graphs, parent, gDict, graphId, seqCtr>>
    BY <1>1 DEF AgdelnodeRoot
  <2>2. freed \in SUBSET Edge
    BY GraphAssumption DEF Incident, TypeOK, GraphAssumption
  <2> HIDE DEF freed, S, lost
  <2>3. refcnt' \in [Name -> Int] /\ anonCtr' \in Nat
    BY <2>1, <2>2, FreeIdsType
  <2> QED BY <2>1, <2>3, DropEdgesType, DropNodeType, FreeNodesType,
             FreeEdgesType DEF TypeOK
<1>2. ASSUME NEW g \in Graph, NEW n \in Node, Agsubnode(g, n) PROVE TypeOK'
  BY <1>2, JoinedType DEF Agsubnode, TypeOK
<1>3. ASSUME NEW g \in Graph, NEW n \in Node, AgdelnodeSubg(g, n) PROVE TypeOK'
  BY <1>3, DropEdgesType, DropNodeType DEF AgdelnodeSubg, TypeOK
<1>4. ASSUME NEW g \in Graph, NEW n \in Node, NEW name \in NodeNames,
             AgnodeCreate(g, name, n)
      PROVE  TypeOK'
  <2>1. name \in Name \cup {NULL}
    BY GraphAssumption DEF GraphAssumption
  <2>2. PICK id \in {name, anonCtr} :
          Reserve(name, id) /\ nodeId' = [nodeId EXCEPT ![n] = id]
    BY <1>4 DEF AgnodeCreate
  <2>3. id \in Id /\ refcnt' \in [Name -> Int] /\ anonCtr' \in Nat
    BY <2>1, <2>2, ReserveType
  <2>4. /\ seqCtr' \in [{"node", "edge"} -> Nat]
        /\ seqCtr'["node"] % SeqMod \in Nat
    BY <1>4, NextSeqType DEF AgnodeCreate
  <2>5. nodeId' \in [Node -> Id] /\ nodeSeq' \in [Node -> Nat]
    BY <1>4, <2>2, <2>3, <2>4 DEF AgnodeCreate, TypeOK
  <2>6. nIdx' \in [Graph -> SUBSET Node] /\ nSeq' \in [Graph -> SUBSET Node]
    BY <1>4, JoinedType DEF AgnodeCreate, TypeOK
  <2> QED BY <1>4, <2>3, <2>4, <2>5, <2>6 DEF AgnodeCreate, TypeOK
<1>5. Attached \subseteq Graph
  BY DEF Attached, Visit, Reach
<1> QED BY <1>1, <1>2, <1>3, <1>4, <1>5 DEF NodeOp

LEMMA EdgeOpType == TypeOK /\ EdgeOp => TypeOK'
<1> SUFFICES ASSUME TypeOK, EdgeOp PROVE TypeOK'
  OBVIOUS
<1> USE DEF objs, tree, ntags, etags, nsets, esets, ids
<1>1. ASSUME NEW e \in Edge, AgdeledgeRoot(e) PROVE TypeOK'
  <2>1. refcnt' \in [Name -> Int] /\ anonCtr' \in Nat
    BY <1>1, FreeIdsType DEF AgdeledgeRoot
  <2> QED BY <1>1, <2>1, DropEdgesType, FreeEdgesType DEF AgdeledgeRoot, TypeOK
<1>2. ASSUME NEW g \in Graph, NEW e \in Edge, Agsubedge(g, e) PROVE TypeOK'
  <2>1. tail[e] \in Node /\ head[e] \in Node
    BY <1>2 DEF Agsubedge, TypeOK
  <2>2. /\ Joined(nIdx, Lacking(g, tail[e]), tail[e], nodeId)
             \in [Graph -> SUBSET Node]
        /\ Joined(nSeq, Lacking(g, tail[e]), tail[e], nodeSeq)
             \in [Graph -> SUBSET Node]
    BY <2>1, JoinedType DEF TypeOK
  <2>3. nIdx' \in [Graph -> SUBSET Node] /\ nSeq' \in [Graph -> SUBSET Node]
    BY <1>2, <2>1, <2>2, JoinedType DEF Agsubedge
  <2> QED BY <1>2, <2>3, InstallEdgeType DEF Agsubedge, InstallOld, TypeOK
<1>3. ASSUME NEW g \in Graph, NEW e \in Edge, AgdeledgeSubg(g, e) PROVE TypeOK'
  BY <1>3, DropEdgesType DEF AgdeledgeSubg, TypeOK
<1>4. ASSUME NEW g \in Graph, NEW e \in Edge, NEW t \in Node, NEW h \in Node,
             NEW name \in EdgeNames, AgedgeSubedge(g, t, h, name, e)
      PROVE  TypeOK'
  BY <1>4, InstallEdgeType DEF AgedgeSubedge, InstallOld, TypeOK
<1>5. ASSUME NEW g \in Graph, NEW e \in Edge, NEW t \in Node, NEW h \in Node,
             NEW name \in EdgeNames, AgedgeCreate(g, t, h, name, e)
      PROVE  TypeOK'
  <2>1. name \in Name \cup {NULL}
    BY GraphAssumption DEF GraphAssumption
  <2>2. PICK id \in {name, anonCtr} :
          Reserve(name, id) /\ edgeId' = [edgeId EXCEPT ![e] = id]
    BY <1>5 DEF AgedgeCreate
  <2>3. id \in Id /\ refcnt' \in [Name -> Int] /\ anonCtr' \in Nat
    BY <2>1, <2>2, ReserveType
  <2>4. /\ seqCtr' \in [{"node", "edge"} -> Nat]
        /\ seqCtr'["edge"] % SeqMod \in Nat
    BY <1>5, NextSeqType DEF AgedgeCreate
  <2>5. /\ edgeId' \in [Edge -> Id] /\ edgeSeq' \in [Edge -> Nat]
        /\ tail' \in [Edge -> Node \cup {NULL}]
        /\ head' \in [Edge -> Node \cup {NULL}]
    BY <1>5, <2>2, <2>3, <2>4 DEF AgedgeCreate, TypeOK
  <2>6. /\ outIdx' \in [Graph -> SUBSET Edge] /\ outSeq' \in [Graph -> SUBSET Edge]
        /\ inIdx' \in [Graph -> SUBSET Edge] /\ inSeq' \in [Graph -> SUBSET Edge]
    BY <1>5, InstallEdgeType DEF AgedgeCreate
  <2> QED BY <1>5, <2>3, <2>4, <2>5, <2>6 DEF AgedgeCreate, TypeOK
<1>6. Attached \subseteq Graph
  BY DEF Attached, Visit, Reach
<1> QED BY <1>1, <1>2, <1>3, <1>4, <1>5, <1>6 DEF EdgeOp

\* Every variable keeps its type, whatever the client does.
THEOREM TypeCorrect == Spec => []TypeOK
<1>1. Init => TypeOK
  BY GraphAssumption DEF Init, TypeOK, Id, NoId, GraphAssumption
<1>2. TypeOK /\ [Next]_vars => TypeOK'
  <2>1. TypeOK /\ UNCHANGED vars => TypeOK'
    BY DEF vars, objs, tree, ntags, etags, nsets, esets, ids, TypeOK
  <2> QED BY <2>1, GraphOpType, NodeOpType, EdgeOpType DEF Next
<1> QED BY <1>1, <1>2, PTL DEF Spec

-----------------------------------------------------------------------------
(* The subgraph tree, for any g_dict d, parent relation u and set of graphs *)
(* in which an object is found.                                            *)

Down(d, g, found) == Reach(Graph, {g}, {p \in Graph \X found : p[2] \in d[p[1]]})
Up(u, g, holders) ==
  Reach(Graph, {g} \ holders,
        {p \in Graph \X (Graph \ holders) : p[2] = u[p[1]]})

LEMMA DownClosed ==
  ASSUME NEW d, NEW g \in Graph, NEW F \in SUBSET Graph
  PROVE  /\ g \in Down(d, g, F)
         /\ Down(d, g, F) \subseteq Graph
         /\ \A p \in Down(d, g, F) : \A s \in d[p] : s \in F => s \in Down(d, g, F)
BY ReachIn, ReachStart, ReachClosed DEF Down

LEMMA DownLeast ==
  ASSUME NEW d, NEW g \in Graph, NEW F \in SUBSET Graph, NEW T, g \in T,
         \A p \in T \cap Graph : \A s \in d[p] : s \in F => s \in T
  PROVE  Down(d, g, F) \subseteq T
<1> DEFINE step == {p \in Graph \X F : p[2] \in d[p[1]]}
<1>1. step \in SUBSET (Graph \X Graph)
  OBVIOUS
<1>2. \A p \in step : p[1] \in T => p[2] \in T
  OBVIOUS
<1>3. {g} \in SUBSET Graph /\ {g} \subseteq T
  OBVIOUS
<1> HIDE DEF step
<1>4. Reach(Graph, {g}, step) \subseteq T
  BY <1>1, <1>2, <1>3, ReachLeast
<1> QED BY <1>4 DEF Down, step

LEMMA DownFrom ==
  ASSUME NEW d, NEW g \in Graph, NEW F \in SUBSET Graph,
         NEW s \in Down(d, g, F), s # g
  PROVE  s \in F /\ \E p \in Down(d, g, F) : s \in d[p]
<1> DEFINE step == {p \in Graph \X F : p[2] \in d[p[1]]}
<1>1. step \in SUBSET (Graph \X Graph) /\ {g} \subseteq Graph /\ s \notin {g}
  OBVIOUS
<1>2. Down(d, g, F) = Reach(Graph, {g}, step)
  BY DEF Down
<1> HIDE DEF step
<1>3. PICK p \in Reach(Graph, {g}, step) : <<p, s>> \in step
  BY <1>1, <1>2, ReachFrom
<1> QED BY <1>2, <1>3 DEF step

LEMMA UpClosed ==
  ASSUME NEW u, NEW g \in Graph, NEW H
  PROVE  /\ g \in Up(u, g, H) \/ g \in H
         /\ Up(u, g, H) \subseteq Graph
         /\ \A s \in Up(u, g, H) :
              u[s] \in Graph => u[s] \in Up(u, g, H) \/ u[s] \in H
<1> DEFINE step == {p \in Graph \X (Graph \ H) : p[2] = u[p[1]]}
<1>1. ASSUME NEW s \in Up(u, g, H), u[s] \in Graph, u[s] \notin H
      PROVE  u[s] \in Up(u, g, H)
  <2>1. s \in Graph
    BY ReachIn DEF Up
  <2>2. <<s, u[s]>> \in step
    BY <1>1, <2>1
  <2> HIDE DEF step
  <2> QED BY <1>1, <2>2, ReachClosed DEF Up, step
<1>2. g \in Up(u, g, H) \/ g \in H
  BY ReachStart DEF Up
<1> QED BY <1>1, <1>2, ReachIn DEF Up

LEMMA UpLeast ==
  ASSUME NEW u, NEW g \in Graph, NEW H, NEW T, g \in T \cup H,
         \A s \in T \cap Graph : u[s] \in Graph => u[s] \in T \cup H
  PROVE  Up(u, g, H) \subseteq T \ H
<1> DEFINE step == {p \in Graph \X (Graph \ H) : p[2] = u[p[1]]}
<1>1. step \in SUBSET (Graph \X Graph)
  OBVIOUS
<1>2. \A p \in step : p[1] \in T \ H => p[2] \in T \ H
  OBVIOUS
<1>3. {g} \ H \in SUBSET Graph /\ {g} \ H \subseteq T \ H
  OBVIOUS
<1> HIDE DEF step
<1>4. Reach(Graph, {g} \ H, step) \subseteq T \ H
  BY <1>1, <1>2, <1>3, ReachLeast
<1> QED BY <1>4 DEF Up, step
-----------------------------------------------------------------------------
(* The inductive invariant.                                                *)

\* Every entry of a g_dict is an allocated subgraph whose parent has it.
Tree ==
  /\ parent[Root] = NULL
  /\ \A p \in Graph : \A s \in gDict[p] : s \in graphs \ {Root} /\ parent[s] = p

\* What is not allocated has empty sets.
Cleared ==
  \A g \in Graph \ graphs :
    /\ gDict[g] = {}
    /\ nIdx[g] = {} /\ nSeq[g] = {}
    /\ outIdx[g] = {} /\ outSeq[g] = {} /\ inIdx[g] = {} /\ inSeq[g] = {}

\* The root holds every node and every edge.
Owned ==
  /\ nodes = IF Root \in graphs THEN nIdx[Root] ELSE {}
  /\ edges = IF Root \in graphs THEN inIdx[Root] ELSE {}

\* No two live nodes have one sequence number, nor two live edges.
Numbered ==
  /\ \A k \in {"node", "edge"} : seqCtr[k] <= MaxSeq
  /\ \A n \in nodes : nodeSeq[n] <= seqCtr["node"]
  /\ \A m, n \in nodes : nodeSeq[m] = nodeSeq[n] => m = n
  /\ \A e \in edges : edgeSeq[e] <= seqCtr["edge"]
  /\ \A e, f \in edges : edgeSeq[e] = edgeSeq[f] => e = f

\* Nobody has the next anonymous id yet.
AnonymousNew ==
  /\ \A g \in graphs : graphId[g] \in Int => graphId[g] < anonCtr
  /\ \A n \in nodes : nodeId[n] \in Int => nodeId[n] < anonCtr
  /\ \A e \in edges : edgeId[e] \in Int => edgeId[e] < anonCtr

\* The subgraphs of one graph have different ids.
SiblingsDiffer ==
  \A p \in Graph : \A r, s \in gDict[p] : graphId[r] = graphId[s] => r = s

Uses(S, id, x) == Cardinality({o \in S : id[o] = x})

References(x) ==
  Uses(Attached, graphId, x) + Uses(nodes, nodeId, x) + Uses(edges, edgeId, x)

\* A name has at least the references of the objects a client can reach, and
\* no more, unless the client has cut off a subgraph.
NamesHeld ==
  /\ \A x \in Name : refcnt[x] >= References(x)
  /\ ~ClientDetaches => /\ graphs = Attached
                       /\ \A x \in Name : refcnt[x] = References(x)

Inv ==
  /\ TypeOK /\ Tree /\ Cleared /\ Owned /\ SetsSound
  /\ Numbered /\ AnonymousNew /\ SiblingsDiffer /\ UniqueIds /\ NamesHeld
-----------------------------------------------------------------------------
(* What the invariant says of the graphs that can be reached.              *)

LEMMA VisitIsDown == \A g, F : Visit(g, F) = Down(gDict, g, F)
BY DEF Visit, Down

LEMMA ClimbIsUp == \A g, H : Climb(g, H) = Up(parent, g, H)
BY DEF Climb, Up

\* The reachable graphs are closed towards subgraphs, and towards parents.
ReachableClosed ==
  /\ Attached \subseteq graphs \cap Graph
  /\ Attached # {} => Root \in Attached
  /\ Root \in Attached <=> Root \in graphs
  /\ \A p \in Attached : \A s \in gDict[p] :
       s \in Attached /\ s # Root /\ parent[s] = p
  /\ \A s \in Attached \ {Root} : parent[s] \in Attached /\ s \in gDict[parent[s]]

LEMMA Reachable == TypeOK /\ Tree => ReachableClosed
<1> SUFFICES ASSUME TypeOK, Tree PROVE ReachableClosed
  OBVIOUS
<1>1. CASE Root \notin graphs
  BY <1>1 DEF Attached, ReachableClosed
<1>2. CASE Root \in graphs
  <2>1. Attached = Down(gDict, Root, Graph)
    BY <1>2, VisitIsDown DEF Attached
  <2>2. Root \in Graph
    BY GraphAssumption DEF GraphAssumption
  <2>3. /\ Root \in Attached /\ Attached \subseteq Graph
        /\ \A p \in Attached : \A s \in gDict[p] : s \in Graph => s \in Attached
    BY <2>1, <2>2, DownClosed
  <2>4. \A p \in Attached : \A s \in gDict[p] :
          s \in Attached /\ s # Root /\ parent[s] = p /\ s \in graphs
    BY <2>3 DEF Tree, TypeOK
  <2>5. ASSUME NEW s \in Attached \ {Root}
        PROVE  parent[s] \in Attached /\ s \in gDict[parent[s]]
    <3>1. PICK p \in Down(gDict, Root, Graph) : s \in gDict[p]
      BY <2>1, <2>2, DownFrom
    <3> QED BY <3>1, <2>1, <2>4
  <2> QED BY <1>2, <2>3, <2>4, <2>5 DEF ReachableClosed
<1> QED BY <1>1, <1>2

\* What a reachable graph holds, the root holds.
LEMMA HeldByRoot ==
  ASSUME TypeOK, Tree, SetsSound, Root \in graphs, NEW g \in Attached
  PROVE  nIdx[g] \subseteq nIdx[Root] /\ inIdx[g] \subseteq inIdx[Root]
<1> DEFINE T == {s \in Attached : nIdx[s] \subseteq nIdx[Root] /\ inIdx[s] \subseteq inIdx[Root]}
<1>1. ReachableClosed
  BY Reachable
<1>2. Attached = Down(gDict, Root, Graph) /\ Root \in Graph
  BY VisitIsDown, GraphAssumption DEF Attached, GraphAssumption
<1>3. Root \in T
  BY <1>1 DEF ReachableClosed
<1>4. \A p \in T : \A s \in gDict[p] : s \in T
  BY <1>1 DEF ReachableClosed, SetsSound, SubgraphContainment
<1> HIDE DEF T
<1>5. Down(gDict, Root, Graph) \subseteq T
  BY <1>2, <1>3, <1>4, DownLeast
<1> QED BY <1>2, <1>5 DEF T

LEMMA Primed == ASSUME TypeOK', Tree' PROVE ReachableClosed'
<1>1. (TypeOK /\ Tree => ReachableClosed)'
  BY Reachable, PTL
<1> QED BY <1>1
LEMMA RootIsGraph == Root \in Graph
BY GraphAssumption DEF GraphAssumption

\* The sets of a reachable graph hold live nodes and edges, and both
\* endpoints of an edge.
LEMMA LiveMembers ==
  ASSUME Inv, NEW g \in Attached
  PROVE  /\ Root \in graphs
         /\ nodes = nIdx[Root] /\ edges = inIdx[Root]
         /\ nIdx[g] \subseteq nodes /\ nSeq[g] = nIdx[g]
         /\ inIdx[g] \subseteq edges /\ inSeq[g] = inIdx[g]
         /\ outIdx[g] = inIdx[g] /\ outSeq[g] = inIdx[g]
         /\ \A e \in inIdx[g] : tail[e] \in nIdx[g] /\ head[e] \in nIdx[g]
<1>1. Root \in graphs
  BY DEF Attached
<1>2. nodes = nIdx[Root] /\ edges = inIdx[Root]
  BY <1>1 DEF Inv, Owned
<1>3. /\ nIdx[g] \subseteq nodes /\ nSeq[g] = nIdx[g]
      /\ inIdx[g] \subseteq edges /\ inSeq[g] = inIdx[g]
      /\ outIdx[g] = inIdx[g] /\ outSeq[g] = inIdx[g]
  BY DEF Inv, SetsSound, NoDangling, IndexesAgree
<1>4. \A e \in inIdx[g] : tail[e] \in nIdx[g] /\ head[e] \in nIdx[g]
  BY DEF Inv, SetsSound, EndpointsPresent
<1> QED BY <1>1, <1>2, <1>3, <1>4

LEMMA LiveEnds ==
  ASSUME Inv
  PROVE  \A e \in edges : e \in Edge /\ tail[e] \in nodes /\ head[e] \in nodes
<1>1. CASE Root \in graphs
  <2>1. Root \in Attached
    BY <1>1, Reachable DEF ReachableClosed, Inv
  <2> QED BY <2>1, LiveMembers DEF Inv, TypeOK
<1>2. CASE Root \notin graphs
  BY <1>2 DEF Inv, Owned
<1> QED BY <1>1, <1>2

\* Live nodes are told apart by their ids.
LEMMA NodeById ==
  ASSUME Inv, NEW m \in nodes, NEW n \in nodes, nodeId[m] = nodeId[n]
  PROVE  m = n
BY DEF Inv, UniqueIds

\* Live edges are told apart by each of the four keys.
LEMMA EdgeByKey ==
  ASSUME Inv, NEW e \in edges, NEW f \in edges
  PROVE  /\ tail[e] = tail[f] /\ nodeId[head[e]] = nodeId[head[f]] /\ edgeId[e] = edgeId[f] => e = f
         /\ head[e] = head[f] /\ nodeId[tail[e]] = nodeId[tail[f]] /\ edgeId[e] = edgeId[f] => e = f
         /\ edgeSeq[e] = edgeSeq[f] => e = f
<1>1. /\ nodeId[head[e]] = nodeId[head[f]] => head[e] = head[f]
      /\ nodeId[tail[e]] = nodeId[tail[f]] => tail[e] = tail[f]
  BY LiveEnds, NodeById
<1> QED BY <1>1 DEF Inv, UniqueIds, MultiEdge, Numbered

LEMMA FoundNodeIs ==
  ASSUME Inv, NEW g \in Attached, NEW n \in nodes
  PROVE  FoundNode(g, nodeId[n]) = {n} \cap nIdx[g]
BY LiveMembers, NodeById DEF FoundNode

LEMMA FoundEdgeIs ==
  ASSUME Inv, NEW g \in Attached, NEW e \in edges
  PROVE  FoundEdge(g, tail[e], head[e], edgeId[e]) = {e} \cap inIdx[g]
BY LiveMembers, EdgeByKey DEF FoundEdge

LEMMA NodeHolders ==
  ASSUME Inv, NEW n \in nodes
  PROVE  HoldersOfNode(n) = {g \in Attached : n \in nIdx[g]}
BY FoundNodeIs DEF HoldersOfNode

LEMMA EdgeHolders ==
  ASSUME Inv, NEW e \in edges
  PROVE  HoldersOfEdge(tail[e], head[e], edgeId[e]) = {g \in Attached : e \in inIdx[g]}
BY FoundEdgeIs DEF HoldersOfEdge
-----------------------------------------------------------------------------
(* The two walks, from a graph that can be reached.                        *)

\* Upward: from g to the first graph that holds the object.
LEMMA ClimbFacts ==
  ASSUME TypeOK, Tree, NEW g \in Attached, NEW H
  PROVE  /\ Climb(g, H) \subseteq Attached \ H
         /\ g \in Climb(g, H) \/ g \in H
         /\ \A s \in Climb(g, H) \ {Root} : parent[s] \in Climb(g, H) \/ parent[s] \in H
<1>1. ReachableClosed
  BY Reachable
<1>2. g \in Graph
  BY <1>1 DEF ReachableClosed
<1>3. \A s \in Attached \cap Graph : parent[s] \in Graph => parent[s] \in Attached \cup H
  BY <1>1, GraphAssumption DEF ReachableClosed, Tree, GraphAssumption
<1>4. Up(parent, g, H) \subseteq Attached \ H
  BY <1>2, <1>3, UpLeast
<1>5. \A s \in Up(parent, g, H) \ {Root} : parent[s] \in Graph
  BY <1>1, <1>4 DEF ReachableClosed
<1> QED BY <1>2, <1>4, <1>5, UpClosed, ClimbIsUp

\* Downward: from g through the graphs that hold the object.
LEMMA VisitFacts ==
  ASSUME TypeOK, Tree, NEW g \in Attached, NEW F \in SUBSET Graph
  PROVE  /\ Visit(g, F) \subseteq Attached
         /\ g \in Visit(g, F)
         /\ \A p \in Visit(g, F) : \A s \in gDict[p] : s \in F => s \in Visit(g, F)
         /\ \A s \in Visit(g, F) \ {g} :
              s \in F /\ s # Root /\ parent[s] \in Visit(g, F) /\ s \in gDict[parent[s]]
<1>1. ReachableClosed
  BY Reachable
<1>2. g \in Graph
  BY <1>1 DEF ReachableClosed
<1>3. \A p \in Attached \cap Graph : \A s \in gDict[p] : s \in F => s \in Attached
  BY <1>1 DEF ReachableClosed
<1>4. Down(gDict, g, F) \subseteq Attached
  BY <1>2, <1>3, DownLeast
<1>5. /\ g \in Down(gDict, g, F)
      /\ \A p \in Down(gDict, g, F) : \A s \in gDict[p] : s \in F => s \in Down(gDict, g, F)
  BY <1>2, DownClosed
<1>6. ASSUME NEW s \in Down(gDict, g, F), s # g
      PROVE  s \in F /\ s # Root /\ parent[s] \in Down(gDict, g, F) /\ s \in gDict[parent[s]]
  <2>1. s \in F /\ \E p \in Down(gDict, g, F) : s \in gDict[p]
    BY <1>2, <1>6, DownFrom
  <2> QED BY <2>1, <1>1, <1>4 DEF ReachableClosed
<1> QED BY <1>4, <1>5, <1>6, VisitIsDown

\* An object is found in every graph below g that holds it, and by the walk.
LEMMA VisitAll ==
  ASSUME TypeOK, Tree, NEW g \in Attached, NEW F \in SUBSET Graph,
         \A p \in Attached : \A s \in gDict[p] : s \in F => p \in F
  PROVE  \A s \in Visit(g, Graph) : s \in F => s \in Visit(g, F)
<1> DEFINE T == {s \in Visit(g, Graph) : s \in F => s \in Visit(g, F)}
<1>1. g \in T /\ g \in Graph
  BY VisitFacts, Reachable DEF ReachableClosed
<1>2. \A p \in T \cap Graph : \A s \in gDict[p] : s \in Graph => s \in T
  BY VisitFacts
<1> HIDE DEF T
<1>3. Down(gDict, g, Graph) \subseteq T
  BY <1>1, <1>2, DownLeast
<1> QED BY <1>3, VisitIsDown DEF T

-----------------------------------------------------------------------------
(* What a deletion takes from the set of a reachable graph is what it is   *)
(* asked to take, whatever the key; what an insertion adds is the object.  *)

LEMMA NodesGone ==
  ASSUME Inv, NEW g \in Attached, NEW n \in nodes
  PROVE  /\ Without(nIdx[g], {n}, nodeId) = nIdx[g] \ {n}
         /\ Without(nSeq[g], {n}, nodeSeq) = nIdx[g] \ {n}
<1>1. \A m \in nodes : nodeSeq[m] = nodeSeq[n] => m = n
  BY DEF Inv, Numbered
<1> QED BY <1>1, LiveMembers, NodeById DEF Without

LEMMA EdgesGone ==
  ASSUME Inv, NEW g \in Attached, NEW L \in SUBSET edges
  PROVE  /\ Without(outIdx[g], L, EdgeKey(tail, head, edgeId)) = inIdx[g] \ L
         /\ Without(outSeq[g], L, EdgeKey(tail, head, edgeSeq)) = inIdx[g] \ L
         /\ Without(inIdx[g], L, EdgeKey(head, tail, edgeId)) = inIdx[g] \ L
         /\ Without(inSeq[g], L, EdgeKey(head, tail, edgeSeq)) = inIdx[g] \ L
<1>1. inIdx[g] \subseteq edges /\ edges \subseteq Edge
  BY LiveMembers DEF Inv, TypeOK
<1>2. ASSUME NEW e \in inIdx[g], NEW f \in L, e # f
      PROVE  /\ EdgeKey(tail, head, edgeId)[e] # EdgeKey(tail, head, edgeId)[f]
             /\ EdgeKey(tail, head, edgeSeq)[e] # EdgeKey(tail, head, edgeSeq)[f]
             /\ EdgeKey(head, tail, edgeId)[e] # EdgeKey(head, tail, edgeId)[f]
             /\ EdgeKey(head, tail, edgeSeq)[e] # EdgeKey(head, tail, edgeSeq)[f]
  <2>1. e \in edges /\ f \in edges /\ e \in Edge /\ f \in Edge
    BY <1>1
  <2> QED BY <2>1, <1>2, EdgeByKey DEF EdgeKey
<1>3. /\ outIdx[g] = inIdx[g] /\ outSeq[g] = inIdx[g] /\ inSeq[g] = inIdx[g]
  BY LiveMembers
<1>4. ASSUME NEW key, \A e \in inIdx[g], f \in L : e # f => key[e] # key[f]
      PROVE  Without(inIdx[g], L, key) = inIdx[g] \ L
  BY <1>4 DEF Without
<1>5. /\ Without(inIdx[g], L, EdgeKey(tail, head, edgeId)) = inIdx[g] \ L
      /\ Without(inIdx[g], L, EdgeKey(tail, head, edgeSeq)) = inIdx[g] \ L
      /\ Without(inIdx[g], L, EdgeKey(head, tail, edgeId)) = inIdx[g] \ L
      /\ Without(inIdx[g], L, EdgeKey(head, tail, edgeSeq)) = inIdx[g] \ L
  BY <1>2, <1>4
<1> QED BY <1>3, <1>5

LEMMA JoinedElsewhere ==
  ASSUME NEW sets, NEW S, NEW x, NEW key, NEW g \in Graph, g \notin S
  PROVE  Joined(sets, S, x, key)[g] = sets[g]
BY DEF Joined

-----------------------------------------------------------------------------
(* Steps that change only the sets of nodes and edges.                     *)

LEMMA SetsOnly ==
  ASSUME Inv, TypeOK', UNCHANGED <<objs, tree, ntags, etags, ids, seqCtr>>,
         \A g \in Graph \ Attached :
           /\ nIdx'[g] = nIdx[g] /\ nSeq'[g] = nSeq[g]
           /\ outIdx'[g] = outIdx[g] /\ outSeq'[g] = outSeq[g]
           /\ inIdx'[g] = inIdx[g] /\ inSeq'[g] = inSeq[g],
         \A g \in Attached :
           /\ nSeq'[g] = nIdx'[g] /\ outIdx'[g] = inIdx'[g]
           /\ outSeq'[g] = inIdx'[g] /\ inSeq'[g] = inIdx'[g],
         Root \in Attached => nIdx'[Root] = nIdx[Root] /\ inIdx'[Root] = inIdx[Root],
         \A g \in Attached \ {Root} :
           nIdx'[g] \subseteq nIdx'[parent[g]] /\ inIdx'[g] \subseteq inIdx'[parent[g]],
         \A g \in Attached : \A e \in inIdx'[g] : {tail[e], head[e]} \subseteq nIdx'[g],
         \A g \in Attached : nIdx'[g] \subseteq nodes /\ inIdx'[g] \subseteq edges
  PROVE  Inv'
<1> USE DEF objs, tree, ntags, etags, ids
<1>1. Attached' = Attached
  BY DEF Attached, Visit
<1>2. ReachableClosed
  BY Reachable DEF Inv
<1>3. Tree' /\ SiblingsDiffer'
  BY DEF Inv, Tree, SiblingsDiffer
<1>4. Cleared'
  BY <1>2 DEF Inv, Cleared, ReachableClosed
<1>5. Owned'
  BY <1>2 DEF Inv, Owned, ReachableClosed
<1>6. SetsSound'
  BY <1>1, <1>2 DEF SetsSound, IndexesAgree, SubgraphContainment, EndpointsPresent,
     NoDangling, ReachableClosed
<1>7. Numbered' /\ AnonymousNew' /\ UniqueIds'
  BY DEF Inv, Numbered, AnonymousNew, UniqueIds, MultiEdge
<1>8. NamesHeld'
  BY <1>1 DEF Inv, NamesHeld, References, Uses
<1> QED BY <1>3, <1>4, <1>5, <1>6, <1>7, <1>8 DEF Inv

LEMMA NodesJoined ==
  ASSUME Inv, NEW n \in nodes, NEW sets, NEW S, NEW x \in Graph, sets[x] \subseteq nodes
  PROVE  /\ x \in S => /\ Joined(sets, S, n, nodeId)[x] = sets[x] \cup {n}
                       /\ Joined(sets, S, n, nodeSeq)[x] = sets[x] \cup {n}
         /\ x \notin S => /\ Joined(sets, S, n, nodeId)[x] = sets[x]
                          /\ Joined(sets, S, n, nodeSeq)[x] = sets[x]
<1>1. /\ \A m \in nodes : nodeId[m] = nodeId[n] => m = n
      /\ \A m \in nodes : nodeSeq[m] = nodeSeq[n] => m = n
  BY DEF Inv, UniqueIds, Numbered
<1>2. AddNew(sets[x], n, nodeId) = sets[x] \cup {n}
  BY <1>1 DEF AddNew
<1>3. AddNew(sets[x], n, nodeSeq) = sets[x] \cup {n}
  BY <1>1 DEF AddNew
<1> QED BY <1>2, <1>3 DEF Joined

\* agsubnode inserts n into g and into every graph above it that lacks it.
LEMMA LackingFacts ==
  ASSUME Inv, NEW g \in Attached, NEW n \in nodes
  PROVE  /\ Lacking(g, n) \subseteq Attached
         /\ \A s \in Lacking(g, n) : n \notin nIdx[s]
         /\ g \in Lacking(g, n) \/ n \in nIdx[g]
         /\ \A s \in Lacking(g, n) \ {Root} :
              parent[s] \in Lacking(g, n) \/ n \in nIdx[parent[s]]
<1> DEFINE H == {s \in Attached : n \in nIdx[s]}
<1>1. Lacking(g, n) = Climb(g, H)
  BY NodeHolders DEF Lacking
<1>2. TypeOK /\ Tree
  BY DEF Inv
<1> HIDE DEF H
<1>3. /\ Climb(g, H) \subseteq Attached \ H
      /\ g \in Climb(g, H) \/ g \in H
      /\ \A s \in Climb(g, H) \ {Root} : parent[s] \in Climb(g, H) \/ parent[s] \in H
  BY <1>2, ClimbFacts
<1> QED BY <1>1, <1>3 DEF H

LEMMA AgsubnodeSafe ==
  ASSUME Inv, TypeOK', NEW g \in Attached, NEW n \in Node, Agsubnode(g, n)
  PROVE  Inv'
<1> DEFINE S == Lacking(g, n)
<1>1. /\ ReachableClosed /\ TypeOK /\ Tree /\ SetsSound
  BY Reachable DEF Inv
<1>2. Root \in Attached /\ n \in nodes /\ n \in nIdx[Root]
  BY <1>1, LiveMembers DEF Agsubnode, ReachableClosed
<1>3. \A x \in Attached : x \in Graph /\ nIdx[x] \subseteq nodes /\ nSeq[x] = nIdx[x]
  BY <1>1, LiveMembers DEF ReachableClosed
<1>4. /\ nIdx' = Joined(nIdx, S, n, nodeId) /\ nSeq' = Joined(nSeq, S, n, nodeSeq)
      /\ UNCHANGED <<objs, tree, ntags, etags, esets, ids, seqCtr>>
  BY DEF Agsubnode
<1>5. /\ S \subseteq Attached
      /\ \A s \in S : n \notin nIdx[s]
      /\ \A s \in S \ {Root} : parent[s] \in S \/ n \in nIdx[parent[s]]
  BY <1>2, LackingFacts
<1> HIDE DEF S
<1>6. ASSUME NEW x \in Attached
      PROVE  /\ nIdx'[x] = IF x \in S THEN nIdx[x] \cup {n} ELSE nIdx[x]
             /\ nSeq'[x] = nIdx'[x]
  <2>1. x \in Graph /\ nIdx[x] \subseteq nodes /\ nSeq[x] \subseteq nodes
    BY <1>3
  <2>2. CASE x \in S
    <3>1. Joined(nIdx, S, n, nodeId)[x] = nIdx[x] \cup {n}
      BY <2>1, <2>2, <1>2, NodesJoined
    <3>2. Joined(nSeq, S, n, nodeSeq)[x] = nSeq[x] \cup {n}
      BY <2>1, <2>2, <1>2, NodesJoined
    <3> QED BY <3>1, <3>2, <2>2, <1>3, <1>4
  <2>3. CASE x \notin S
    BY <2>1, <2>3, <1>2, <1>3, <1>4, NodesJoined
  <2> QED BY <2>2, <2>3
<1>7. UNCHANGED <<outIdx, outSeq, inIdx, inSeq>>
  BY <1>4 DEF esets
<1>8. \A x \in Graph \ Attached :
        /\ nIdx'[x] = nIdx[x] /\ nSeq'[x] = nSeq[x]
        /\ outIdx'[x] = outIdx[x] /\ outSeq'[x] = outSeq[x]
        /\ inIdx'[x] = inIdx[x] /\ inSeq'[x] = inSeq[x]
  BY <1>4, <1>5, <1>7, JoinedElsewhere
<1>9. \A x \in Attached :
        /\ nSeq'[x] = nIdx'[x] /\ outIdx'[x] = inIdx'[x]
        /\ outSeq'[x] = inIdx'[x] /\ inSeq'[x] = inIdx'[x]
  BY <1>6, <1>7, LiveMembers
<1>10. Root \in Attached => nIdx'[Root] = nIdx[Root] /\ inIdx'[Root] = inIdx[Root]
  BY <1>2, <1>6, <1>7
<1>11. \A x \in Attached \ {Root} :
         nIdx'[x] \subseteq nIdx'[parent[x]] /\ inIdx'[x] \subseteq inIdx'[parent[x]]
  <2> TAKE x \in Attached \ {Root}
  <2>1. /\ parent[x] \in Attached /\ nIdx[x] \subseteq nIdx[parent[x]]
        /\ inIdx[x] \subseteq inIdx[parent[x]]
    BY <1>1 DEF SetsSound, SubgraphContainment
  <2>2. nIdx[parent[x]] \subseteq nIdx'[parent[x]]
    BY <2>1, <1>6
  <2>3. x \in S => n \in nIdx'[parent[x]]
    BY <2>1, <1>5, <1>6
  <2> QED BY <2>1, <2>2, <2>3, <1>6, <1>7
<1>12. \A x \in Attached : \A e \in inIdx'[x] : {tail[e], head[e]} \subseteq nIdx'[x]
  <2> TAKE x \in Attached
  <2>1. nIdx[x] \subseteq nIdx'[x]
    BY <1>6
  <2>2. \A e \in inIdx[x] : tail[e] \in nIdx[x] /\ head[e] \in nIdx[x]
    BY LiveMembers
  <2> QED BY <2>1, <2>2, <1>7
<1>13. \A x \in Attached : nIdx'[x] \subseteq nodes /\ inIdx'[x] \subseteq edges
  BY <1>2, <1>3, <1>6, <1>7, LiveMembers
<1>14. UNCHANGED <<objs, tree, ntags, etags, ids, seqCtr>>
  BY <1>4
<1> QED BY <1>8, <1>9, <1>10, <1>11, <1>12, <1>13, <1>14, SetsOnly

\* The walks of agapply for a node and for an edge find all that holds it.
LEMMA NodeVisitFacts ==
  ASSUME Inv, NEW g \in Attached, NEW n \in nodes
  PROVE  /\ NodeVisit(g, n) \subseteq Attached
         /\ g \in NodeVisit(g, n)
         /\ \A p \in NodeVisit(g, n) : \A s \in gDict[p] :
              n \in nIdx[s] => s \in NodeVisit(g, n)
         /\ \A s \in NodeVisit(g, n) \ {g} : n \in nIdx[s] /\ s # Root
         /\ \A s \in Visit(g, Graph) : n \in nIdx[s] => s \in NodeVisit(g, n)
<1> DEFINE F == {s \in Attached : n \in nIdx[s]}
<1>1. NodeVisit(g, n) = Visit(g, F)
  BY NodeHolders DEF NodeVisit
<1>2. TypeOK /\ Tree /\ ReachableClosed /\ SetsSound
  BY Reachable DEF Inv
<1>3. F \in SUBSET Graph
  BY <1>2 DEF ReachableClosed
<1>4. \A p \in Attached : \A s \in gDict[p] : s \in F => p \in F
  BY <1>2 DEF ReachableClosed, SetsSound, SubgraphContainment
<1>5. \A p \in Attached : \A s \in gDict[p] : n \in nIdx[s] => s \in F
  BY <1>2 DEF ReachableClosed
<1>6. Visit(g, Graph) \subseteq Attached
  BY <1>2, VisitFacts
<1>7. \A s \in F : n \in nIdx[s]
  OBVIOUS
<1>8. \A s \in Attached : n \in nIdx[s] => s \in F
  OBVIOUS
<1> HIDE DEF F
<1>9. \A s \in Visit(g, Graph) : s \in F => s \in Visit(g, F)
  BY <1>2, <1>3, <1>4, VisitAll
<1>10. /\ Visit(g, F) \subseteq Attached /\ g \in Visit(g, F)
       /\ \A p \in Visit(g, F) : \A s \in gDict[p] : s \in F => s \in Visit(g, F)
       /\ \A s \in Visit(g, F) \ {g} : s \in F /\ s # Root
  BY <1>2, <1>3, VisitFacts
<1> QED BY <1>1, <1>5, <1>6, <1>7, <1>8, <1>9, <1>10

LEMMA EdgeVisitFacts ==
  ASSUME Inv, NEW g \in Attached, NEW e \in edges
  PROVE  /\ EdgeVisit(g, e) \subseteq Attached
         /\ g \in EdgeVisit(g, e)
         /\ \A p \in EdgeVisit(g, e) : \A s \in gDict[p] :
              e \in inIdx[s] => s \in EdgeVisit(g, e)
         /\ \A s \in EdgeVisit(g, e) \ {g} : e \in inIdx[s] /\ s # Root
         /\ \A s \in Visit(g, Graph) : e \in inIdx[s] => s \in EdgeVisit(g, e)
<1> DEFINE F == {s \in Attached : e \in inIdx[s]}
<1>1. EdgeVisit(g, e) = Visit(g, F)
  BY EdgeHolders DEF EdgeVisit
<1>2. TypeOK /\ Tree /\ ReachableClosed /\ SetsSound
  BY Reachable DEF Inv
<1>3. F \in SUBSET Graph
  BY <1>2 DEF ReachableClosed
<1>4. \A p \in Attached : \A s \in gDict[p] : s \in F => p \in F
  BY <1>2 DEF ReachableClosed, SetsSound, SubgraphContainment
<1>5. \A p \in Attached : \A s \in gDict[p] : e \in inIdx[s] => s \in F
  BY <1>2 DEF ReachableClosed
<1>6. Visit(g, Graph) \subseteq Attached
  BY <1>2, VisitFacts
<1>7. \A s \in F : e \in inIdx[s]
  OBVIOUS
<1>8. \A s \in Attached : e \in inIdx[s] => s \in F
  OBVIOUS
<1> HIDE DEF F
<1>9. \A s \in Visit(g, Graph) : s \in F => s \in Visit(g, F)
  BY <1>2, <1>3, <1>4, VisitAll
<1>10. /\ Visit(g, F) \subseteq Attached /\ g \in Visit(g, F)
       /\ \A p \in Visit(g, F) : \A s \in gDict[p] : s \in F => s \in Visit(g, F)
       /\ \A s \in Visit(g, F) \ {g} : s \in F /\ s # Root
  BY <1>2, <1>3, VisitFacts
<1> QED BY <1>1, <1>5, <1>6, <1>7, <1>8, <1>9, <1>10

LEMMA DropEdgesIs ==
  ASSUME Inv, NEW lost, DropEdges(lost),
         \A x \in Graph : lost[x] \subseteq edges,
         \A x \in Graph \ Attached : lost[x] = {}
  PROVE  /\ \A x \in Attached :
              /\ inIdx'[x] = inIdx[x] \ lost[x]
              /\ outIdx'[x] = inIdx'[x] /\ outSeq'[x] = inIdx'[x] /\ inSeq'[x] = inIdx'[x]
         /\ \A x \in Graph \ Attached :
              /\ outIdx'[x] = outIdx[x] /\ outSeq'[x] = outSeq[x]
              /\ inIdx'[x] = inIdx[x] /\ inSeq'[x] = inSeq[x]
<1>1. \A x \in Attached : x \in Graph
  BY Reachable DEF Inv, ReachableClosed
<1>2. ASSUME NEW x \in Attached
      PROVE  /\ inIdx'[x] = inIdx[x] \ lost[x]
             /\ outIdx'[x] = inIdx'[x] /\ outSeq'[x] = inIdx'[x] /\ inSeq'[x] = inIdx'[x]
  <2>1. lost[x] \in SUBSET edges /\ x \in Graph
    BY <1>1
  <2>2. /\ Without(outIdx[x], lost[x], EdgeKey(tail, head, edgeId)) = inIdx[x] \ lost[x]
        /\ Without(outSeq[x], lost[x], EdgeKey(tail, head, edgeSeq)) = inIdx[x] \ lost[x]
        /\ Without(inIdx[x], lost[x], EdgeKey(head, tail, edgeId)) = inIdx[x] \ lost[x]
        /\ Without(inSeq[x], lost[x], EdgeKey(head, tail, edgeSeq)) = inIdx[x] \ lost[x]
    BY <2>1, EdgesGone
  <2> QED BY <2>1, <2>2 DEF DropEdges
<1>3. ASSUME NEW x \in Graph, lost[x] = {}
      PROVE  /\ outIdx'[x] = outIdx[x] /\ outSeq'[x] = outSeq[x]
             /\ inIdx'[x] = inIdx[x] /\ inSeq'[x] = inSeq[x]
  BY <1>3 DEF DropEdges, Without
<1> QED BY <1>2, <1>3

LEMMA DropNodeIs ==
  ASSUME Inv, NEW n \in nodes, NEW S \in SUBSET Attached, DropNode(S, n)
  PROVE  /\ \A x \in Attached :
              /\ x \in S => nIdx'[x] = nIdx[x] \ {n}
              /\ x \notin S => nIdx'[x] = nIdx[x]
              /\ nSeq'[x] = nIdx'[x]
         /\ \A x \in Graph \ Attached : nIdx'[x] = nIdx[x] /\ nSeq'[x] = nSeq[x]
<1>1. \A x \in Attached : x \in Graph /\ nSeq[x] = nIdx[x]
  BY Reachable, LiveMembers DEF Inv, ReachableClosed
<1> QED BY <1>1, NodesGone DEF DropNode

LEMMA IncidentIs ==
  ASSUME Inv, NEW g \in Attached, NEW n
  PROVE  Incident(g, n) = {e \in inIdx[g] : n \in {tail[e], head[e]}}
BY LiveMembers DEF Incident

\* agdelnode in a subgraph takes n, and the edges of n, from the graphs it visits.
LEMMA AgdelnodeSubgIs ==
  ASSUME Inv, NEW g \in Attached, NEW n \in Node, AgdelnodeSubg(g, n)
  PROVE  /\ n \in nodes /\ g # Root
         /\ \A x \in Attached :
              /\ \A m : m \in nIdx'[x] <=> m \in nIdx[x] /\ ~(x \in NodeVisit(g, n) /\ m = n)
              /\ \A e : e \in inIdx'[x] <=>
                   e \in inIdx[x] /\ ~(x \in NodeVisit(g, n) /\ n \in {tail[e], head[e]})
              /\ nSeq'[x] = nIdx'[x] /\ outIdx'[x] = inIdx'[x]
              /\ outSeq'[x] = inIdx'[x] /\ inSeq'[x] = inIdx'[x]
         /\ \A x \in Graph \ Attached :
              /\ nIdx'[x] = nIdx[x] /\ nSeq'[x] = nSeq[x]
              /\ outIdx'[x] = outIdx[x] /\ outSeq'[x] = outSeq[x]
              /\ inIdx'[x] = inIdx[x] /\ inSeq'[x] = inSeq[x]
         /\ UNCHANGED <<objs, tree, ntags, etags, ids, seqCtr>>
<1> DEFINE S == NodeVisit(g, n)
           lost == [s \in Graph |-> IF s \in S THEN Incident(s, n) ELSE {}]
<1>1. /\ ReachableClosed /\ TypeOK /\ Tree /\ SetsSound
  BY Reachable DEF Inv
<1>2. n \in nodes /\ g # Root
  BY DEF AgdelnodeSubg
<1>3. \A x \in Attached : x \in Graph /\ nIdx[x] \subseteq nodes /\ inIdx[x] \subseteq edges
  BY <1>1, LiveMembers DEF ReachableClosed
<1>4. /\ DropEdges(lost) /\ DropNode(S, n)
      /\ UNCHANGED <<objs, tree, ntags, etags, ids, seqCtr>>
  BY DEF AgdelnodeSubg
<1>5. /\ S \subseteq Attached
      /\ \A p \in S : \A s \in gDict[p] : n \in nIdx[s] => s \in S
      /\ Root \notin S
  BY <1>2, NodeVisitFacts
<1> HIDE DEF S
<1>6. /\ \A x \in S : lost[x] = {e \in inIdx[x] : n \in {tail[e], head[e]}}
      /\ \A x \in Graph \ S : lost[x] = {}
  BY <1>3, <1>5, IncidentIs
<1>7. \A x \in Graph : lost[x] \subseteq edges
  BY <1>3, <1>5, <1>6
<1>8. \A x \in Graph \ Attached : lost[x] = {}
  BY <1>5, <1>6
<1> HIDE DEF lost
<1>9. /\ \A x \in Attached :
           /\ inIdx'[x] = inIdx[x] \ lost[x]
           /\ outIdx'[x] = inIdx'[x] /\ outSeq'[x] = inIdx'[x] /\ inSeq'[x] = inIdx'[x]
      /\ \A x \in Graph \ Attached :
           /\ outIdx'[x] = outIdx[x] /\ outSeq'[x] = outSeq[x]
           /\ inIdx'[x] = inIdx[x] /\ inSeq'[x] = inSeq[x]
  BY <1>4, <1>7, <1>8, DropEdgesIs
<1>10. /\ \A x \in Attached :
            /\ x \in S => nIdx'[x] = nIdx[x] \ {n}
            /\ x \notin S => nIdx'[x] = nIdx[x]
            /\ nSeq'[x] = nIdx'[x]
       /\ \A x \in Graph \ Attached : nIdx'[x] = nIdx[x] /\ nSeq'[x] = nSeq[x]
  BY <1>2, <1>4, <1>5, DropNodeIs
<1>11. \A x \in Attached :
         /\ \A m : m \in nIdx'[x] <=> m \in nIdx[x] /\ ~(x \in S /\ m = n)
         /\ \A e : e \in inIdx'[x] <=> e \in inIdx[x] /\ ~(x \in S /\ n \in {tail[e], head[e]})
  BY <1>3, <1>6, <1>9, <1>10
<1> QED BY <1>2, <1>4, <1>9, <1>10, <1>11 DEF S

LEMMA AgdelnodeSubgSafe ==
  ASSUME Inv, TypeOK', NEW g \in Attached, NEW n \in Node, AgdelnodeSubg(g, n)
  PROVE  Inv'
<1> DEFINE S == NodeVisit(g, n)
<1>1. /\ ReachableClosed /\ TypeOK /\ Tree /\ SetsSound
  BY Reachable DEF Inv
<1>2. n \in nodes /\ g # Root
  BY AgdelnodeSubgIs
<1>3. \A x \in Attached : x \in Graph /\ nIdx[x] \subseteq nodes /\ inIdx[x] \subseteq edges
  BY <1>1, LiveMembers DEF ReachableClosed
<1>5. /\ S \subseteq Attached
      /\ \A p \in S : \A s \in gDict[p] : n \in nIdx[s] => s \in S
      /\ Root \notin S
  BY <1>2, NodeVisitFacts
<1>9. /\ \A x \in Attached :
           /\ nSeq'[x] = nIdx'[x] /\ outIdx'[x] = inIdx'[x]
           /\ outSeq'[x] = inIdx'[x] /\ inSeq'[x] = inIdx'[x]
      /\ \A x \in Graph \ Attached :
           /\ nIdx'[x] = nIdx[x] /\ nSeq'[x] = nSeq[x]
           /\ outIdx'[x] = outIdx[x] /\ outSeq'[x] = outSeq[x]
           /\ inIdx'[x] = inIdx[x] /\ inSeq'[x] = inSeq[x]
      /\ UNCHANGED <<objs, tree, ntags, etags, ids, seqCtr>>
  BY AgdelnodeSubgIs
<1>11. \A x \in Attached :
         /\ \A m : m \in nIdx'[x] <=> m \in nIdx[x] /\ ~(x \in S /\ m = n)
         /\ \A e : e \in inIdx'[x] <=> e \in inIdx[x] /\ ~(x \in S /\ n \in {tail[e], head[e]})
  BY AgdelnodeSubgIs
<1> HIDE DEF S
<1>12. Root \in Attached => nIdx'[Root] = nIdx[Root] /\ inIdx'[Root] = inIdx[Root]
  <2> SUFFICES ASSUME Root \in Attached
               PROVE  nIdx'[Root] = nIdx[Root] /\ inIdx'[Root] = inIdx[Root]
    OBVIOUS
  <2>1. /\ \A m : m \in nIdx'[Root] <=> m \in nIdx[Root]
        /\ \A e : e \in inIdx'[Root] <=> e \in inIdx[Root]
    BY <1>5, <1>11
  <2>2. /\ nIdx'[Root] \subseteq Node /\ nIdx[Root] \subseteq Node
        /\ inIdx'[Root] \subseteq Edge /\ inIdx[Root] \subseteq Edge
    BY <1>1, RootIsGraph DEF TypeOK
  <2> QED BY <2>1, <2>2
<1>13. \A x \in Attached \ {Root} :
         nIdx'[x] \subseteq nIdx'[parent[x]] /\ inIdx'[x] \subseteq inIdx'[parent[x]]
  <2> TAKE x \in Attached \ {Root}
  <2>1. /\ parent[x] \in Attached /\ x \in gDict[parent[x]]
        /\ nIdx[x] \subseteq nIdx[parent[x]] /\ inIdx[x] \subseteq inIdx[parent[x]]
    BY <1>1 DEF SetsSound, SubgraphContainment, ReachableClosed
  <2>2. \A e \in inIdx[x] : tail[e] \in nIdx[x] /\ head[e] \in nIdx[x]
    BY LiveMembers
  <2>3. parent[x] \in S /\ x \notin S => n \notin nIdx[x]
    BY <2>1, <1>5
  <2> QED BY <2>1, <2>2, <2>3, <1>11
<1>14. \A x \in Attached : \A e \in inIdx'[x] : {tail[e], head[e]} \subseteq nIdx'[x]
  <2> TAKE x \in Attached
  <2>1. \A e \in inIdx[x] : tail[e] \in nIdx[x] /\ head[e] \in nIdx[x]
    BY LiveMembers
  <2> QED BY <2>1, <1>11
<1>15. \A x \in Attached : nIdx'[x] \subseteq nodes /\ inIdx'[x] \subseteq edges
  BY <1>3, <1>11
<1> QED BY <1>9, <1>12, <1>13, <1>14, <1>15, SetsOnly

\* agdeledge in a subgraph takes e from the graphs it visits.
LEMMA AgdeledgeSubgIs ==
  ASSUME Inv, NEW g \in Attached, NEW e \in Edge, AgdeledgeSubg(g, e)
  PROVE  /\ e \in edges /\ g # Root /\ nIdx' = nIdx /\ nSeq' = nSeq
         /\ \A x \in Attached :
              /\ \A f : f \in inIdx'[x] <=> f \in inIdx[x] /\ ~(x \in EdgeVisit(g, e) /\ f = e)
              /\ outIdx'[x] = inIdx'[x] /\ outSeq'[x] = inIdx'[x] /\ inSeq'[x] = inIdx'[x]
         /\ \A x \in Graph \ Attached :
              /\ outIdx'[x] = outIdx[x] /\ outSeq'[x] = outSeq[x]
              /\ inIdx'[x] = inIdx[x] /\ inSeq'[x] = inSeq[x]
         /\ UNCHANGED <<objs, tree, ntags, etags, ids, seqCtr>>
<1> DEFINE S == EdgeVisit(g, e)
           lost == Images(S, {e})
<1>1. /\ ReachableClosed /\ TypeOK /\ Tree /\ SetsSound
  BY Reachable DEF Inv
<1>2. e \in edges /\ g # Root
  BY DEF AgdeledgeSubg
<1>3. /\ DropEdges(lost)
      /\ UNCHANGED <<objs, tree, ntags, etags, nsets, ids, seqCtr>>
  BY DEF AgdeledgeSubg
<1>4. /\ S \subseteq Attached
      /\ \A p \in S : \A s \in gDict[p] : e \in inIdx[s] => s \in S
      /\ Root \notin S
  BY <1>2, EdgeVisitFacts
<1> HIDE DEF S
<1>5. /\ \A x \in Graph : x \in S => lost[x] = {e}
      /\ \A x \in Graph : x \notin S => lost[x] = {}
  BY DEF Images
<1> HIDE DEF lost
<1>6. /\ \A x \in Graph : lost[x] \subseteq edges
      /\ \A x \in Graph \ Attached : lost[x] = {}
  BY <1>2, <1>4, <1>5
<1>7. /\ \A x \in Attached :
           /\ inIdx'[x] = inIdx[x] \ lost[x]
           /\ outIdx'[x] = inIdx'[x] /\ outSeq'[x] = inIdx'[x] /\ inSeq'[x] = inIdx'[x]
      /\ \A x \in Graph \ Attached :
           /\ outIdx'[x] = outIdx[x] /\ outSeq'[x] = outSeq[x]
           /\ inIdx'[x] = inIdx[x] /\ inSeq'[x] = inSeq[x]
  BY <1>3, <1>6, DropEdgesIs
<1>8. nIdx' = nIdx /\ nSeq' = nSeq
  BY <1>3 DEF nsets
<1>9. \A x \in Attached : \A f : f \in inIdx'[x] <=> f \in inIdx[x] /\ ~(x \in S /\ f = e)
  BY <1>1, <1>5, <1>7 DEF ReachableClosed
<1> QED BY <1>2, <1>3, <1>7, <1>8, <1>9 DEF S

LEMMA AgdeledgeSubgSafe ==
  ASSUME Inv, TypeOK', NEW g \in Attached, NEW e \in Edge, AgdeledgeSubg(g, e)
  PROVE  Inv'
<1> DEFINE S == EdgeVisit(g, e)
<1>1. /\ ReachableClosed /\ TypeOK /\ Tree /\ SetsSound
  BY Reachable DEF Inv
<1>4. /\ S \subseteq Attached
      /\ \A p \in S : \A s \in gDict[p] : e \in inIdx[s] => s \in S
      /\ Root \notin S
  BY AgdeledgeSubgIs, EdgeVisitFacts
<1>7. /\ \A x \in Attached :
           outIdx'[x] = inIdx'[x] /\ outSeq'[x] = inIdx'[x] /\ inSeq'[x] = inIdx'[x]
      /\ \A x \in Graph \ Attached :
           /\ outIdx'[x] = outIdx[x] /\ outSeq'[x] = outSeq[x]
           /\ inIdx'[x] = inIdx[x] /\ inSeq'[x] = inSeq[x]
      /\ UNCHANGED <<objs, tree, ntags, etags, ids, seqCtr>>
  BY AgdeledgeSubgIs
<1>8. nIdx' = nIdx /\ nSeq' = nSeq
  BY AgdeledgeSubgIs
<1>9. \A x \in Attached : \A f : f \in inIdx'[x] <=> f \in inIdx[x] /\ ~(x \in S /\ f = e)
  BY AgdeledgeSubgIs
<1> HIDE DEF S
<1>10. Root \in Attached => nIdx'[Root] = nIdx[Root] /\ inIdx'[Root] = inIdx[Root]
  <2> SUFFICES ASSUME Root \in Attached PROVE inIdx'[Root] = inIdx[Root]
    BY <1>8
  <2>1. \A f : f \in inIdx'[Root] <=> f \in inIdx[Root]
    BY <1>4, <1>9
  <2>2. inIdx'[Root] \subseteq Edge /\ inIdx[Root] \subseteq Edge
    BY <1>1, RootIsGraph DEF TypeOK
  <2> QED BY <2>1, <2>2
<1>11. \A x \in Attached \ {Root} :
         nIdx'[x] \subseteq nIdx'[parent[x]] /\ inIdx'[x] \subseteq inIdx'[parent[x]]
  <2> TAKE x \in Attached \ {Root}
  <2>1. /\ parent[x] \in Attached /\ x \in gDict[parent[x]]
        /\ nIdx[x] \subseteq nIdx[parent[x]] /\ inIdx[x] \subseteq inIdx[parent[x]]
    BY <1>1 DEF SetsSound, SubgraphContainment, ReachableClosed
  <2>2. parent[x] \in S /\ x \notin S => e \notin inIdx[x]
    BY <2>1, <1>4
  <2> QED BY <2>1, <2>2, <1>8, <1>9
<1>12. \A x \in Attached : \A f \in inIdx'[x] : {tail[f], head[f]} \subseteq nIdx'[x]
  BY <1>8, <1>9, LiveMembers
<1>13. \A x \in Attached : nIdx'[x] \subseteq nodes /\ inIdx'[x] \subseteq edges
  BY <1>8, <1>9, LiveMembers
<1>14. \A x \in Attached : nSeq'[x] = nIdx'[x]
  BY <1>8, LiveMembers
<1> QED BY <1>7, <1>8, <1>10, <1>11, <1>12, <1>13, <1>14, SetsOnly

-----------------------------------------------------------------------------
(* Insertions of an edge that exists.                                      *)

EdgeLacking(g, e) == Climb(g, HoldersOfEdge(tail[e], head[e], edgeId[e]))

LEMMA ClimbWithin ==
  ASSUME TypeOK, Tree, NEW g \in Attached, NEW H, NEW T, g \in T,
         \A s \in Attached \ {Root} : s \in T => parent[s] \in T
  PROVE  Climb(g, H) \subseteq T
<1>1. ReachableClosed
  BY Reachable
<1>2. g \in Graph /\ g \in (T \cap Attached) \cup H
  BY <1>1 DEF ReachableClosed
<1>3. \A s \in (T \cap Attached) \cap Graph :
        parent[s] \in Graph => parent[s] \in (T \cap Attached) \cup H
  BY <1>1, GraphAssumption DEF ReachableClosed, Tree, GraphAssumption
<1>4. Up(parent, g, H) \subseteq (T \cap Attached) \ H
  BY <1>2, <1>3, UpLeast
<1> QED BY <1>4, ClimbIsUp

LEMMA EdgeLackingFacts ==
  ASSUME Inv, NEW g \in Attached, NEW e \in edges
  PROVE  /\ EdgeLacking(g, e) \subseteq Attached
         /\ \A s \in EdgeLacking(g, e) : e \notin inIdx[s]
         /\ g \in EdgeLacking(g, e) \/ e \in inIdx[g]
         /\ \A s \in EdgeLacking(g, e) \ {Root} :
              parent[s] \in EdgeLacking(g, e) \/ e \in inIdx[parent[s]]
<1> DEFINE H == {s \in Attached : e \in inIdx[s]}
<1>1. EdgeLacking(g, e) = Climb(g, H)
  BY EdgeHolders DEF EdgeLacking
<1>2. TypeOK /\ Tree
  BY DEF Inv
<1> HIDE DEF H
<1>3. /\ Climb(g, H) \subseteq Attached \ H
      /\ g \in Climb(g, H) \/ g \in H
      /\ \A s \in Climb(g, H) \ {Root} : parent[s] \in Climb(g, H) \/ parent[s] \in H
  BY <1>2, ClimbFacts
<1> QED BY <1>1, <1>3 DEF H

LEMMA AddNewIs ==
  ASSUME NEW D, NEW e, NEW key, \A f \in D : key[f] = key[e] => f = e
  PROVE  AddNew(D, e, key) = D \cup {e}
BY DEF AddNew

LEMMA InstallOldIs ==
  ASSUME Inv, NEW g \in Attached, NEW e \in edges, InstallOld(g, e)
  PROVE  /\ \A x \in Attached :
              /\ \A f : f \in inIdx'[x] <=> f \in inIdx[x] \/ (x \in EdgeLacking(g, e) /\ f = e)
              /\ outIdx'[x] = inIdx'[x] /\ outSeq'[x] = inIdx'[x] /\ inSeq'[x] = inIdx'[x]
         /\ \A x \in Graph \ Attached :
              /\ outIdx'[x] = outIdx[x] /\ outSeq'[x] = outSeq[x]
              /\ inIdx'[x] = inIdx[x] /\ inSeq'[x] = inSeq[x]
<1> DEFINE S == EdgeLacking(g, e)
           k1 == EdgeKey(tail, head, edgeId)
           k2 == EdgeKey(tail, head, edgeSeq)
           k3 == EdgeKey(head, tail, edgeId)
           k4 == EdgeKey(head, tail, edgeSeq)
<1>1. /\ outIdx' = Joined(outIdx, S, e, k1) /\ outSeq' = Joined(outSeq, S, e, k2)
      /\ inIdx' = Joined(inIdx, S, e, k3) /\ inSeq' = Joined(inSeq, S, e, k4)
  BY DEF InstallOld, InstallEdge, EdgeLacking
<1>2. S \subseteq Attached
  BY EdgeLackingFacts
<1>3. edges \subseteq Edge
  BY DEF Inv, TypeOK
<1>4. ASSUME NEW f \in edges
      PROVE  /\ k1[f] = k1[e] => f = e
             /\ k2[f] = k2[e] => f = e
             /\ k3[f] = k3[e] => f = e
             /\ k4[f] = k4[e] => f = e
  <2>1. f \in Edge /\ e \in Edge
    BY <1>3
  <2> QED BY <2>1, EdgeByKey DEF EdgeKey
<1>5. \A x \in Attached :
        /\ x \in Graph /\ inIdx[x] \in SUBSET edges
        /\ outIdx[x] = inIdx[x] /\ outSeq[x] = inIdx[x] /\ inSeq[x] = inIdx[x]
  BY LiveMembers, Reachable DEF Inv, ReachableClosed
<1> HIDE DEF S, k1, k2, k3, k4
<1>6. ASSUME NEW x \in Attached
      PROVE  /\ AddNew(inIdx[x], e, k1) = inIdx[x] \cup {e}
             /\ AddNew(inIdx[x], e, k2) = inIdx[x] \cup {e}
             /\ AddNew(inIdx[x], e, k3) = inIdx[x] \cup {e}
             /\ AddNew(inIdx[x], e, k4) = inIdx[x] \cup {e}
  <2>1. \A f \in inIdx[x] : f \in edges
    BY <1>5
  <2>2. /\ \A f \in inIdx[x] : k1[f] = k1[e] => f = e
        /\ \A f \in inIdx[x] : k2[f] = k2[e] => f = e
        /\ \A f \in inIdx[x] : k3[f] = k3[e] => f = e
        /\ \A f \in inIdx[x] : k4[f] = k4[e] => f = e
    BY <2>1, <1>4
  <2> QED BY <2>2, AddNewIs
<1>7. ASSUME NEW x \in Attached
      PROVE  /\ \A f : f \in inIdx'[x] <=> f \in inIdx[x] \/ (x \in S /\ f = e)
             /\ outIdx'[x] = inIdx'[x] /\ outSeq'[x] = inIdx'[x] /\ inSeq'[x] = inIdx'[x]
  BY <1>1, <1>5, <1>6 DEF Joined
<1>8. \A x \in Graph \ Attached :
        /\ outIdx'[x] = outIdx[x] /\ outSeq'[x] = outSeq[x]
        /\ inIdx'[x] = inIdx[x] /\ inSeq'[x] = inSeq[x]
  BY <1>1, <1>2 DEF Joined
<1> QED BY <1>7, <1>8 DEF S

\* An old edge goes into g and the graphs above it, its endpoints are there.
LEMMA InstallOldSafe ==
  ASSUME Inv, TypeOK', UNCHANGED <<objs, tree, ntags, etags, ids, seqCtr>>,
         NEW g \in Attached, NEW e \in edges, InstallOld(g, e),
         \A x \in Graph \ Attached : nIdx'[x] = nIdx[x] /\ nSeq'[x] = nSeq[x],
         \A x \in Attached : nSeq'[x] = nIdx'[x],
         nIdx'[Root] = nIdx[Root],
         \A x \in Attached \ {Root} : nIdx'[x] \subseteq nIdx'[parent[x]],
         \A x \in Attached : nIdx[x] \subseteq nIdx'[x] /\ nIdx'[x] \subseteq nodes,
         tail[e] \in nIdx'[g] /\ head[e] \in nIdx'[g]
  PROVE  Inv'
<1> DEFINE S == EdgeLacking(g, e)
           T == {x \in Attached : tail[e] \in nIdx'[x] /\ head[e] \in nIdx'[x]}
<1>1. /\ ReachableClosed /\ TypeOK /\ Tree /\ SetsSound
  BY Reachable DEF Inv
<1>2. /\ \A s \in S : e \notin inIdx[s]
      /\ \A s \in S \ {Root} : parent[s] \in S \/ e \in inIdx[parent[s]]
  BY EdgeLackingFacts
<1>3. /\ g \in T
      /\ \A s \in Attached \ {Root} : s \in T => parent[s] \in T
  BY <1>1 DEF ReachableClosed
<1> HIDE DEF T
<1>4. S \subseteq T
  BY <1>1, <1>3, ClimbWithin DEF EdgeLacking
<1> HIDE DEF S
<1>5. /\ \A x \in Attached :
           /\ \A f : f \in inIdx'[x] <=> f \in inIdx[x] \/ (x \in S /\ f = e)
           /\ outIdx'[x] = inIdx'[x] /\ outSeq'[x] = inIdx'[x] /\ inSeq'[x] = inIdx'[x]
      /\ \A x \in Graph \ Attached :
           /\ outIdx'[x] = outIdx[x] /\ outSeq'[x] = outSeq[x]
           /\ inIdx'[x] = inIdx[x] /\ inSeq'[x] = inSeq[x]
  BY InstallOldIs DEF S
<1>6. Root \in Attached => nIdx'[Root] = nIdx[Root] /\ inIdx'[Root] = inIdx[Root]
  <2> SUFFICES ASSUME Root \in Attached PROVE inIdx'[Root] = inIdx[Root]
    OBVIOUS
  <2>1. e \in inIdx[Root] /\ Root \notin S
    BY <1>2, LiveMembers
  <2>2. \A f : f \in inIdx'[Root] <=> f \in inIdx[Root]
    BY <2>1, <1>5
  <2>3. inIdx'[Root] \subseteq Edge /\ inIdx[Root] \subseteq Edge
    BY <1>1, RootIsGraph DEF TypeOK
  <2> QED BY <2>2, <2>3
<1>7. \A x \in Attached \ {Root} :
         nIdx'[x] \subseteq nIdx'[parent[x]] /\ inIdx'[x] \subseteq inIdx'[parent[x]]
  <2> TAKE x \in Attached \ {Root}
  <2>1. parent[x] \in Attached /\ inIdx[x] \subseteq inIdx[parent[x]]
    BY <1>1 DEF SetsSound, SubgraphContainment
  <2>2. x \in S => e \in inIdx'[parent[x]]
    BY <2>1, <1>2, <1>5
  <2> QED BY <2>1, <2>2, <1>5
<1>8. \A x \in Attached : \A f \in inIdx'[x] : {tail[f], head[f]} \subseteq nIdx'[x]
  <2> TAKE x \in Attached
  <2>1. \A f \in inIdx[x] : tail[f] \in nIdx[x] /\ head[f] \in nIdx[x]
    BY LiveMembers
  <2>2. x \in S => tail[e] \in nIdx'[x] /\ head[e] \in nIdx'[x]
    BY <1>4 DEF T
  <2> QED BY <2>1, <2>2, <1>5
<1>9. \A x \in Attached : nIdx'[x] \subseteq nodes /\ inIdx'[x] \subseteq edges
  BY <1>5, LiveMembers
<1> QED BY <1>5, <1>6, <1>7, <1>8, <1>9, SetsOnly

LEMMA AgedgeSubedgeSafe ==
  ASSUME Inv, TypeOK', NEW g \in Attached, NEW e \in Edge, NEW t \in Node,
         NEW h \in Node, NEW name, AgedgeSubedge(g, t, h, name, e)
  PROVE  Inv'
<1>1. /\ ReachableClosed /\ TypeOK /\ Tree /\ SetsSound
  BY Reachable DEF Inv
<1>2. /\ t \in nIdx[g] /\ h \in nIdx[g] /\ e \in ProbeEdge(Root, t, h, name)
      /\ InstallOld(g, e)
      /\ UNCHANGED <<objs, tree, ntags, etags, nsets, ids, seqCtr>>
  BY DEF AgedgeSubedge
<1>3. /\ Root \in Attached /\ inIdx[Root] = edges
      /\ t \in nodes /\ h \in nodes
  BY <1>1, <1>2, LiveMembers DEF ReachableClosed
<1>4. /\ e \in edges
      /\ \/ head[e] = h /\ nodeId[tail[e]] = nodeId[t]
         \/ head[e] = t /\ nodeId[tail[e]] = nodeId[h]
  BY <1>2, <1>3 DEF ProbeEdge, ProbeDir, FoundEdge, FoundAny
<1>5. tail[e] \in nIdx[g] /\ head[e] \in nIdx[g]
  BY <1>2, <1>3, <1>4, LiveEnds, NodeById
<1>6. nIdx' = nIdx /\ nSeq' = nSeq
  BY <1>2 DEF nsets
<1>7. \A x \in Attached : nSeq'[x] = nIdx'[x] /\ nIdx'[x] \subseteq nodes
  BY <1>6, LiveMembers
<1>8. \A x \in Attached \ {Root} : nIdx'[x] \subseteq nIdx'[parent[x]]
  BY <1>1, <1>6 DEF SetsSound, SubgraphContainment
<1>9. UNCHANGED <<objs, tree, ntags, etags, ids, seqCtr>>
  BY <1>2
<1> QED BY <1>2, <1>4, <1>5, <1>6, <1>7, <1>8, <1>9, InstallOldSafe

LEMMA AgsubedgeSafe ==
  ASSUME Inv, TypeOK', NEW g \in Attached, NEW e \in Edge, Agsubedge(g, e)
  PROVE  Inv'
<1> DEFINE t == tail[e]
           h == head[e]
           T == Lacking(g, t)
           H == Lacking(g, h)
           ids1 == Joined(nIdx, T, t, nodeId)
           seqs1 == Joined(nSeq, T, t, nodeSeq)
<1>1. /\ ReachableClosed /\ TypeOK /\ Tree /\ SetsSound
  BY Reachable DEF Inv
<1>2. /\ e \in edges
      /\ nIdx' = Joined(ids1, H, h, nodeId) /\ nSeq' = Joined(seqs1, H, h, nodeSeq)
      /\ InstallOld(g, e)
      /\ UNCHANGED <<objs, tree, ntags, etags, ids, seqCtr>>
  BY DEF Agsubedge
<1>3. t \in nodes /\ h \in nodes
  BY <1>2, LiveEnds
<1>4. \A x \in Attached : x \in Graph /\ nIdx[x] \subseteq nodes /\ nSeq[x] = nIdx[x]
  BY <1>1, LiveMembers DEF ReachableClosed
<1>5. /\ T \subseteq Attached /\ H \subseteq Attached
      /\ g \in T \/ t \in nIdx[g]
      /\ g \in H \/ h \in nIdx[g]
      /\ \A s \in T \cup H : s \in T => t \notin nIdx[s]
      /\ \A s \in T \cup H : s \in H => h \notin nIdx[s]
      /\ \A s \in T \ {Root} : parent[s] \in T \/ t \in nIdx[parent[s]]
      /\ \A s \in H \ {Root} : parent[s] \in H \/ h \in nIdx[parent[s]]
  BY <1>3, LackingFacts
<1> HIDE DEF t, h, T, H
<1>6. ASSUME NEW x \in Attached
      PROVE  \A m : m \in ids1[x] <=> m \in nIdx[x] \/ (x \in T /\ m = t)
  <2>1. x \in Graph /\ nIdx[x] \subseteq nodes
    BY <1>4
  <2> QED BY <2>1, <1>3, NodesJoined
<1>7. ASSUME NEW x \in Attached
      PROVE  \A m : m \in seqs1[x] <=> m \in nIdx[x] \/ (x \in T /\ m = t)
  <2>1. x \in Graph /\ nSeq[x] \subseteq nodes /\ nSeq[x] = nIdx[x]
    BY <1>4
  <2> QED BY <2>1, <1>3, NodesJoined
<1>8. ASSUME NEW x \in Graph \ Attached PROVE ids1[x] = nIdx[x] /\ seqs1[x] = nSeq[x]
  BY <1>5, <1>8, JoinedElsewhere
<1> HIDE DEF ids1, seqs1
<1>9. ASSUME NEW x \in Attached
      PROVE  \A m : m \in nIdx'[x]
                      <=> m \in nIdx[x] \/ (x \in T /\ m = t) \/ (x \in H /\ m = h)
  <2>1. x \in Graph /\ ids1[x] \subseteq nodes
    BY <1>3, <1>4, <1>6
  <2> QED BY <2>1, <1>2, <1>3, <1>6, NodesJoined
<1>10. ASSUME NEW x \in Attached
       PROVE  \A m : m \in nSeq'[x]
                      <=> m \in nIdx[x] \/ (x \in T /\ m = t) \/ (x \in H /\ m = h)
  <2>1. x \in Graph /\ seqs1[x] \subseteq nodes
    BY <1>3, <1>4, <1>7
  <2> QED BY <2>1, <1>2, <1>3, <1>7, NodesJoined
<1>11. \A x \in Attached : nSeq'[x] = nIdx'[x]
  <2> TAKE x \in Attached
  <2>1. nSeq'[x] \subseteq Node /\ nIdx'[x] \subseteq Node
    BY <1>4 DEF TypeOK
  <2> QED BY <2>1, <1>9, <1>10
<1>12. \A x \in Graph \ Attached : nIdx'[x] = nIdx[x] /\ nSeq'[x] = nSeq[x]
  BY <1>2, <1>5, <1>8, JoinedElsewhere
<1>13. \A x \in Attached : nIdx[x] \subseteq nIdx'[x] /\ nIdx'[x] \subseteq nodes
  BY <1>3, <1>4, <1>9
<1>14. nIdx'[Root] = nIdx[Root]
  <2>1. Root \in Attached /\ nIdx[Root] = nodes
    BY <1>1, LiveMembers DEF ReachableClosed
  <2> QED BY <2>1, <1>13
<1>15. \A x \in Attached \ {Root} : nIdx'[x] \subseteq nIdx'[parent[x]]
  <2> TAKE x \in Attached \ {Root}
  <2>1. parent[x] \in Attached /\ nIdx[x] \subseteq nIdx[parent[x]]
    BY <1>1 DEF SetsSound, SubgraphContainment
  <2> QED BY <2>1, <1>5, <1>9
<1>16. tail[e] \in nIdx'[g] /\ head[e] \in nIdx'[g]
  BY <1>5, <1>9 DEF t, h
<1>17. UNCHANGED <<objs, tree, ntags, etags, ids, seqCtr>>
  BY <1>2
<1> QED BY <1>2, <1>11, <1>12, <1>13, <1>14, <1>15, <1>16, <1>17, InstallOldSafe

-----------------------------------------------------------------------------
(* References to names.                                                    *)

LEMMA UsesType ==
  ASSUME NEW S, IsFiniteSet(S), NEW id, NEW x
  PROVE  IsFiniteSet({o \in S : id[o] = x}) /\ Uses(S, id, x) \in Nat
<1>1. IsFiniteSet({o \in S : id[o] = x})
  BY FS_Subset
<1> QED BY <1>1, FS_CardinalityType DEF Uses

LEMMA UsesHeld ==
  ASSUME NEW S, IsFiniteSet(S), NEW id, NEW o \in S
  PROVE  Uses(S, id, id[o]) > 0
<1> DEFINE X == {p \in S : id[p] = id[o]}
<1>1. X \in SUBSET S /\ o \in X
  OBVIOUS
<1>2. Uses(S, id, id[o]) = Cardinality(X)
  BY DEF Uses
<1> HIDE DEF X
<1>3. IsFiniteSet(X)
  BY <1>1, FS_Subset
<1>4. Cardinality(X) \in Nat /\ Cardinality(X) # 0
  BY <1>1, <1>3, FS_EmptySet, FS_CardinalityType
<1> QED BY <1>2, <1>4

LEMMA UsesSame ==
  ASSUME NEW S, NEW id, NEW id2, NEW x, \A o \in S : id2[o] = id[o]
  PROVE  Uses(S, id2, x) = Uses(S, id, x)
<1>1. {o \in S : id2[o] = x} = {o \in S : id[o] = x}
  OBVIOUS
<1> QED BY <1>1 DEF Uses

LEMMA UsesAdd ==
  ASSUME NEW S, IsFiniteSet(S), NEW id, NEW id2, NEW x, NEW o, o \notin S,
         \A p \in S : id2[p] = id[p]
  PROVE  /\ id2[o] = x => Uses(S \cup {o}, id2, x) = Uses(S, id, x) + 1
         /\ id2[o] # x => Uses(S \cup {o}, id2, x) = Uses(S, id, x)
<1> DEFINE X == {p \in S : id[p] = x}
           Y == {p \in S \cup {o} : id2[p] = x}
<1>1. X \in SUBSET S /\ o \notin X
  OBVIOUS
<1>4. Uses(S, id, x) = Cardinality(X) /\ Uses(S \cup {o}, id2, x) = Cardinality(Y)
  BY DEF Uses
<1>2. CASE id2[o] = x
  <2>1. Y = X \cup {o}
    BY <1>2
  <2> HIDE DEF X, Y
  <2>2. IsFiniteSet(X)
    BY <1>1, FS_Subset
  <2>3. Cardinality(X \cup {o}) = Cardinality(X) + 1
    BY <1>1, <2>2, FS_AddElement
  <2> QED BY <1>2, <1>4, <2>1, <2>3
<1>3. CASE id2[o] # x
  <2>1. Y = X
    BY <1>3
  <2> HIDE DEF X, Y
  <2>2. Cardinality(X) \in Nat
    BY <1>1, FS_Subset, FS_CardinalityType
  <2> QED BY <1>3, <1>4, <2>1, <2>2
<1> QED BY <1>2, <1>3

LEMMA UsesMinus ==
  ASSUME NEW S, IsFiniteSet(S), NEW R, R \subseteq S, NEW T, T = S \ R,
         NEW id, NEW id2, NEW x, \A p \in T : id2[p] = id[p]
  PROVE  Uses(T, id2, x) = Uses(S, id, x) - Uses(R, id, x)
<1> DEFINE X == {p \in S : id[p] = x}
           Y == {p \in R : id[p] = x}
           Z == {p \in T : id2[p] = x}
<1>1. Z = X \ Y /\ X \cap Y = Y
  OBVIOUS
<1>2. X \in SUBSET S /\ Y \in SUBSET S /\ Z \in SUBSET S
  OBVIOUS
<1>4. /\ Uses(T, id2, x) = Cardinality(Z) /\ Uses(S, id, x) = Cardinality(X)
      /\ Uses(R, id, x) = Cardinality(Y)
  BY DEF Uses
<1> HIDE DEF X, Y, Z
<1>3. IsFiniteSet(X) /\ IsFiniteSet(Y) /\ IsFiniteSet(Z)
  BY <1>2, FS_Subset
<1>5. Cardinality(X \ Y) = Cardinality(X) - Cardinality(X \cap Y)
  BY <1>3, FS_Difference
<1> QED BY <1>1, <1>4, <1>5

LEMMA UsesFewer ==
  ASSUME NEW S, IsFiniteSet(S), NEW R \in SUBSET S, NEW id, NEW x
  PROVE  Uses(R, id, x) <= Uses(S, id, x)
<1> DEFINE X == {p \in S : id[p] = x}
           Y == {p \in R : id[p] = x}
<1>1. X \in SUBSET S /\ Y \in SUBSET X
  OBVIOUS
<1>2. Uses(R, id, x) = Cardinality(Y) /\ Uses(S, id, x) = Cardinality(X)
  BY DEF Uses
<1> HIDE DEF X, Y
<1> QED BY <1>1, <1>2, FS_Subset

LEMMA UsesOne ==
  ASSUME NEW id, NEW x, NEW o
  PROVE  Uses({o}, id, x) = IF id[o] = x THEN 1 ELSE 0
<1>1. CASE id[o] = x
  <2>1. {p \in {o} : id[p] = x} = {o}
    BY <1>1
  <2> QED BY <1>1, <2>1, FS_Singleton DEF Uses
<1>2. CASE id[o] # x
  <2>1. {p \in {o} : id[p] = x} = {}
    BY <1>2
  <2> QED BY <1>2, <2>1, FS_EmptySet DEF Uses
<1> QED BY <1>1, <1>2

LEMMA UsesNone == ASSUME NEW id, NEW x PROVE Uses({}, id, x) = 0
<1>1. {p \in {} : id[p] = x} = {}
  OBVIOUS
<1> QED BY <1>1, FS_EmptySet DEF Uses

LEMMA FiniteSets ==
  ASSUME TypeOK
  PROVE  IsFiniteSet(graphs) /\ IsFiniteSet(nodes) /\ IsFiniteSet(edges) /\ IsFiniteSet(Attached)
<1>1. Attached \subseteq Graph
  BY ReachIn DEF Attached, Visit
<1> QED BY <1>1, GraphAssumption, FS_Subset DEF TypeOK, GraphAssumption

LEMMA UsesNat ==
  ASSUME TypeOK, NEW x
  PROVE  /\ Uses(Attached, graphId, x) \in Nat
         /\ Uses(nodes, nodeId, x) \in Nat
         /\ Uses(edges, edgeId, x) \in Nat
BY FiniteSets, UsesType

LEMMA ReserveIs ==
  ASSUME TypeOK, NEW name \in Name \cup {NULL}, NEW id, Reserve(name, id)
  PROVE  /\ id = IF name = NULL THEN anonCtr ELSE name
         /\ id \in Id /\ anonCtr' \in Nat /\ anonCtr <= anonCtr'
         /\ id \in Int => id < anonCtr'
         /\ \A x \in Name : refcnt'[x] = refcnt[x] + (IF id = x THEN 1 ELSE 0)
BY GraphAssumption DEF Reserve, TypeOK, Id, GraphAssumption

\* An anonymous id, and a name without references, are those of no object.
LEMMA FreshId ==
  ASSUME Inv, NEW name \in Name \cup {NULL}, NEW id, Reserve(name, id),
         name # NULL => Probe(name) # name
  PROVE  /\ \A n \in nodes : nodeId[n] # id
         /\ \A e \in edges : edgeId[e] # id
         /\ \A g \in Attached : graphId[g] # id
<1>1. TypeOK /\ ReachableClosed
  BY Reachable DEF Inv
<1>2. CASE name = NULL
  <2>1. id = anonCtr /\ anonCtr \in Int
    BY <1>1, <1>2 DEF Reserve, TypeOK
  <2>2. \A k \in Int : k < anonCtr => k # anonCtr
    BY <2>1
  <2> QED BY <1>1, <2>1, <2>2 DEF Inv, AnonymousNew, ReachableClosed
<1>3. CASE name # NULL
  <2>1. id = name /\ name \in Name
    BY <1>3 DEF Reserve
  <2>2. ~(refcnt[name] > 0) /\ refcnt[name] \in Int
    BY <1>1, <1>3, <2>1 DEF Probe, TypeOK
  <2>3. refcnt[name] >= References(name)
    BY <2>1 DEF Inv, NamesHeld
  <2>4. /\ Uses(Attached, graphId, name) \in Nat
        /\ Uses(nodes, nodeId, name) \in Nat
        /\ Uses(edges, edgeId, name) \in Nat
    BY <1>1, UsesNat
  <2>5. /\ Uses(Attached, graphId, name) = 0
        /\ Uses(nodes, nodeId, name) = 0
        /\ Uses(edges, edgeId, name) = 0
    BY <2>2, <2>3, <2>4 DEF References
  <2>6. ASSUME NEW n \in nodes PROVE nodeId[n] # id
    <3>1. Uses(nodes, nodeId, nodeId[n]) > 0
      BY <1>1, FiniteSets, UsesHeld
    <3> QED BY <2>1, <2>5, <3>1
  <2>7. ASSUME NEW e \in edges PROVE edgeId[e] # id
    <3>1. Uses(edges, edgeId, edgeId[e]) > 0
      BY <1>1, FiniteSets, UsesHeld
    <3> QED BY <2>1, <2>5, <3>1
  <2>8. ASSUME NEW g \in Attached PROVE graphId[g] # id
    <3>1. Uses(Attached, graphId, graphId[g]) > 0
      BY <1>1, FiniteSets, UsesHeld
    <3> QED BY <2>1, <2>5, <3>1
  <2> QED BY <2>6, <2>7, <2>8
<1> QED BY <1>2, <1>3

\* installnodetoroot ends at the root.
LEMMA ClimbsToRoot ==
  ASSUME TypeOK, Tree, NEW g \in Attached
  PROVE  Root \in Climb(g, {})
<1> DEFINE T == {s \in Attached : Root \in Climb(s, {})}
<1>1. ReachableClosed
  BY Reachable
<1>2. Root \in T
  <2>1. Root \in Attached
    BY <1>1 DEF ReachableClosed
  <2> QED BY <2>1, ClimbFacts
<1>3. \A p \in T : \A s \in gDict[p] : s \in T
  <2> TAKE p \in T
  <2> TAKE s \in gDict[p]
  <2>1. p \in Attached /\ s \in Attached /\ s # Root /\ parent[s] = p
    BY <1>1 DEF ReachableClosed
  <2>2. p \in Climb(s, {})
    BY <2>1, ClimbFacts
  <2>3. /\ p \in Climb(s, {})
        /\ \A x \in Climb(s, {}) \ {Root} : parent[x] \in Climb(s, {})
        /\ Climb(s, {}) \subseteq Attached /\ p \in Graph
    BY <2>1, <2>2, <1>1, ClimbFacts DEF ReachableClosed
  <2>4. \A x \in Attached \ {Root} : x \in Climb(s, {}) => parent[x] \in Climb(s, {})
    BY <2>3
  <2>5. Climb(p, {}) \subseteq Climb(s, {})
    BY <2>1, <2>3, <2>4, ClimbWithin
  <2> QED BY <2>1, <2>5
<1>4. \A p \in T \cap Graph : \A s \in gDict[p] : s \in Graph => s \in T
  BY <1>3
<1>5. Attached = Down(gDict, Root, Graph)
  BY VisitIsDown DEF Attached
<1> HIDE DEF T
<1>6. Down(gDict, Root, Graph) \subseteq T
  BY <1>2, <1>4, RootIsGraph, DownLeast
<1> QED BY <1>5, <1>6 DEF T

-----------------------------------------------------------------------------
(* New nodes and edges.                                                    *)

\* Sequence numbers do not run out.
LEMMA NextSeqIs ==
  ASSUME TypeOK, MaxSeq < SeqMod, NEW kind \in {"node", "edge"}, NextSeq(kind)
  PROVE  /\ seqCtr'[kind] = seqCtr[kind] + 1 /\ seqCtr'[kind] <= MaxSeq
         /\ seqCtr'[kind] % SeqMod = seqCtr'[kind]
         /\ \A k \in {"node", "edge"} : k # kind => seqCtr'[k] = seqCtr[k]
<1>1. /\ seqCtr[kind] \in Nat /\ seqCtr[kind] < MaxSeq
      /\ seqCtr'[kind] = seqCtr[kind] + 1
      /\ \A k \in {"node", "edge"} : k # kind => seqCtr'[k] = seqCtr[k]
  BY DEF NextSeq, TypeOK
<1>2. SeqMod \in Nat \ {0} /\ MaxSeq \in Nat
  BY GraphAssumption DEF GraphAssumption
<1>3. ASSUME NEW i \in Nat, i < SeqMod PROVE i % SeqMod = i
  BY <1>2, <1>3
<1> QED BY <1>1, <1>2, <1>3

LEMMA AgnodeCreateSafe ==
  ASSUME Inv, TypeOK', MaxSeq < SeqMod, NEW g \in Attached, NEW n \in Node,
         NEW name \in NodeNames, AgnodeCreate(g, name, n)
  PROVE  Inv'
<1> DEFINE S == Climb(g, {})
<1> USE DEF objs, tree, ntags, etags, nsets, esets, ids
<1>1. /\ ReachableClosed /\ TypeOK /\ Tree /\ SetsSound
  BY Reachable DEF Inv
<1>2. /\ n \notin nodes /\ nodes' = nodes \cup {n}
      /\ name # NULL => FoundNode(Root, Probe(name)) = {}
      /\ NextSeq("node")
      /\ nodeSeq' = [nodeSeq EXCEPT ![n] = seqCtr'["node"] % SeqMod]
      /\ nIdx' = Joined(nIdx, S, n, nodeId') /\ nSeq' = Joined(nSeq, S, n, nodeSeq')
      /\ UNCHANGED <<graphs, edges, parent, gDict, graphId, edgeId, edgeSeq, tail, head,
                     outIdx, outSeq, inIdx, inSeq>>
  BY DEF AgnodeCreate
<1>3. PICK id : Reserve(name, id) /\ nodeId' = [nodeId EXCEPT ![n] = id]
  BY DEF AgnodeCreate
<1>4. name \in Name \cup {NULL}
  BY GraphAssumption DEF GraphAssumption
<1>5. Attached' = Attached /\ Root \in Attached
  BY <1>1, <1>2 DEF Attached, Visit, ReachableClosed
<1>6. /\ nodes = nIdx[Root] /\ edges = inIdx[Root] /\ Root \in graphs
  BY <1>5, LiveMembers
<1>7. /\ nodeId'[n] = id /\ \A m \in nodes : nodeId'[m] = nodeId[m]
      /\ nodeSeq'[n] = seqCtr'["node"] % SeqMod /\ \A m \in nodes : nodeSeq'[m] = nodeSeq[m]
  BY <1>1, <1>2, <1>3 DEF TypeOK
<1>8. /\ id = IF name = NULL THEN anonCtr ELSE name
      /\ anonCtr' \in Nat /\ anonCtr <= anonCtr'
      /\ id \in Int => id < anonCtr'
      /\ \A x \in Name : refcnt'[x] = refcnt[x] + (IF id = x THEN 1 ELSE 0)
  BY <1>1, <1>3, <1>4, ReserveIs
<1>9. \A m \in nodes : nodeId[m] # id
  <2>1. CASE name # NULL /\ Probe(name) = name
    BY <2>1, <1>2, <1>6, <1>8 DEF FoundNode
  <2>2. CASE name # NULL => Probe(name) # name
    BY <2>2, <1>3, <1>4, FreshId
  <2> QED BY <2>1, <2>2
<1>10. /\ seqCtr'["node"] = seqCtr["node"] + 1 /\ seqCtr'["node"] <= MaxSeq
       /\ nodeSeq'[n] = seqCtr'["node"] /\ seqCtr'["edge"] = seqCtr["edge"]
  BY <1>1, <1>2, <1>7, NextSeqIs
<1>11. \A m \in nodes : nodeSeq[m] # nodeSeq'[n]
  <2>1. seqCtr["node"] \in Nat /\ \A m \in nodes : nodeSeq[m] \in Nat
    BY <1>1 DEF TypeOK
  <2> QED BY <2>1, <1>10 DEF Inv, Numbered
<1>12. /\ S \subseteq Attached /\ Root \in S
       /\ \A s \in S \ {Root} : parent[s] \in S
  BY <1>1, ClimbFacts, ClimbsToRoot
<1> HIDE DEF S
<1>13. ASSUME NEW x \in Attached
       PROVE  /\ x \in S => nIdx'[x] = nIdx[x] \cup {n}
              /\ x \notin S => nIdx'[x] = nIdx[x]
              /\ nSeq'[x] = nIdx'[x]
  <2>1. x \in Graph /\ nIdx[x] \subseteq nodes /\ nSeq[x] = nIdx[x]
    BY <1>1, LiveMembers DEF ReachableClosed
  <2>2. \A m \in nIdx[x] : nodeId'[m] = nodeId'[n] => m = n
    BY <2>1, <1>7, <1>9
  <2>3. \A m \in nIdx[x] : nodeSeq'[m] = nodeSeq'[n] => m = n
    BY <2>1, <1>7, <1>11
  <2>4. AddNew(nIdx[x], n, nodeId') = nIdx[x] \cup {n}
    BY <2>2, AddNewIs
  <2>5. AddNew(nIdx[x], n, nodeSeq') = nIdx[x] \cup {n}
    BY <2>3, AddNewIs
  <2> QED BY <2>1, <2>4, <2>5, <1>2 DEF Joined
<1>14. ASSUME NEW x \in Graph, x \notin S PROVE nIdx'[x] = nIdx[x] /\ nSeq'[x] = nSeq[x]
  BY <1>2, <1>14 DEF Joined
<1>15. Tree' /\ SiblingsDiffer'
  BY <1>2 DEF Inv, Tree, SiblingsDiffer
<1>16. Cleared'
  BY <1>1, <1>2, <1>12, <1>14 DEF Inv, Cleared, ReachableClosed
<1>17. Owned'
  BY <1>2, <1>5, <1>6, <1>12, <1>13 DEF Owned
<1>18. SetsSound'
  <2>1. ASSUME NEW x \in Attached
        PROVE  /\ nIdx'[x] = nSeq'[x] /\ outIdx'[x] = outSeq'[x]
               /\ outIdx'[x] = inIdx'[x] /\ inIdx'[x] = inSeq'[x]
               /\ \A e \in inIdx'[x] : {tail'[e], head'[e]} \subseteq nIdx'[x]
               /\ nIdx'[x] \subseteq nodes' /\ inIdx'[x] \subseteq edges'
    <3>1. nIdx[x] \subseteq nIdx'[x] /\ nIdx'[x] \subseteq nIdx[x] \cup {n}
      BY <1>13
    <3>2. /\ nIdx[x] \subseteq nodes /\ inIdx[x] \subseteq edges
          /\ outIdx[x] = inIdx[x] /\ outSeq[x] = inIdx[x] /\ inSeq[x] = inIdx[x]
          /\ \A e \in inIdx[x] : tail[e] \in nIdx[x] /\ head[e] \in nIdx[x]
      BY LiveMembers
    <3>3. nodes \subseteq nodes' /\ n \in nodes' /\ edges' = edges
      BY <1>2
    <3>4. /\ outIdx' = outIdx /\ outSeq' = outSeq /\ inIdx' = inIdx /\ inSeq' = inSeq
          /\ tail' = tail /\ head' = head
      BY <1>2
    <3>5. nIdx'[x] \subseteq nodes'
      BY <3>1, <3>2, <3>3
    <3>6. \A e \in inIdx[x] : {tail[e], head[e]} \subseteq nIdx'[x]
      BY <3>1, <3>2
    <3> QED BY <3>2, <3>3, <3>4, <3>5, <3>6, <1>13
  <2>2. ASSUME NEW x \in Attached \ {Root}
        PROVE  /\ parent'[x] \in Attached
               /\ nIdx'[x] \subseteq nIdx'[parent'[x]]
               /\ inIdx'[x] \subseteq inIdx'[parent'[x]]
    <3>1. /\ parent[x] \in Attached /\ nIdx[x] \subseteq nIdx[parent[x]]
          /\ inIdx[x] \subseteq inIdx[parent[x]]
      BY <1>1 DEF SetsSound, SubgraphContainment
    <3>2. x \in S => parent[x] \in S
      BY <1>12
    <3> QED BY <3>1, <3>2, <1>2, <1>13
  <2> QED BY <1>5, <2>1, <2>2
         DEF SetsSound, IndexesAgree, SubgraphContainment, EndpointsPresent, NoDangling
<1>19. Numbered'
  <2>1. seqCtr["node"] \in Nat /\ \A m \in nodes : nodeSeq[m] \in Nat
    BY <1>1 DEF TypeOK
  <2>2. \A m \in nodes : nodeSeq[m] <= seqCtr["node"]
    BY DEF Inv, Numbered
  <2>3. \A m \in nodes' : nodeSeq'[m] <= seqCtr'["node"]
    BY <2>1, <2>2, <1>2, <1>7, <1>10
  <2> QED BY <2>3, <1>2, <1>7, <1>10, <1>11 DEF Inv, Numbered
<1>20. AnonymousNew'
  BY <1>1, <1>2, <1>7, <1>8 DEF Inv, AnonymousNew, TypeOK
<1>21. UniqueIds'
  BY <1>2, <1>7, <1>9 DEF Inv, UniqueIds, MultiEdge
<1>22. NamesHeld'
  <2>1. ASSUME NEW x \in Name
        PROVE  /\ References(x) \in Nat
               /\ References(x)' = References(x) + (IF id = x THEN 1 ELSE 0)
    <3>1. Uses(nodes', nodeId', x) = Uses(nodes, nodeId, x) + (IF id = x THEN 1 ELSE 0)
      <4>1. IsFiniteSet(nodes)
        BY <1>1, FiniteSets
      <4>2. \A p \in nodes : nodeId'[p] = nodeId[p]
        BY <1>7
      <4>3. /\ nodeId'[n] = x => Uses(nodes \cup {n}, nodeId', x) = Uses(nodes, nodeId, x) + 1
            /\ nodeId'[n] # x => Uses(nodes \cup {n}, nodeId', x) = Uses(nodes, nodeId, x)
        <5>1. n \notin nodes
          BY <1>2
        <5> QED BY <4>1, <4>2, <5>1, UsesAdd
      <4> QED BY <1>1, <4>3, <1>2, <1>7, UsesNat
    <3>2. /\ Uses(Attached, graphId, x) \in Nat
          /\ Uses(nodes, nodeId, x) \in Nat
          /\ Uses(edges, edgeId, x) \in Nat
      BY <1>1, UsesNat
    <3> QED BY <3>1, <3>2, <1>2, <1>5 DEF References, Uses
  <2>2. \A x \in Name : refcnt[x] \in Int
    BY <1>1 DEF TypeOK
  <2>3. \A x \in Name : refcnt[x] >= References(x) => refcnt'[x] >= References(x)'
    BY <2>1, <2>2, <1>8
  <2>4. \A x \in Name : refcnt[x] = References(x) => refcnt'[x] = References(x)'
    BY <2>1, <2>2, <1>8
  <2> QED BY <2>3, <2>4, <1>2, <1>5 DEF Inv, NamesHeld
<1> QED BY <1>15, <1>16, <1>17, <1>18, <1>19, <1>20, <1>21, <1>22 DEF Inv

LEMMA AgedgeCreateSafe ==
  ASSUME Inv, TypeOK', MaxSeq < SeqMod, NEW g \in Attached, NEW e \in Edge,
         NEW t \in Node, NEW h \in Node, NEW name \in EdgeNames,
         AgedgeCreate(g, t, h, name, e)
  PROVE  Inv'
<1> USE DEF objs, tree, ntags, etags, nsets, esets, ids
<1>1. /\ ReachableClosed /\ TypeOK /\ Tree /\ SetsSound
  BY Reachable DEF Inv
<1>2. /\ e \notin edges /\ edges' = edges \cup {e}
      /\ t \in nIdx[g] /\ h \in nIdx[g]
      /\ Probes(name) => ProbeEdge(Root, t, h, name) = {}
      /\ NextSeq("edge")
      /\ edgeSeq' = [edgeSeq EXCEPT ![e] = seqCtr'["edge"] % SeqMod]
      /\ tail' = [tail EXCEPT ![e] = t] /\ head' = [head EXCEPT ![e] = h]
      /\ UNCHANGED <<graphs, nodes, parent, gDict, graphId, nodeId, nodeSeq, nIdx, nSeq>>
  BY DEF AgedgeCreate
<1>3. PICK id : Reserve(name, id) /\ edgeId' = [edgeId EXCEPT ![e] = id]
  BY DEF AgedgeCreate
<1>4. name \in Name \cup {NULL}
  BY GraphAssumption DEF GraphAssumption
<1>5. Attached' = Attached /\ Root \in Attached
  <2>1. graphs' = graphs /\ gDict' = gDict
    BY <1>2
  <2>2. Attached' = Attached
    BY <2>1 DEF Attached, Visit
  <2>3. Root \in Attached
    BY <1>1 DEF ReachableClosed
  <2> QED BY <2>2, <2>3
<1>6. /\ nodes = nIdx[Root] /\ edges = inIdx[Root] /\ Root \in graphs
      /\ t \in nodes /\ h \in nodes
  BY <1>2, <1>5, LiveMembers
<1>7. /\ edgeId'[e] = id /\ \A f \in edges : edgeId'[f] = edgeId[f]
      /\ edgeSeq'[e] = seqCtr'["edge"] % SeqMod
      /\ \A f \in edges : edgeSeq'[f] = edgeSeq[f]
      /\ tail'[e] = t /\ \A f \in edges : tail'[f] = tail[f]
      /\ head'[e] = h /\ \A f \in edges : head'[f] = head[f]
  BY <1>1, <1>2, <1>3 DEF TypeOK
<1>8. /\ id = IF name = NULL THEN anonCtr ELSE name
      /\ anonCtr' \in Nat /\ anonCtr <= anonCtr'
      /\ id \in Int => id < anonCtr'
      /\ \A x \in Name : refcnt'[x] = refcnt[x] + (IF id = x THEN 1 ELSE 0)
  BY <1>1, <1>3, <1>4, ReserveIs
<1>9. \A f \in edges :
        /\ tail[f] = t /\ head[f] = h => edgeId[f] # id
        /\ ~Directed /\ tail[f] = h /\ head[f] = t => edgeId[f] # id
  <2>1. CASE name # NULL /\ Probe(name) = name
    <3>1. ProbeEdge(Root, t, h, name) = {}
      BY <2>1, <1>2 DEF Probes
    <3>2. /\ FoundEdge(Root, t, h, name) = {}
          /\ ~Directed => FoundEdge(Root, h, t, name) = {}
      BY <2>1, <3>1 DEF ProbeEdge, ProbeDir
    <3> QED BY <2>1, <3>2, <1>6, <1>8 DEF FoundEdge
  <2>2. CASE name # NULL => Probe(name) # name
    BY <2>2, <1>3, <1>4, FreshId
  <2> QED BY <2>1, <2>2
<1>10. /\ seqCtr'["edge"] = seqCtr["edge"] + 1 /\ seqCtr'["edge"] <= MaxSeq
       /\ edgeSeq'[e] = seqCtr'["edge"] /\ seqCtr'["node"] = seqCtr["node"]
  BY <1>1, <1>2, <1>7, NextSeqIs
<1>11. \A f \in edges : edgeSeq[f] # edgeSeq'[e]
  <2>1. seqCtr["edge"] \in Nat /\ \A f \in edges : edgeSeq[f] \in Nat
    BY <1>1 DEF TypeOK
  <2> QED BY <2>1, <1>10 DEF Inv, Numbered
<1>12. HoldersOfEdge(t, h, id) = {}
  <2> SUFFICES ASSUME NEW x \in Attached, NEW f \in FoundEdge(x, t, h, id) PROVE FALSE
    BY DEF HoldersOfEdge
  <2>1. /\ f \in inIdx[x] /\ head[f] = h /\ nodeId[tail[f]] = nodeId[t] /\ edgeId[f] = id
    BY DEF FoundEdge
  <2>2. f \in edges /\ tail[f] \in nodes
    BY <2>1, LiveMembers, LiveEnds
  <2>3. tail[f] = t
    BY <2>1, <2>2, <1>6, NodeById
  <2> QED BY <2>1, <2>2, <2>3, <1>9
<1> DEFINE S == Climb(g, {})
           k1 == EdgeKey(tail', head', edgeId')
           k2 == EdgeKey(tail', head', edgeSeq')
           k3 == EdgeKey(head', tail', edgeId')
           k4 == EdgeKey(head', tail', edgeSeq')
<1>13. /\ outIdx' = Joined(outIdx, S, e, k1) /\ outSeq' = Joined(outSeq, S, e, k2)
       /\ inIdx' = Joined(inIdx, S, e, k3) /\ inSeq' = Joined(inSeq, S, e, k4)
  BY <1>7, <1>12 DEF AgedgeCreate, InstallEdge
<1>14. /\ S \subseteq Attached /\ Root \in S
       /\ \A s \in S \ {Root} : parent[s] \in S
  BY <1>1, ClimbFacts, ClimbsToRoot
<1>15. ASSUME NEW f \in edges
       PROVE  k1[f] # k1[e] /\ k2[f] # k2[e] /\ k3[f] # k3[e] /\ k4[f] # k4[e]
  <2>1. f \in Edge /\ tail[f] \in nodes /\ head[f] \in nodes
    BY LiveEnds
  <2>2. /\ k1[f] = <<tail[f], nodeId[head[f]], edgeId[f]>> /\ k1[e] = <<t, nodeId[h], id>>
        /\ k2[f] = <<tail[f], nodeId[head[f]], edgeSeq[f]>>
        /\ k2[e] = <<t, nodeId[h], edgeSeq'[e]>>
        /\ k3[f] = <<head[f], nodeId[tail[f]], edgeId[f]>> /\ k3[e] = <<h, nodeId[t], id>>
        /\ k4[f] = <<head[f], nodeId[tail[f]], edgeSeq[f]>>
        /\ k4[e] = <<h, nodeId[t], edgeSeq'[e]>>
    BY <2>1, <1>7 DEF EdgeKey
  <2>3. /\ nodeId[head[f]] = nodeId[h] => head[f] = h
        /\ nodeId[tail[f]] = nodeId[t] => tail[f] = t
    BY <2>1, <1>6, NodeById
  <2> HIDE DEF k1, k2, k3, k4
  <2> QED BY <2>2, <2>3, <1>9, <1>11
<1> HIDE DEF S, k1, k2, k3, k4
<1>16. ASSUME NEW x \in Attached
       PROVE  /\ \A f : f \in inIdx'[x] <=> f \in inIdx[x] \/ (x \in S /\ f = e)
              /\ outIdx'[x] = inIdx'[x] /\ outSeq'[x] = inIdx'[x] /\ inSeq'[x] = inIdx'[x]
  <2>1. /\ x \in Graph /\ inIdx[x] \subseteq edges
        /\ outIdx[x] = inIdx[x] /\ outSeq[x] = inIdx[x] /\ inSeq[x] = inIdx[x]
    BY <1>1, LiveMembers DEF ReachableClosed
  <2>2. /\ \A f \in inIdx[x] : k1[f] = k1[e] => f = e
        /\ \A f \in inIdx[x] : k2[f] = k2[e] => f = e
        /\ \A f \in inIdx[x] : k3[f] = k3[e] => f = e
        /\ \A f \in inIdx[x] : k4[f] = k4[e] => f = e
    BY <2>1, <1>15
  <2>3. /\ AddNew(inIdx[x], e, k1) = inIdx[x] \cup {e}
        /\ AddNew(inIdx[x], e, k2) = inIdx[x] \cup {e}
        /\ AddNew(inIdx[x], e, k3) = inIdx[x] \cup {e}
        /\ AddNew(inIdx[x], e, k4) = inIdx[x] \cup {e}
    BY <2>2, AddNewIs
  <2> QED BY <2>1, <2>3, <1>13 DEF Joined
<1>17. \A x \in Graph \ S :
         /\ outIdx'[x] = outIdx[x] /\ outSeq'[x] = outSeq[x]
         /\ inIdx'[x] = inIdx[x] /\ inSeq'[x] = inSeq[x]
  BY <1>13 DEF Joined
<1>18. Tree' /\ SiblingsDiffer'
  BY <1>2 DEF Inv, Tree, SiblingsDiffer
<1>19. Cleared'
  BY <1>1, <1>2, <1>14, <1>17 DEF Inv, Cleared, ReachableClosed
<1>20. Owned'
  <2>1. \A f : f \in inIdx'[Root] <=> f \in edges'
    BY <1>2, <1>5, <1>6, <1>14, <1>16
  <2>2. inIdx'[Root] = edges'
    BY <2>1
  <2> QED BY <2>2, <1>2, <1>6 DEF Owned
<1>21. SetsSound'
  <2>1. ASSUME NEW x \in Attached
        PROVE  /\ nIdx'[x] = nSeq'[x] /\ outIdx'[x] = outSeq'[x]
               /\ outIdx'[x] = inIdx'[x] /\ inIdx'[x] = inSeq'[x]
               /\ \A f \in inIdx'[x] : {tail'[f], head'[f]} \subseteq nIdx'[x]
               /\ nIdx'[x] \subseteq nodes' /\ inIdx'[x] \subseteq edges'
    <3>1. /\ nIdx[x] \subseteq nodes /\ nSeq[x] = nIdx[x] /\ inIdx[x] \subseteq edges
          /\ \A f \in inIdx[x] : tail[f] \in nIdx[x] /\ head[f] \in nIdx[x]
      BY LiveMembers
    <3>2. x \in S => t \in nIdx[x] /\ h \in nIdx[x]
      <4> DEFINE T == {s \in Attached : t \in nIdx[s] /\ h \in nIdx[s]}
      <4>1. g \in T /\ \A s \in Attached \ {Root} : s \in T => parent[s] \in T
        BY <1>1, <1>2 DEF SetsSound, SubgraphContainment
      <4> HIDE DEF T
      <4>2. S \subseteq T
        BY <1>1, <4>1, ClimbWithin DEF S
      <4> QED BY <4>2 DEF T
    <3>3. \A f \in inIdx'[x] : {tail'[f], head'[f]} \subseteq nIdx[x]
      BY <3>1, <3>2, <1>7, <1>16
    <3>4. nIdx' = nIdx /\ nSeq' = nSeq /\ nodes' = nodes /\ edges' = edges \cup {e}
      BY <1>2
    <3>5. inIdx'[x] \subseteq edges'
      BY <3>1, <3>4, <1>16
    <3> QED BY <3>1, <3>3, <3>4, <3>5, <1>16
  <2>2. ASSUME NEW x \in Attached \ {Root}
        PROVE  /\ parent'[x] \in Attached
               /\ nIdx'[x] \subseteq nIdx'[parent'[x]]
               /\ inIdx'[x] \subseteq inIdx'[parent'[x]]
    <3>1. /\ parent[x] \in Attached /\ nIdx[x] \subseteq nIdx[parent[x]]
          /\ inIdx[x] \subseteq inIdx[parent[x]]
      BY <1>1 DEF SetsSound, SubgraphContainment
    <3>2. x \in S => parent[x] \in S
      BY <1>14
    <3> QED BY <3>1, <3>2, <1>2, <1>16
  <2> QED BY <1>5, <2>1, <2>2
         DEF SetsSound, IndexesAgree, SubgraphContainment, EndpointsPresent, NoDangling
<1>22. Numbered'
  <2>1. seqCtr["edge"] \in Nat /\ \A f \in edges : edgeSeq[f] \in Nat
    BY <1>1 DEF TypeOK
  <2>2. \A f \in edges : edgeSeq[f] <= seqCtr["edge"]
    BY DEF Inv, Numbered
  <2>3. \A f \in edges' : edgeSeq'[f] <= seqCtr'["edge"]
    BY <2>1, <2>2, <1>2, <1>7, <1>10
  <2> QED BY <2>3, <1>2, <1>7, <1>10, <1>11 DEF Inv, Numbered
<1>23. AnonymousNew'
  BY <1>1, <1>2, <1>7, <1>8 DEF Inv, AnonymousNew, TypeOK
<1>24. UniqueIds'
  <2>1. ASSUME NEW f \in edges, NEW d \in edges, MultiEdge(f, d)'
        PROVE  edgeId'[f] # edgeId'[d]
    <3>1. MultiEdge(f, d)
      BY <2>1, <1>7 DEF MultiEdge
    <3> QED BY <3>1, <1>7 DEF Inv, UniqueIds
  <2>2. ASSUME NEW f \in edges, MultiEdge(f, e)' \/ MultiEdge(e, f)'
        PROVE  edgeId'[f] # edgeId'[e]
    BY <2>2, <1>7, <1>9 DEF MultiEdge
  <2>3. ~MultiEdge(e, e)'
    BY DEF MultiEdge
  <2>4. \A f, d \in edges' : MultiEdge(f, d)' => edgeId'[f] # edgeId'[d]
    BY <2>1, <2>2, <2>3, <1>2
  <2>5. \A m, n \in nodes' : nodeId'[m] = nodeId'[n] => m = n
    BY <1>2 DEF Inv, UniqueIds
  <2> QED BY <2>4, <2>5 DEF UniqueIds
<1>25. NamesHeld'
  <2>1. ASSUME NEW x \in Name
        PROVE  /\ References(x) \in Nat
               /\ References(x)' = References(x) + (IF id = x THEN 1 ELSE 0)
    <3>1. Uses(edges', edgeId', x) = Uses(edges, edgeId, x) + (IF id = x THEN 1 ELSE 0)
      <4>1. IsFiniteSet(edges)
        BY <1>1, FiniteSets
      <4>2. \A p \in edges : edgeId'[p] = edgeId[p]
        BY <1>7
      <4>3. /\ edgeId'[e] = x => Uses(edges \cup {e}, edgeId', x) = Uses(edges, edgeId, x) + 1
            /\ edgeId'[e] # x => Uses(edges \cup {e}, edgeId', x) = Uses(edges, edgeId, x)
        <5>1. e \notin edges
          BY <1>2
        <5> QED BY <4>1, <4>2, <5>1, UsesAdd
      <4> QED BY <1>1, <4>3, <1>2, <1>7, UsesNat
    <3>2. /\ Uses(Attached, graphId, x) \in Nat
          /\ Uses(nodes, nodeId, x) \in Nat
          /\ Uses(edges, edgeId, x) \in Nat
      BY <1>1, UsesNat
    <3> QED BY <3>1, <3>2, <1>2, <1>5 DEF References, Uses
  <2>2. \A x \in Name : refcnt[x] \in Int
    BY <1>1 DEF TypeOK
  <2>3. \A x \in Name : refcnt[x] >= References(x) => refcnt'[x] >= References(x)'
    BY <2>1, <2>2, <1>8
  <2>4. \A x \in Name : refcnt[x] = References(x) => refcnt'[x] = References(x)'
    BY <2>1, <2>2, <1>8
  <2> QED BY <2>3, <2>4, <1>2, <1>5 DEF Inv, NamesHeld
<1> QED BY <1>18, <1>19, <1>20, <1>21, <1>22, <1>23, <1>24, <1>25 DEF Inv

-----------------------------------------------------------------------------
(* Deletions in the root.                                                  *)

\* The nodes of N and the edges of E go from every reachable graph, and are
\* freed.
LEMMA FreedSafe ==
  ASSUME Inv, TypeOK', Root \in graphs, NEW N \in SUBSET nodes, NEW E \in SUBSET edges,
         UNCHANGED <<graphs, tree, anonCtr, seqCtr>>,
         nodes' = nodes \ N, edges' = edges \ E,
         \A n \in nodes \ N : nodeId'[n] = nodeId[n] /\ nodeSeq'[n] = nodeSeq[n],
         \A e \in edges \ E : /\ edgeId'[e] = edgeId[e] /\ edgeSeq'[e] = edgeSeq[e]
                              /\ tail'[e] = tail[e] /\ head'[e] = head[e],
         \A x \in Name : refcnt'[x] = refcnt[x] - Uses(N, nodeId, x) - Uses(E, edgeId, x),
         \A e \in edges \ E : tail[e] \notin N /\ head[e] \notin N,
         \A x \in Attached : nIdx'[x] = nIdx[x] \ N /\ nSeq'[x] = nIdx'[x],
         \A x \in Attached :
           /\ inIdx'[x] = inIdx[x] \ E
           /\ outIdx'[x] = inIdx'[x] /\ outSeq'[x] = inIdx'[x] /\ inSeq'[x] = inIdx'[x],
         \A x \in Graph \ Attached :
           /\ nIdx'[x] = nIdx[x] /\ nSeq'[x] = nSeq[x]
           /\ outIdx'[x] = outIdx[x] /\ outSeq'[x] = outSeq[x]
           /\ inIdx'[x] = inIdx[x] /\ inSeq'[x] = inSeq[x]
  PROVE  Inv'
<1>1. /\ ReachableClosed /\ TypeOK /\ Tree /\ SetsSound
  BY Reachable DEF Inv
<1>2. graphs' = graphs /\ gDict' = gDict /\ parent' = parent /\ graphId' = graphId
  BY DEF tree
<1>3. Attached' = Attached /\ Root \in Attached
  <2>1. Attached' = Attached
    BY <1>2 DEF Attached, Visit
  <2>2. Root \in Attached
    BY <1>1 DEF ReachableClosed
  <2> QED BY <2>1, <2>2
<1>4. Tree' /\ SiblingsDiffer'
  BY <1>2 DEF Inv, Tree, SiblingsDiffer
<1>5. Cleared'
  BY <1>1, <1>2 DEF Inv, Cleared, ReachableClosed
<1>6. nodes = nIdx[Root] /\ edges = inIdx[Root]
  BY <1>3, LiveMembers
<1>7. Owned'
  BY <1>2, <1>3, <1>6 DEF Owned
<1>8. SetsSound'
  <2>1. ASSUME NEW x \in Attached
        PROVE  /\ nIdx'[x] = nSeq'[x] /\ outIdx'[x] = outSeq'[x]
               /\ outIdx'[x] = inIdx'[x] /\ inIdx'[x] = inSeq'[x]
               /\ \A e \in inIdx'[x] : {tail'[e], head'[e]} \subseteq nIdx'[x]
               /\ nIdx'[x] \subseteq nodes' /\ inIdx'[x] \subseteq edges'
    <3>1. /\ nIdx[x] \subseteq nodes /\ inIdx[x] \subseteq edges
          /\ \A e \in inIdx[x] : tail[e] \in nIdx[x] /\ head[e] \in nIdx[x]
      BY LiveMembers
    <3> QED BY <3>1
  <2>2. ASSUME NEW x \in Attached \ {Root}
        PROVE  /\ parent'[x] \in Attached
               /\ nIdx'[x] \subseteq nIdx'[parent'[x]]
               /\ inIdx'[x] \subseteq inIdx'[parent'[x]]
    <3>1. /\ parent[x] \in Attached /\ nIdx[x] \subseteq nIdx[parent[x]]
          /\ inIdx[x] \subseteq inIdx[parent[x]]
      BY <1>1 DEF SetsSound, SubgraphContainment
    <3> QED BY <3>1, <1>2
  <2> QED BY <1>3, <2>1, <2>2
         DEF SetsSound, IndexesAgree, SubgraphContainment, EndpointsPresent, NoDangling
<1>9. Numbered'
  BY DEF Inv, Numbered
<1>10. AnonymousNew'
  BY <1>2 DEF Inv, AnonymousNew
<1>11. UniqueIds'
  BY DEF Inv, UniqueIds, MultiEdge
<1>12. NamesHeld'
  <2>1. ASSUME NEW x \in Name
        PROVE  /\ References(x) \in Int
               /\ References(x)' = References(x) - Uses(N, nodeId, x) - Uses(E, edgeId, x)
               /\ Uses(N, nodeId, x) \in Nat /\ Uses(E, edgeId, x) \in Nat
    <3>1. IsFiniteSet(nodes) /\ \A p \in nodes' : nodeId'[p] = nodeId[p]
      BY <1>1, FiniteSets
    <3>2. IsFiniteSet(edges) /\ \A p \in edges' : edgeId'[p] = edgeId[p]
      BY <1>1, FiniteSets
    <3>3. /\ Uses(nodes', nodeId', x) = Uses(nodes, nodeId, x) - Uses(N, nodeId, x)
          /\ Uses(edges', edgeId', x) = Uses(edges, edgeId, x) - Uses(E, edgeId, x)
      <4>1. Uses(nodes', nodeId', x) = Uses(nodes, nodeId, x) - Uses(N, nodeId, x)
        BY ONLY <3>1, UsesMinus, N \subseteq nodes, nodes' = nodes \ N
      <4>2. Uses(edges', edgeId', x) = Uses(edges, edgeId, x) - Uses(E, edgeId, x)
        BY ONLY <3>2, UsesMinus, E \subseteq edges, edges' = edges \ E
      <4> QED BY <4>1, <4>2
    <3>7. /\ Uses(N, nodeId, x) \in Nat /\ Uses(nodes, nodeId, x) \in Nat
          /\ Uses(E, edgeId, x) \in Nat /\ Uses(edges, edgeId, x) \in Nat
      <4>1. IsFiniteSet(N) /\ IsFiniteSet(E)
        BY <3>1, <3>2, FS_Subset
      <4> QED BY <3>1, <3>2, <4>1, UsesType
    <3>4. Uses(Attached, graphId, x) \in Nat
      BY <1>1, UsesNat
    <3>5. Uses(Attached, graphId, x)' = Uses(Attached, graphId, x)
      BY <1>2, <1>3 DEF Uses
    <3>6. /\ Uses(nodes, nodeId, x)' = Uses(nodes', nodeId', x)
          /\ Uses(edges, edgeId, x)' = Uses(edges', edgeId', x)
      BY DEF Uses
    <3> QED BY <3>3, <3>4, <3>5, <3>6, <3>7 DEF References
  <2>2. \A x \in Name : refcnt[x] \in Int
    BY <1>1 DEF TypeOK
  <2>3. \A x \in Name : refcnt[x] >= References(x) => refcnt'[x] >= References(x)'
    BY <2>1, <2>2
  <2>4. \A x \in Name : refcnt[x] = References(x) => refcnt'[x] = References(x)'
    BY <2>1, <2>2
  <2> QED BY <2>3, <2>4, <1>2, <1>3 DEF Inv, NamesHeld
<1> QED BY <1>4, <1>5, <1>7, <1>8, <1>9, <1>10, <1>11, <1>12 DEF Inv

\* What the fields of a graph, a node or an edge are after some were freed.
LEMMA BlankIs ==
  ASSUME NEW field, NEW X, NEW v, NEW x \in DOMAIN field
  PROVE  /\ x \notin X => Blank(field, X, v)[x] = field[x]
         /\ x \in X => Blank(field, X, v)[x] = v
BY DEF Blank

LEMMA FreeNodesIs ==
  ASSUME TypeOK, NEW N, FreeNodes(N)
  PROVE  /\ nodes' = nodes \ N
         /\ \A n \in nodes \ N : nodeId'[n] = nodeId[n] /\ nodeSeq'[n] = nodeSeq[n]
BY BlankIs DEF FreeNodes, TypeOK

LEMMA FreeEdgesIs ==
  ASSUME TypeOK, NEW E, FreeEdges(E)
  PROVE  /\ edges' = edges \ E
         /\ \A e \in edges \ E : /\ edgeId'[e] = edgeId[e] /\ edgeSeq'[e] = edgeSeq[e]
                                 /\ tail'[e] = tail[e] /\ head'[e] = head[e]
<1>1. \A e \in edges : e \in DOMAIN edgeId /\ e \in DOMAIN edgeSeq /\ e \in DOMAIN tail /\ e \in DOMAIN head
  BY DEF TypeOK
<1> QED BY <1>1, BlankIs DEF FreeEdges

\* agdeledge in the root frees e, and takes it from every graph.
LEMMA AgdeledgeRootIs ==
  ASSUME Inv, NEW e \in Edge, AgdeledgeRoot(e)
  PROVE  /\ Root \in graphs /\ e \in edges
         /\ \A x \in Attached :
              /\ inIdx'[x] = inIdx[x] \ {e}
              /\ outIdx'[x] = inIdx'[x] /\ outSeq'[x] = inIdx'[x] /\ inSeq'[x] = inIdx'[x]
         /\ \A x \in Graph \ Attached :
              /\ outIdx'[x] = outIdx[x] /\ outSeq'[x] = outSeq[x]
              /\ inIdx'[x] = inIdx[x] /\ inSeq'[x] = inSeq[x]
         /\ FreeIds({}, {}, {e}) /\ FreeEdges({e})
         /\ UNCHANGED <<graphs, nodes, tree, ntags, nsets, seqCtr>>
<1> DEFINE S == EdgeVisit(Root, e)
           lost == Images(S, {e})
<1>1. /\ ReachableClosed /\ TypeOK /\ Tree /\ SetsSound
  BY Reachable DEF Inv
<1>2. /\ Root \in graphs /\ e \in edges /\ DropEdges(lost)
      /\ FreeIds({}, {}, {e}) /\ FreeEdges({e})
      /\ UNCHANGED <<graphs, nodes, tree, ntags, nsets, seqCtr>>
  BY DEF AgdeledgeRoot
<1>3. Root \in Attached /\ Attached = Visit(Root, Graph)
  BY <1>1, <1>2 DEF ReachableClosed, Attached
<1>4. /\ S \subseteq Attached
      /\ \A s \in Attached : e \in inIdx[s] => s \in S
  BY <1>2, <1>3, EdgeVisitFacts
<1> HIDE DEF S
<1>5. /\ \A x \in Graph : x \in S => lost[x] = {e}
      /\ \A x \in Graph : x \notin S => lost[x] = {}
  BY DEF Images
<1> HIDE DEF lost
<1>6. /\ \A x \in Graph : lost[x] \subseteq edges
      /\ \A x \in Graph \ Attached : lost[x] = {}
  BY <1>2, <1>4, <1>5
<1>7. /\ \A x \in Attached :
           /\ inIdx'[x] = inIdx[x] \ lost[x]
           /\ outIdx'[x] = inIdx'[x] /\ outSeq'[x] = inIdx'[x] /\ inSeq'[x] = inIdx'[x]
      /\ \A x \in Graph \ Attached :
           /\ outIdx'[x] = outIdx[x] /\ outSeq'[x] = outSeq[x]
           /\ inIdx'[x] = inIdx[x] /\ inSeq'[x] = inSeq[x]
  BY <1>2, <1>6, DropEdgesIs
<1>9. \A x \in Attached : inIdx[x] \ lost[x] = inIdx[x] \ {e}
  BY <1>1, <1>4, <1>5 DEF ReachableClosed
<1> QED BY <1>2, <1>7, <1>9

LEMMA AgdeledgeRootSafe ==
  ASSUME Inv, TypeOK', NEW e \in Edge, AgdeledgeRoot(e)
  PROVE  Inv'
<1>1. TypeOK
  BY DEF Inv
<1>2. /\ Root \in graphs /\ e \in edges
      /\ FreeIds({}, {}, {e}) /\ FreeEdges({e})
      /\ UNCHANGED <<graphs, nodes, tree, ntags, nsets, seqCtr>>
  BY AgdeledgeRootIs
<1>8. nIdx' = nIdx /\ nSeq' = nSeq /\ nodes' = nodes /\ nodeId' = nodeId /\ nodeSeq' = nodeSeq
  BY <1>2 DEF nsets, ntags
<1>10. /\ edges' = edges \ {e}
       /\ \A f \in edges \ {e} : /\ edgeId'[f] = edgeId[f] /\ edgeSeq'[f] = edgeSeq[f]
                                 /\ tail'[f] = tail[f] /\ head'[f] = head[f]
  BY <1>1, <1>2, FreeEdgesIs
<1>11. \A x \in Name :
         refcnt'[x] = refcnt[x] - Uses({}, nodeId, x) - Uses({e}, edgeId, x)
  <2> TAKE x \in Name
  <2>1. refcnt'[x] = refcnt[x] - Uses({}, graphId, x) - Uses({}, nodeId, x) - Uses({e}, edgeId, x)
    BY <1>2 DEF FreeIds, Uses
  <2>2. Uses({}, graphId, x) = 0 /\ refcnt[x] \in Int
    BY <1>1, UsesNone DEF TypeOK
  <2> QED BY <2>1, <2>2
<1>12. \A x \in Attached : nIdx'[x] = nIdx[x] \ {} /\ nSeq'[x] = nIdx'[x]
  BY <1>8, LiveMembers
<1>13. \A x \in Attached :
         /\ inIdx'[x] = inIdx[x] \ {e}
         /\ outIdx'[x] = inIdx'[x] /\ outSeq'[x] = inIdx'[x] /\ inSeq'[x] = inIdx'[x]
  BY AgdeledgeRootIs
<1>14. \A x \in Graph \ Attached :
         /\ nIdx'[x] = nIdx[x] /\ nSeq'[x] = nSeq[x]
         /\ outIdx'[x] = outIdx[x] /\ outSeq'[x] = outSeq[x]
         /\ inIdx'[x] = inIdx[x] /\ inSeq'[x] = inSeq[x]
  BY <1>8, AgdeledgeRootIs
<1>15. {} \in SUBSET nodes /\ {e} \in SUBSET edges /\ nodes' = nodes \ {}
  BY <1>2, <1>8
<1>16. \A n \in nodes \ {} : nodeId'[n] = nodeId[n] /\ nodeSeq'[n] = nodeSeq[n]
  BY <1>8
<1>17. \A f \in edges \ {e} : tail[f] \notin {} /\ head[f] \notin {}
  OBVIOUS
<1>18. UNCHANGED <<graphs, tree, anonCtr, seqCtr>>
  BY <1>2 DEF FreeIds
<1> QED BY <1>2, <1>10, <1>11, <1>12, <1>13, <1>14, <1>15, <1>16, <1>17, <1>18, FreedSafe

Touching(n) == {e \in edges : n \in {tail[e], head[e]}}

\* agdelnode in the root frees n and the edges of n, and takes them from every
\* graph.
LEMMA AgdelnodeRootIs ==
  ASSUME Inv, NEW n \in Node, AgdelnodeRoot(n)
  PROVE  /\ Root \in graphs /\ n \in nodes
         /\ \A x \in Attached :
              /\ nIdx'[x] = nIdx[x] \ {n} /\ nSeq'[x] = nIdx'[x]
              /\ inIdx'[x] = inIdx[x] \ Touching(n)
              /\ outIdx'[x] = inIdx'[x] /\ outSeq'[x] = inIdx'[x] /\ inSeq'[x] = inIdx'[x]
         /\ \A x \in Graph \ Attached :
              /\ nIdx'[x] = nIdx[x] /\ nSeq'[x] = nSeq[x]
              /\ outIdx'[x] = outIdx[x] /\ outSeq'[x] = outSeq[x]
              /\ inIdx'[x] = inIdx[x] /\ inSeq'[x] = inSeq[x]
         /\ FreeIds({}, {n}, Touching(n)) /\ FreeNodes({n}) /\ FreeEdges(Touching(n))
         /\ UNCHANGED <<graphs, tree, seqCtr>>
<1> DEFINE S == NodeVisit(Root, n)
           freed == {e \in Incident(Root, n) :
                       FoundEdge(Root, tail[e], head[e], edgeId[e]) # {}}
           lost == [s \in Graph |->
                      {e \in freed : s \in EdgeVisit(Root, e)}
                        \cup (IF s \in S THEN Incident(s, n) ELSE {})]
<1>1. /\ ReachableClosed /\ TypeOK /\ Tree /\ SetsSound
  BY Reachable DEF Inv
<1>2. /\ Root \in graphs /\ n \in nodes /\ DropEdges(lost) /\ DropNode(S, n)
      /\ FreeIds({}, {n}, freed) /\ FreeNodes({n}) /\ FreeEdges(freed)
      /\ UNCHANGED <<graphs, tree, seqCtr>>
  BY DEF AgdelnodeRoot
<1>3. Root \in Attached /\ Attached = Visit(Root, Graph)
  BY <1>1, <1>2 DEF ReachableClosed, Attached
<1>4. nodes = nIdx[Root] /\ edges = inIdx[Root]
  BY <1>3, LiveMembers
<1>5. /\ S \subseteq Attached
      /\ \A s \in Attached : n \in nIdx[s] => s \in S
  BY <1>2, <1>3, NodeVisitFacts
<1>6. \A e : e \in freed <=> e \in edges /\ n \in {tail[e], head[e]}
  <2>1. Incident(Root, n) = {e \in inIdx[Root] : n \in {tail[e], head[e]}}
    BY <1>3, IncidentIs
  <2>2. \A e \in edges : FoundEdge(Root, tail[e], head[e], edgeId[e]) = {e}
    BY <1>3, <1>4, FoundEdgeIs
  <2> QED BY <2>1, <2>2, <1>4
<1>7. \A e \in freed :
        /\ EdgeVisit(Root, e) \subseteq Attached
        /\ \A s \in Attached : e \in inIdx[s] => s \in EdgeVisit(Root, e)
  BY <1>3, <1>6, EdgeVisitFacts
<1>8. \A x \in Graph : \A e : e \in lost[x] <=>
        \/ e \in freed /\ x \in EdgeVisit(Root, e)
        \/ x \in S /\ e \in Incident(x, n)
  OBVIOUS
<1> HIDE DEF S, freed, lost
<1>9. ASSUME NEW x \in Attached
      PROVE  /\ lost[x] \subseteq edges
             /\ inIdx[x] \ lost[x] = inIdx[x] \ freed
  <2>1. Incident(x, n) = {e \in inIdx[x] : n \in {tail[e], head[e]}}
    BY IncidentIs
  <2>2. x \in Graph /\ inIdx[x] \subseteq edges
    BY <1>1, LiveMembers DEF ReachableClosed
  <2>3. lost[x] \subseteq freed
    BY <1>6, <1>8, <2>1, <2>2
  <2>4. \A e \in inIdx[x] : e \in freed => e \in lost[x]
    BY <1>7, <1>8, <2>2
  <2> QED BY <2>3, <2>4, <1>6
<1>10. \A x \in Graph \ Attached : lost[x] = {}
  BY <1>5, <1>7, <1>8
<1>11. \A x \in Graph : lost[x] \subseteq edges
  BY <1>9, <1>10
<1>12. /\ \A x \in Attached :
            /\ inIdx'[x] = inIdx[x] \ lost[x]
            /\ outIdx'[x] = inIdx'[x] /\ outSeq'[x] = inIdx'[x] /\ inSeq'[x] = inIdx'[x]
       /\ \A x \in Graph \ Attached :
            /\ outIdx'[x] = outIdx[x] /\ outSeq'[x] = outSeq[x]
            /\ inIdx'[x] = inIdx[x] /\ inSeq'[x] = inSeq[x]
  BY <1>2, <1>10, <1>11, DropEdgesIs
<1>13. /\ \A x \in Attached :
            /\ x \in S => nIdx'[x] = nIdx[x] \ {n}
            /\ x \notin S => nIdx'[x] = nIdx[x]
            /\ nSeq'[x] = nIdx'[x]
       /\ \A x \in Graph \ Attached : nIdx'[x] = nIdx[x] /\ nSeq'[x] = nSeq[x]
  BY <1>2, <1>5, DropNodeIs
<1>14. \A x \in Attached : nIdx'[x] = nIdx[x] \ {n} /\ nSeq'[x] = nIdx'[x]
  <2> TAKE x \in Attached
  <2>1. x \notin S => nIdx[x] = nIdx[x] \ {n}
    BY <1>5
  <2> QED BY <2>1, <1>13
<1>15. freed = Touching(n)
  BY <1>6 DEF Touching
<1> QED BY <1>2, <1>9, <1>12, <1>13, <1>14, <1>15

LEMMA AgdelnodeRootSafe ==
  ASSUME Inv, TypeOK', NEW n \in Node, AgdelnodeRoot(n)
  PROVE  Inv'
<1> DEFINE freed == Touching(n)
<1>1. TypeOK
  BY DEF Inv
<1>2. /\ Root \in graphs /\ n \in nodes
      /\ FreeIds({}, {n}, freed) /\ FreeNodes({n}) /\ FreeEdges(freed)
      /\ UNCHANGED <<graphs, tree, seqCtr>>
  BY AgdelnodeRootIs
<1>3. /\ \A x \in Attached : nIdx'[x] = nIdx[x] \ {n} /\ nSeq'[x] = nIdx'[x]
      /\ \A x \in Attached :
           /\ inIdx'[x] = inIdx[x] \ freed
           /\ outIdx'[x] = inIdx'[x] /\ outSeq'[x] = inIdx'[x] /\ inSeq'[x] = inIdx'[x]
      /\ \A x \in Graph \ Attached :
           /\ nIdx'[x] = nIdx[x] /\ nSeq'[x] = nSeq[x]
           /\ outIdx'[x] = outIdx[x] /\ outSeq'[x] = outSeq[x]
           /\ inIdx'[x] = inIdx[x] /\ inSeq'[x] = inSeq[x]
  BY AgdelnodeRootIs
<1>4. {n} \in SUBSET nodes /\ freed \in SUBSET edges
  BY <1>2 DEF Touching
<1>5. \A f \in edges \ freed : tail[f] \notin {n} /\ head[f] \notin {n}
  BY DEF Touching
<1> HIDE DEF freed
<1>15. /\ edges' = edges \ freed
       /\ \A f \in edges \ freed : /\ edgeId'[f] = edgeId[f] /\ edgeSeq'[f] = edgeSeq[f]
                                   /\ tail'[f] = tail[f] /\ head'[f] = head[f]
  BY <1>1, <1>2, FreeEdgesIs
<1>16. /\ nodes' = nodes \ {n}
       /\ \A m \in nodes \ {n} : nodeId'[m] = nodeId[m] /\ nodeSeq'[m] = nodeSeq[m]
  BY <1>1, <1>2, FreeNodesIs
<1>17. \A x \in Name :
         refcnt'[x] = refcnt[x] - Uses({n}, nodeId, x) - Uses(freed, edgeId, x)
  <2> TAKE x \in Name
  <2>1. refcnt'[x] = refcnt[x] - Uses({}, graphId, x) - Uses({n}, nodeId, x)
                       - Uses(freed, edgeId, x)
    BY <1>2 DEF FreeIds, Uses
  <2>2. Uses({}, graphId, x) = 0 /\ refcnt[x] \in Int
    BY <1>1, UsesNone DEF TypeOK
  <2> QED BY <2>1, <2>2
<1>18. UNCHANGED <<graphs, tree, anonCtr, seqCtr>>
  BY <1>2 DEF FreeIds
<1> QED BY <1>2, <1>3, <1>4, <1>5, <1>15, <1>16, <1>17, <1>18, FreedSafe

-----------------------------------------------------------------------------
(* Opening and closing.                                                    *)

LEMMA AgopenSafe ==
  ASSUME Inv, TypeOK', Agopen
  PROVE  Inv'
<1> USE DEF objs, tree, ntags, etags, nsets, esets, ids
<1>1. /\ TypeOK /\ Tree
      /\ Root \notin graphs /\ graphs' = graphs \cup {Root}
      /\ parent' = [parent EXCEPT ![Root] = NULL]
      /\ gDict' = [gDict EXCEPT ![Root] = {}]
      /\ graphId' = [graphId EXCEPT ![Root] = RootName]
      /\ refcnt' = [x \in Name |-> IF x = RootName THEN 1 ELSE 0]
      /\ seqCtr' = [k \in {"node", "edge"} |-> 0]
      /\ UNCHANGED <<nodes, edges, nodeId, nodeSeq, edgeId, edgeSeq, tail, head,
                     nIdx, nSeq, outIdx, outSeq, inIdx, inSeq, anonCtr>>
  BY DEF Agopen, Inv
<1>2. /\ Root \in Graph /\ RootName \in Name /\ RootName \notin Int
  BY GraphAssumption DEF GraphAssumption
<1>3. /\ nodes = {} /\ edges = {} /\ gDict[Root] = {}
      /\ nIdx[Root] = {} /\ nSeq[Root] = {}
      /\ outIdx[Root] = {} /\ outSeq[Root] = {} /\ inIdx[Root] = {} /\ inSeq[Root] = {}
  BY <1>1, <1>2 DEF Inv, Owned, Cleared
<1>4. gDict' = gDict /\ \A g \in Graph \ {Root} : graphId'[g] = graphId[g] /\ parent'[g] = parent[g]
  BY <1>1, <1>2, <1>3 DEF TypeOK
<1>5. parent'[Root] = NULL /\ graphId'[Root] = RootName
  BY <1>1, <1>2 DEF TypeOK
<1>6. Tree'
  BY <1>1, <1>4, <1>5 DEF Tree
<1>7. Attached' = {Root}
  <2>1. Attached' = Down(gDict', Root, Graph)
    BY <1>1 DEF Attached, Visit, Down
  <2>2. Down(gDict', Root, Graph) \subseteq {Root}
    BY <1>2, <1>3, <1>4, DownLeast
  <2>3. Root \in Down(gDict', Root, Graph)
    BY <1>2, DownClosed
  <2> QED BY <2>1, <2>2, <2>3
<1>8. Cleared'
  BY <1>1, <1>4 DEF Inv, Cleared
<1>9. Owned'
  BY <1>1, <1>3 DEF Owned
<1>10. SetsSound'
  BY <1>1, <1>3, <1>7
     DEF SetsSound, IndexesAgree, SubgraphContainment, EndpointsPresent, NoDangling
<1>11. Numbered'
  <2>1. MaxSeq \in Nat
    BY GraphAssumption DEF GraphAssumption
  <2> QED BY <1>1, <1>3, <2>1 DEF Numbered
<1>12. AnonymousNew'
  BY <1>1, <1>2, <1>3, <1>4, <1>5 DEF Inv, AnonymousNew, TypeOK
<1>13. SiblingsDiffer'
  BY <1>1, <1>4 DEF Inv, SiblingsDiffer, Tree
<1>14. UniqueIds'
  BY <1>1, <1>3 DEF UniqueIds
<1>15. ASSUME NEW x \in Name PROVE refcnt'[x] = References(x)' /\ References(x)' \in Int
  <2>1. Uses(nodes, nodeId, x)' = 0 /\ Uses(edges, edgeId, x)' = 0
    <3>1. Uses(nodes, nodeId, x)' = Uses({}, nodeId', x) /\ Uses(edges, edgeId, x)' = Uses({}, edgeId', x)
      BY <1>1, <1>3 DEF Uses
    <3> QED BY <3>1, UsesNone
  <2>2. Uses(Attached, graphId, x)' = IF RootName = x THEN 1 ELSE 0
    <3>1. Uses(Attached, graphId, x)' = Uses({Root}, graphId', x)
      BY <1>7 DEF Uses
    <3> QED BY <3>1, <1>5, UsesOne
  <2>3. refcnt'[x] = IF RootName = x THEN 1 ELSE 0
    BY <1>1
  <2> QED BY <2>1, <2>2, <2>3 DEF References
<1>16. ~ClientDetaches => graphs' = {Root}
  BY <1>1 DEF Inv, NamesHeld, Attached
<1>17. NamesHeld'
  BY <1>7, <1>15, <1>16 DEF NamesHeld
<1> QED BY <1>6, <1>8, <1>9, <1>10, <1>11, <1>12, <1>13, <1>14, <1>17 DEF Inv

LEMMA FreeGraphsIs ==
  ASSUME TypeOK, NEW G, FreeGraphs(G)
  PROVE  /\ graphs' = graphs \ G
         /\ \A x \in Graph \ G :
              /\ parent'[x] = parent[x] /\ graphId'[x] = graphId[x]
              /\ nIdx'[x] = nIdx[x] /\ nSeq'[x] = nSeq[x]
              /\ outIdx'[x] = outIdx[x] /\ outSeq'[x] = outSeq[x]
              /\ inIdx'[x] = inIdx[x] /\ inSeq'[x] = inSeq[x]
         /\ \A x \in Graph \cap G :
              /\ parent'[x] = NULL
              /\ nIdx'[x] = {} /\ nSeq'[x] = {}
              /\ outIdx'[x] = {} /\ outSeq'[x] = {} /\ inIdx'[x] = {} /\ inSeq'[x] = {}
<1>1. /\ parent' = Blank(parent, G, NULL) /\ graphId' = Blank(graphId, G, NoId)
      /\ nIdx' = Blank(nIdx, G, {}) /\ nSeq' = Blank(nSeq, G, {})
      /\ outIdx' = Blank(outIdx, G, {}) /\ outSeq' = Blank(outSeq, G, {})
      /\ inIdx' = Blank(inIdx, G, {}) /\ inSeq' = Blank(inSeq, G, {})
      /\ graphs' = graphs \ G
  BY DEF FreeGraphs
<1>2. \A x \in Graph :
        /\ x \in DOMAIN parent /\ x \in DOMAIN graphId
        /\ x \in DOMAIN nIdx /\ x \in DOMAIN nSeq
        /\ x \in DOMAIN outIdx /\ x \in DOMAIN outSeq
        /\ x \in DOMAIN inIdx /\ x \in DOMAIN inSeq
  BY DEF TypeOK
<1> QED BY <1>1, <1>2, BlankIs

\* Closing the root deletes every node, and every edge with one of its ends.
LEMMA SweptAll ==
  ASSUME Inv, Root \in Attached
  PROVE  /\ Swept = nodes
         /\ edges \subseteq {e \in UNION {Incident(Root, n) : n \in Swept} :
                             FoundEdge(Root, tail[e], head[e], edgeId[e]) # {}}
<1> DEFINE freed == {e \in UNION {Incident(Root, n) : n \in Swept} :
                       FoundEdge(Root, tail[e], head[e], edgeId[e]) # {}}
<1>3. Root \in Attached
  OBVIOUS
<1>4. nodes = nIdx[Root] /\ edges = inIdx[Root] /\ nSeq[Root] = nIdx[Root]
  BY <1>3, LiveMembers
<1>5. Swept = nodes
  <2>1. \A n \in nodes : FoundNode(Root, nodeId[n]) = {n}
    BY <1>3, <1>4, FoundNodeIs
  <2> QED BY <2>1, <1>4 DEF Swept
<1>6. edges \subseteq freed
  <2> SUFFICES ASSUME NEW e \in edges PROVE e \in freed
    OBVIOUS
  <2>1. FoundEdge(Root, tail[e], head[e], edgeId[e]) = {e}
    BY <1>3, <1>4, FoundEdgeIs
  <2>2. tail[e] \in Swept
    BY <1>5, LiveEnds
  <2>3. e \in Incident(Root, tail[e])
    BY <1>3, <1>4, IncidentIs
  <2> QED BY <2>1, <2>2, <2>3
<1> QED BY <1>5, <1>6

LEMMA AgcloseRootSafe ==
  ASSUME Inv, TypeOK', AgcloseRoot
  PROVE  Inv'
<1> DEFINE freed == {e \in UNION {Incident(Root, n) : n \in Swept} :
                       FoundEdge(Root, tail[e], head[e], edgeId[e]) # {}}
<1>1. /\ ReachableClosed /\ TypeOK /\ Tree /\ SetsSound
  BY Reachable DEF Inv
<1>2. /\ Root \in graphs /\ FreeGraphs(Attached) /\ gDict' = Blank(gDict, Attached, {})
      /\ FreeNodes(Swept) /\ FreeEdges(freed)
      /\ refcnt' = [x \in Name |-> 0] /\ anonCtr' = anonCtr /\ seqCtr' = seqCtr
  BY DEF AgcloseRoot
<1>3. /\ Root \in Attached /\ Attached \subseteq graphs /\ Attached \subseteq Graph
      /\ Root \in Graph
  BY <1>1, <1>2, RootIsGraph DEF ReachableClosed
<1>4. nodes = nIdx[Root] /\ edges = inIdx[Root] /\ nSeq[Root] = nIdx[Root]
  BY <1>3, LiveMembers
<1>5. Swept = nodes /\ edges \subseteq freed
  BY <1>3, SweptAll
<1> HIDE DEF freed
<1>7. nodes' = {} /\ edges' = {}
  BY <1>1, <1>2, <1>5, FreeNodesIs, FreeEdgesIs
<1>8. /\ graphs' = graphs \ Attached
      /\ \A x \in Graph \ Attached :
           /\ parent'[x] = parent[x] /\ graphId'[x] = graphId[x]
           /\ nIdx'[x] = nIdx[x] /\ nSeq'[x] = nSeq[x]
           /\ outIdx'[x] = outIdx[x] /\ outSeq'[x] = outSeq[x]
           /\ inIdx'[x] = inIdx[x] /\ inSeq'[x] = inSeq[x]
      /\ \A x \in Graph \cap Attached :
           /\ parent'[x] = NULL
           /\ nIdx'[x] = {} /\ nSeq'[x] = {}
           /\ outIdx'[x] = {} /\ outSeq'[x] = {} /\ inIdx'[x] = {} /\ inSeq'[x] = {}
  BY <1>1, <1>2, FreeGraphsIs
<1>9. \A p \in Graph : /\ p \in Attached => gDict'[p] = {}
                       /\ p \notin Attached => gDict'[p] = gDict[p]
  <2>1. \A p \in Graph : p \in DOMAIN gDict
    BY <1>1 DEF TypeOK
  <2> QED BY <2>1, <1>2, BlankIs
<1>10. \A p \in Graph \ Attached : \A s \in gDict[p] :
         s \in Graph \ Attached /\ s \in graphs \ {Root} /\ parent[s] = p
  BY <1>1 DEF Tree, TypeOK, ReachableClosed
<1>11. Tree'
  BY <1>3, <1>8, <1>9, <1>10 DEF Tree
<1>12. Attached' = {}
  BY <1>3, <1>8 DEF Attached
<1>13. Cleared'
  BY <1>8, <1>9 DEF Inv, Cleared
<1>14. Owned'
  BY <1>3, <1>7, <1>8 DEF Owned
<1>15. SetsSound'
  BY <1>12 DEF SetsSound, IndexesAgree, SubgraphContainment, EndpointsPresent, NoDangling
<1>16. Numbered' /\ UniqueIds'
  BY <1>2, <1>7 DEF Inv, Numbered, UniqueIds
<1>17. AnonymousNew'
  <2>1. \A x \in graphs' : x \in graphs /\ graphId'[x] = graphId[x]
    BY <1>1, <1>8 DEF TypeOK
  <2> QED BY <2>1, <1>2, <1>7 DEF Inv, AnonymousNew
<1>18. SiblingsDiffer'
  BY <1>8, <1>9, <1>10 DEF Inv, SiblingsDiffer
<1>19. NamesHeld'
  <2>1. ASSUME NEW x \in Name PROVE References(x)' = 0
    <3>1. /\ Uses(Attached, graphId, x)' = Uses({}, graphId', x)
          /\ Uses(nodes, nodeId, x)' = Uses({}, nodeId', x)
          /\ Uses(edges, edgeId, x)' = Uses({}, edgeId', x)
      BY <1>7, <1>12 DEF Uses
    <3> QED BY <3>1, UsesNone DEF References
  <2>2. ~ClientDetaches => graphs' = Attached'
    BY <1>8, <1>12 DEF Inv, NamesHeld
  <2> QED BY <2>1, <2>2, <1>2 DEF NamesHeld
<1> QED BY <1>11, <1>13, <1>14, <1>15, <1>16, <1>17, <1>18, <1>19 DEF Inv

\* A subgraph is above nothing that is above it.
LEMMA ParentOutside ==
  ASSUME TypeOK, Tree, NEW g \in Attached \ {Root}
  PROVE  Root \notin Visit(g, Graph) /\ parent[g] \notin Visit(g, Graph)
<1>1. ReachableClosed
  BY Reachable
<1>2. /\ Visit(g, Graph) \subseteq Attached /\ g \in Visit(g, Graph)
      /\ \A s \in Visit(g, Graph) \ {g} : s # Root /\ parent[s] \in Visit(g, Graph)
  BY VisitFacts
<1>3. Root \notin Visit(g, Graph)
  BY <1>2
<1> SUFFICES ASSUME parent[g] \in Visit(g, Graph) PROVE FALSE
  BY <1>3
<1> DEFINE T == Attached \ Visit(g, Graph)
<1>4. Root \in T
  BY <1>1, <1>3 DEF ReachableClosed
<1>5. \A p \in T \cap Graph : \A s \in gDict[p] : s \in Graph => s \in T
  BY <1>1, <1>2 DEF ReachableClosed
<1>6. Attached = Down(gDict, Root, Graph)
  BY VisitIsDown DEF Attached
<1> HIDE DEF T
<1>7. Down(gDict, Root, Graph) \subseteq T
  BY <1>4, <1>5, RootIsGraph, DownLeast
<1> QED BY <1>2, <1>6, <1>7 DEF T

LEMMA AgcloseSubgSafe ==
  ASSUME Inv, TypeOK', NEW g \in Attached, AgcloseSubg(g)
  PROVE  Inv'
<1> DEFINE gone == Visit(g, Graph)
<1>1. /\ ReachableClosed /\ TypeOK /\ Tree /\ SetsSound
  BY Reachable DEF Inv
<1>2. /\ g # Root /\ FreeGraphs(gone)
      /\ gDict' = [Blank(gDict, gone, {}) EXCEPT ![parent[g]] = Without(@, {g}, graphId)]
      /\ FreeIds(gone, {}, {})
      /\ UNCHANGED <<nodes, edges, ntags, etags, seqCtr>>
  BY DEF AgcloseSubg
<1>3. /\ Root \in Attached /\ Root \in graphs /\ Attached \subseteq graphs
      /\ Attached \subseteq Graph /\ parent[g] \in Attached /\ g \in gDict[parent[g]]
  BY <1>1, <1>2 DEF ReachableClosed
<1>4. /\ gone \subseteq Attached /\ g \in gone
      /\ \A p \in gone : \A s \in gDict[p] : s \in Graph => s \in gone
      /\ \A s \in gone \ {g} : parent[s] \in gone
  BY <1>1, VisitFacts
<1>5. Root \notin gone /\ parent[g] \notin gone
  BY <1>1, <1>2, ParentOutside
<1> HIDE DEF gone
<1>6. /\ graphs' = graphs \ gone
      /\ \A x \in Graph \ gone :
           /\ parent'[x] = parent[x] /\ graphId'[x] = graphId[x]
           /\ nIdx'[x] = nIdx[x] /\ nSeq'[x] = nSeq[x]
           /\ outIdx'[x] = outIdx[x] /\ outSeq'[x] = outSeq[x]
           /\ inIdx'[x] = inIdx[x] /\ inSeq'[x] = inSeq[x]
      /\ \A x \in Graph \cap gone :
           /\ parent'[x] = NULL
           /\ nIdx'[x] = {} /\ nSeq'[x] = {}
           /\ outIdx'[x] = {} /\ outSeq'[x] = {} /\ inIdx'[x] = {} /\ inSeq'[x] = {}
  BY <1>1, <1>2, FreeGraphsIs
<1>7. \A p \in Graph : \A s : s \in gDict'[p] <=> s \in gDict[p] /\ p \notin gone /\ s # g
  <2> TAKE p \in Graph
  <2> TAKE s
  <2>1. /\ p \in DOMAIN gDict
        /\ p \notin gone => Blank(gDict, gone, {})[p] = gDict[p]
        /\ p \in gone => Blank(gDict, gone, {})[p] = {}
        /\ p \in DOMAIN Blank(gDict, gone, {})
    <3>1. p \in DOMAIN gDict
      BY <1>1 DEF TypeOK
    <3> QED BY <3>1, BlankIs DEF Blank
  <2>2. CASE p = parent[g]
    <3>1. gDict'[p] = Without(Blank(gDict, gone, {})[p], {g}, graphId)
      BY <1>2, <2>1, <2>2
    <3>2. gDict'[p] = Without(gDict[p], {g}, graphId)
      BY <1>5, <2>1, <2>2, <3>1
    <3>3. \A r \in gDict[p] : graphId[r] = graphId[g] => r = g
      BY <1>3, <2>2 DEF Inv, SiblingsDiffer
    <3> QED BY <1>5, <2>2, <3>2, <3>3 DEF Without
  <2>3. CASE p # parent[g]
    <3>1. gDict'[p] = Blank(gDict, gone, {})[p]
      BY <1>2, <2>1, <2>3
    <3>2. g \notin gDict[p]
      BY <1>1, <2>3 DEF Tree
    <3> QED BY <2>1, <3>1, <3>2
  <2> QED BY <2>2, <2>3
<1>8. \A p \in Graph \ gone : \A s \in gDict[p] :
        /\ s \in Graph /\ s \in graphs \ {Root} /\ parent[s] = p
        /\ s # g => s \notin gone
  BY <1>1, <1>4 DEF Tree, TypeOK
<1>9. Tree'
  BY <1>1, <1>3, <1>5, <1>6, <1>7, <1>8, RootIsGraph DEF Tree
<1>10. Attached' = Attached \ gone
  <2>1. Attached = Down(gDict, Root, Graph) /\ Attached' = Down(gDict', Root, Graph)
    BY <1>3, <1>5, <1>6 DEF Attached, Visit, Down
  <2> DEFINE T == Attached \ gone
             U == Attached' \cup gone
  <2>2. /\ Root \in T
        /\ \A p \in T \cap Graph : \A s \in gDict'[p] : s \in Graph => s \in T
    BY <1>1, <1>3, <1>5, <1>7, <1>8 DEF ReachableClosed
  <2>3. Down(gDict', Root, Graph) \subseteq T
    <3> HIDE DEF T
    <3> QED BY <2>2, RootIsGraph, DownLeast
  <2>4. /\ Root \in U
        /\ \A p \in U \cap Graph : \A s \in gDict[p] : s \in Graph => s \in U
    <3>1. /\ Root \in Attached'
          /\ \A p \in Attached' : \A s \in gDict'[p] : s \in Graph => s \in Attached'
      BY <2>1, RootIsGraph, DownClosed
    <3> QED BY <3>1, <1>4, <1>7
  <2>5. Down(gDict, Root, Graph) \subseteq U
    <3> HIDE DEF U
    <3> QED BY <2>4, RootIsGraph, DownLeast
  <2> QED BY <2>1, <2>3, <2>5
<1>11. ReachableClosed'
  BY <1>9, Primed
<1>12. Cleared'
  BY <1>1, <1>3, <1>6, <1>7 DEF Inv, Cleared, TypeOK
<1>13. nodes' = nodes /\ edges' = edges /\ nodeId' = nodeId /\ nodeSeq' = nodeSeq
       /\ edgeId' = edgeId /\ edgeSeq' = edgeSeq /\ tail' = tail /\ head' = head
       /\ seqCtr' = seqCtr /\ anonCtr' = anonCtr
  BY <1>2 DEF ntags, etags, FreeIds
<1>14. Owned'
  BY <1>3, <1>5, <1>6, <1>13, RootIsGraph DEF Inv, Owned
<1>15. SetsSound'
  <2>1. ASSUME NEW x \in Attached'
        PROVE  /\ nIdx'[x] = nSeq'[x] /\ outIdx'[x] = outSeq'[x]
               /\ outIdx'[x] = inIdx'[x] /\ inIdx'[x] = inSeq'[x]
               /\ \A e \in inIdx'[x] : {tail'[e], head'[e]} \subseteq nIdx'[x]
               /\ nIdx'[x] \subseteq nodes' /\ inIdx'[x] \subseteq edges'
    <3>1. x \in Attached /\ x \in Graph \ gone
      BY <1>3, <1>10
    <3>2. /\ nSeq[x] = nIdx[x] /\ nIdx[x] \subseteq nodes /\ inIdx[x] \subseteq edges
          /\ outIdx[x] = inIdx[x] /\ outSeq[x] = inIdx[x] /\ inSeq[x] = inIdx[x]
          /\ \A e \in inIdx[x] : tail[e] \in nIdx[x] /\ head[e] \in nIdx[x]
      BY <3>1, LiveMembers
    <3> QED BY <3>1, <3>2, <1>6, <1>13
  <2>2. ASSUME NEW x \in Attached' \ {Root}
        PROVE  /\ parent'[x] \in Attached'
               /\ nIdx'[x] \subseteq nIdx'[parent'[x]]
               /\ inIdx'[x] \subseteq inIdx'[parent'[x]]
    <3>1. x \in Attached \ {Root} /\ x \in Graph \ gone
      BY <1>3, <1>10
    <3>2. parent'[x] \in Attached'
      BY <1>11 DEF ReachableClosed
    <3>3. parent[x] \in Graph \ gone /\ parent'[x] = parent[x]
      BY <3>1, <3>2, <1>3, <1>6, <1>10
    <3>4. nIdx[x] \subseteq nIdx[parent[x]] /\ inIdx[x] \subseteq inIdx[parent[x]]
      BY <1>1, <3>1 DEF SetsSound, SubgraphContainment
    <3> QED BY <3>1, <3>2, <3>3, <3>4, <1>6
  <2> QED BY <2>1, <2>2
         DEF SetsSound, IndexesAgree, SubgraphContainment, EndpointsPresent, NoDangling
<1>16. Numbered' /\ UniqueIds'
  BY <1>13 DEF Inv, Numbered, UniqueIds, MultiEdge
<1>17. AnonymousNew'
  <2>1. \A x \in graphs' : x \in graphs /\ graphId'[x] = graphId[x]
    BY <1>1, <1>6 DEF TypeOK
  <2> QED BY <2>1, <1>13 DEF Inv, AnonymousNew
<1>18. SiblingsDiffer'
  BY <1>6, <1>7, <1>8 DEF Inv, SiblingsDiffer
<1>19. NamesHeld'
  <2>1. ASSUME NEW x \in Name
        PROVE  /\ References(x) \in Int
               /\ References(x)' = References(x) - Uses(gone, graphId, x)
               /\ Uses(gone, graphId, x) \in Int
               /\ refcnt'[x] = refcnt[x] - Uses(gone, graphId, x)
    <3>1. IsFiniteSet(Attached) /\ IsFiniteSet(gone)
      BY <1>1, <1>4, FiniteSets, FS_Subset
    <3>2. \A p \in Attached' : graphId'[p] = graphId[p]
      BY <1>3, <1>6, <1>10
    <3>3. Uses(Attached', graphId', x) = Uses(Attached, graphId, x) - Uses(gone, graphId, x)
      BY ONLY <3>1, <3>2, <1>4, <1>10, UsesMinus
    <3>4. /\ Uses(Attached, graphId, x) \in Nat /\ Uses(nodes, nodeId, x) \in Nat
          /\ Uses(edges, edgeId, x) \in Nat /\ Uses(gone, graphId, x) \in Nat
      BY <1>1, <3>1, UsesNat, UsesType
    <3>5. /\ Uses(Attached, graphId, x)' = Uses(Attached', graphId', x)
          /\ Uses(nodes, nodeId, x)' = Uses(nodes, nodeId, x)
          /\ Uses(edges, edgeId, x)' = Uses(edges, edgeId, x)
      BY <1>13 DEF Uses
    <3>6. refcnt'[x] = refcnt[x] - Uses(gone, graphId, x) - Uses({}, nodeId, x) - Uses({}, edgeId, x)
      BY <1>2 DEF FreeIds, Uses
    <3>7. Uses({}, nodeId, x) = 0 /\ Uses({}, edgeId, x) = 0 /\ refcnt[x] \in Int
      BY <1>1, UsesNone DEF TypeOK
    <3> QED BY <3>3, <3>4, <3>5, <3>6, <3>7 DEF References
  <2>2. \A x \in Name : refcnt[x] \in Int
    BY <1>1 DEF TypeOK
  <2>3. \A x \in Name : refcnt[x] >= References(x) => refcnt'[x] >= References(x)'
    BY <2>1, <2>2
  <2>4. \A x \in Name : refcnt[x] = References(x) => refcnt'[x] = References(x)'
    BY <2>1, <2>2
  <2> QED BY <2>3, <2>4, <1>6, <1>10 DEF Inv, NamesHeld
<1> QED BY <1>9, <1>12, <1>14, <1>15, <1>16, <1>17, <1>18, <1>19 DEF Inv

LEMMA AgdelsubgSafe ==
  ASSUME Inv, TypeOK', NEW g \in Attached, Agdelsubg(g)
  PROVE  Inv'
<1> USE DEF objs, ntags, etags, nsets, esets, ids
<1>1. /\ ReachableClosed /\ TypeOK /\ Tree /\ SetsSound
  BY Reachable DEF Inv
<1>2. /\ ClientDetaches /\ g # Root
      /\ gDict' = [gDict EXCEPT ![parent[g]] = Without(@, {g}, graphId)]
      /\ UNCHANGED <<graphs, nodes, edges, parent, graphId, nodeId, nodeSeq,
                     edgeId, edgeSeq, tail, head, nIdx, nSeq, outIdx, outSeq,
                     inIdx, inSeq, refcnt, anonCtr, seqCtr>>
  BY DEF Agdelsubg
<1>3. \A p \in Graph : gDict'[p] \subseteq gDict[p]
  BY <1>1, <1>2 DEF TypeOK, Without
<1>4. Tree' /\ SiblingsDiffer'
  BY <1>2, <1>3 DEF Inv, Tree, SiblingsDiffer
<1>5. ReachableClosed'
  BY <1>4, Primed
<1>6. Attached' \subseteq Attached
  <2>1. Root \in graphs
    BY DEF Attached
  <2>2. Attached' = Down(gDict', Root, Graph)
    BY <1>2, <2>1 DEF Attached, Visit, Down
  <2>3. /\ Root \in Attached
        /\ \A p \in Attached \cap Graph : \A s \in gDict'[p] : s \in Graph => s \in Attached
    BY <1>1, <1>3, <2>1 DEF ReachableClosed
  <2>4. Down(gDict', Root, Graph) \subseteq Attached
    BY <2>3, RootIsGraph, DownLeast
  <2> QED BY <2>2, <2>4
<1>7. Cleared'
  BY <1>2, <1>3 DEF Inv, Cleared
<1>8. Owned' /\ Numbered' /\ AnonymousNew' /\ UniqueIds'
  BY <1>2 DEF Inv, Owned, Numbered, AnonymousNew, UniqueIds, MultiEdge
<1>9. SetsSound'
  BY <1>1, <1>2, <1>5, <1>6 DEF SetsSound, IndexesAgree, SubgraphContainment,
     EndpointsPresent, NoDangling, ReachableClosed
<1>10. NamesHeld'
  <2>1. ASSUME NEW x \in Name PROVE References(x)' \in Int /\ References(x)' <= References(x) /\ References(x) \in Int
    <3>1. IsFiniteSet(Attached)
      BY <1>1, FiniteSets
    <3>2. Uses(Attached', graphId, x) <= Uses(Attached, graphId, x)
      BY <1>6, <3>1, UsesFewer
    <3>3. Uses(Attached', graphId, x) \in Nat
      BY <1>6, <3>1, FS_Subset, UsesType
    <3>4. /\ Uses(Attached, graphId, x) \in Nat /\ Uses(nodes, nodeId, x) \in Nat
          /\ Uses(edges, edgeId, x) \in Nat
      BY <1>1, UsesNat
    <3>5. /\ Uses(Attached, graphId, x)' = Uses(Attached', graphId, x)
          /\ Uses(nodes, nodeId, x)' = Uses(nodes, nodeId, x)
          /\ Uses(edges, edgeId, x)' = Uses(edges, edgeId, x)
      BY <1>2 DEF Uses
    <3> QED BY <3>2, <3>3, <3>4, <3>5 DEF References
  <2>2. \A x \in Name : refcnt[x] \in Int /\ refcnt'[x] = refcnt[x]
    BY <1>1, <1>2 DEF TypeOK
  <2> QED BY <2>1, <2>2, <1>2 DEF Inv, NamesHeld
<1> QED BY <1>4, <1>7, <1>8, <1>9, <1>10 DEF Inv

LEMMA AgsubgCreateSafe ==
  ASSUME Inv, TypeOK', NEW g \in Attached, NEW s \in Graph, NEW name \in SubgNames,
         AgsubgCreate(g, name, s)
  PROVE  Inv'
<1> USE DEF ntags, etags, nsets, esets
<1>1. /\ ReachableClosed /\ TypeOK /\ Tree /\ SetsSound
  BY Reachable DEF Inv
<1>2. /\ s \notin graphs /\ s # Root
      /\ name # NULL => {x \in gDict[g] : graphId[x] = Probe(name)} = {}
      /\ graphs' = graphs \cup {s}
      /\ parent' = [parent EXCEPT ![s] = g]
      /\ gDict' = [gDict EXCEPT ![s] = {}, ![g] = AddNew(@, s, graphId')]
      /\ UNCHANGED <<nodes, edges, nodeId, nodeSeq, edgeId, edgeSeq, tail, head,
                     nIdx, nSeq, outIdx, outSeq, inIdx, inSeq, seqCtr>>
  BY DEF AgsubgCreate
<1>3. PICK id : Reserve(name, id) /\ graphId' = [graphId EXCEPT ![s] = id]
  BY DEF AgsubgCreate
<1>4. name \in Name \cup {NULL}
  BY GraphAssumption DEF GraphAssumption
<1>5. /\ id = IF name = NULL THEN anonCtr ELSE name
      /\ anonCtr' \in Nat /\ anonCtr <= anonCtr'
      /\ id \in Int => id < anonCtr'
      /\ \A x \in Name : refcnt'[x] = refcnt[x] + (IF id = x THEN 1 ELSE 0)
  BY <1>1, <1>3, <1>4, ReserveIs
<1>6. /\ g \in graphs /\ g # s /\ g \in Graph /\ Root \in graphs /\ Root \in Attached
      /\ \A p \in Graph : \A r \in gDict[p] : r \in graphs \ {Root} /\ r # s /\ parent[r] = p
      /\ gDict[s] = {} /\ nIdx[s] = {} /\ nSeq[s] = {}
      /\ outIdx[s] = {} /\ outSeq[s] = {} /\ inIdx[s] = {} /\ inSeq[s] = {}
  BY <1>1, <1>2 DEF Inv, Cleared, Tree, ReachableClosed
<1>7. /\ graphId'[s] = id /\ \A r \in Graph \ {s} : graphId'[r] = graphId[r]
      /\ parent'[s] = g /\ \A r \in Graph \ {s} : parent'[r] = parent[r]
  BY <1>1, <1>2, <1>3 DEF TypeOK
<1>8. \A r \in gDict[g] : graphId[r] # id
  <2>1. CASE name # NULL /\ Probe(name) = name
    BY <2>1, <1>2, <1>5
  <2>2. CASE name # NULL => Probe(name) # name
    <3>1. \A r \in Attached : graphId[r] # id
      BY <2>2, <1>3, <1>4, FreshId
    <3> QED BY <3>1, <1>1 DEF ReachableClosed
  <2> QED BY <2>1, <2>2
<1>9. /\ gDict'[g] = gDict[g] \cup {s}
      /\ \A p \in Graph \ {g} : gDict'[p] = gDict[p]
  <2>1. \A r \in gDict[g] : r \in Graph \ {s}
    BY <1>1, <1>6 DEF TypeOK
  <2>2. \A r \in gDict[g] : graphId'[r] = graphId'[s] => r = s
    BY <2>1, <1>7, <1>8
  <2>3. AddNew(gDict[g], s, graphId') = gDict[g] \cup {s}
    BY <2>2, AddNewIs
  <2>4. gDict \in [Graph -> SUBSET Graph]
    BY <1>1 DEF TypeOK
  <2>5. gDict'[g] = AddNew(gDict[g], s, graphId')
    BY <1>2, <1>6, <2>4
  <2>6. \A p \in Graph \ {g} : gDict'[p] = gDict[p]
    BY <1>2, <1>6, <2>4
  <2> QED BY <2>3, <2>5, <2>6
<1>10. \A p \in Graph : \A r : r \in gDict'[p] <=> r \in gDict[p] \/ (p = g /\ r = s)
  BY <1>9
<1>11. Tree'
  <2>1. parent'[Root] = NULL
    BY <1>1, <1>2, <1>7, RootIsGraph DEF Tree
  <2>2. ASSUME NEW p \in Graph, NEW r \in gDict'[p]
        PROVE  r \in graphs' \ {Root} /\ parent'[r] = p
    <3>1. CASE r \in gDict[p]
      BY <3>1, <1>1, <1>2, <1>6, <1>7 DEF TypeOK
    <3>2. CASE p = g /\ r = s
      BY <3>2, <1>2, <1>7
    <3> QED BY <2>2, <3>1, <3>2, <1>10
  <2> QED BY <2>1, <2>2 DEF Tree
<1>12. ReachableClosed'
  BY <1>11, Primed
<1>13. Attached' = Attached \cup {s}
  <2> DEFINE T == Attached \cup {s}
  <2>1. Attached = Down(gDict, Root, Graph) /\ Attached' = Down(gDict', Root, Graph)
    BY <1>2, <1>6 DEF Attached, Visit, Down
  <2>2. /\ Root \in T
        /\ \A p \in T \cap Graph : \A r \in gDict'[p] : r \in Graph => r \in T
    BY <1>1, <1>6, <1>10 DEF ReachableClosed
  <2>3. Down(gDict', Root, Graph) \subseteq T
    <3> HIDE DEF T
    <3> QED BY <2>2, RootIsGraph, DownLeast
  <2>4. /\ Root \in Attached'
        /\ \A p \in Attached' \cap Graph : \A r \in gDict[p] : r \in Graph => r \in Attached'
    BY <1>2, <1>6, <1>10, <1>12 DEF ReachableClosed
  <2>5. Down(gDict, Root, Graph) \subseteq Attached'
    BY <2>4, RootIsGraph, DownLeast
  <2>6. s \in Attached'
    BY <2>1, <2>5, <1>10, <1>6, <1>12 DEF ReachableClosed
  <2> QED BY <2>1, <2>3, <2>5, <2>6
<1>14. Cleared'
  BY <1>2, <1>6, <1>9 DEF Inv, Cleared
<1>15. Owned'
  BY <1>2, <1>6 DEF Inv, Owned
<1>16. SetsSound'
  <2>1. ASSUME NEW x \in Attached'
        PROVE  /\ nIdx'[x] = nSeq'[x] /\ outIdx'[x] = outSeq'[x]
               /\ outIdx'[x] = inIdx'[x] /\ inIdx'[x] = inSeq'[x]
               /\ \A e \in inIdx'[x] : {tail'[e], head'[e]} \subseteq nIdx'[x]
               /\ nIdx'[x] \subseteq nodes' /\ inIdx'[x] \subseteq edges'
    <3>1. CASE x = s
      BY <3>1, <1>2, <1>6
    <3>2. CASE x \in Attached
      <4>1. /\ nSeq[x] = nIdx[x] /\ nIdx[x] \subseteq nodes /\ inIdx[x] \subseteq edges
            /\ outIdx[x] = inIdx[x] /\ outSeq[x] = inIdx[x] /\ inSeq[x] = inIdx[x]
            /\ \A e \in inIdx[x] : tail[e] \in nIdx[x] /\ head[e] \in nIdx[x]
        BY <3>2, LiveMembers
      <4> QED BY <4>1, <1>2
    <3> QED BY <2>1, <3>1, <3>2, <1>13
  <2>2. ASSUME NEW x \in Attached' \ {Root}
        PROVE  /\ parent'[x] \in Attached'
               /\ nIdx'[x] \subseteq nIdx'[parent'[x]]
               /\ inIdx'[x] \subseteq inIdx'[parent'[x]]
    <3>1. CASE x = s
      BY <3>1, <1>2, <1>6, <1>12 DEF ReachableClosed
    <3>2. CASE x \in Attached
      <4>1. x \in Graph \ {s}
        BY <3>2, <1>1, <1>2 DEF ReachableClosed
      <4>2. /\ parent[x] \in Attached /\ nIdx[x] \subseteq nIdx[parent[x]]
            /\ inIdx[x] \subseteq inIdx[parent[x]]
        BY <2>2, <3>2, <1>1 DEF SetsSound, SubgraphContainment
      <4> QED BY <4>1, <4>2, <1>2, <1>7, <1>13
    <3> QED BY <2>2, <3>1, <3>2, <1>13
  <2> QED BY <2>1, <2>2
         DEF SetsSound, IndexesAgree, SubgraphContainment, EndpointsPresent, NoDangling
<1>17. Numbered' /\ UniqueIds'
  BY <1>2 DEF Inv, Numbered, UniqueIds, MultiEdge
<1>18. AnonymousNew'
  BY <1>1, <1>2, <1>5, <1>7 DEF Inv, AnonymousNew, TypeOK
<1>19. SiblingsDiffer'
  <2> SUFFICES ASSUME NEW p \in Graph, NEW q \in gDict'[p], NEW r \in gDict'[p],
                      graphId'[q] = graphId'[r]
               PROVE  q = r
    BY DEF SiblingsDiffer
  <2>1. \A d \in gDict[p] : d \in Graph \ {s} /\ graphId'[d] = graphId[d]
    BY <1>1, <1>6, <1>7 DEF TypeOK
  <2>2. \A c, d \in gDict[p] : graphId[c] = graphId[d] => c = d
    BY DEF Inv, SiblingsDiffer
  <2> QED BY <2>1, <2>2, <1>7, <1>8, <1>10
<1>20. NamesHeld'
  <2>1. ASSUME NEW x \in Name
        PROVE  /\ References(x) \in Nat
               /\ References(x)' = References(x) + (IF id = x THEN 1 ELSE 0)
    <3>1. Uses(Attached', graphId', x) = Uses(Attached, graphId, x) + (IF id = x THEN 1 ELSE 0)
      <4>1. IsFiniteSet(Attached)
        BY <1>1, FiniteSets
      <4>4. s \notin Attached
        BY <1>1, <1>2 DEF ReachableClosed
      <4>2. \A p \in Attached : graphId'[p] = graphId[p]
        BY <4>4, <1>1, <1>7 DEF ReachableClosed
      <4>3. /\ graphId'[s] = x => Uses(Attached \cup {s}, graphId', x) = Uses(Attached, graphId, x) + 1
            /\ graphId'[s] # x => Uses(Attached \cup {s}, graphId', x) = Uses(Attached, graphId, x)
        BY <4>1, <4>2, <4>4, UsesAdd
      <4> QED BY <1>1, <4>3, <1>7, <1>13, UsesNat
    <3>2. /\ Uses(Attached, graphId, x) \in Nat
          /\ Uses(nodes, nodeId, x) \in Nat
          /\ Uses(edges, edgeId, x) \in Nat
      BY <1>1, UsesNat
    <3> QED BY <3>1, <3>2, <1>2 DEF References, Uses
  <2>2. \A x \in Name : refcnt[x] \in Int
    BY <1>1 DEF TypeOK
  <2>3. \A x \in Name : refcnt[x] >= References(x) => refcnt'[x] >= References(x)'
    BY <2>1, <2>2, <1>5
  <2>4. \A x \in Name : refcnt[x] = References(x) => refcnt'[x] = References(x)'
    BY <2>1, <2>2, <1>5
  <2> QED BY <2>3, <2>4, <1>2, <1>13 DEF Inv, NamesHeld
<1> QED BY <1>11, <1>14, <1>15, <1>16, <1>17, <1>18, <1>19, <1>20 DEF Inv

-----------------------------------------------------------------------------
(* The invariant holds initially, and every step preserves it.             *)

LEMMA InitInv == Init => Inv
<1> SUFFICES ASSUME Init PROVE Inv
  OBVIOUS
<1>1. TypeOK
  BY GraphAssumption DEF Init, TypeOK, Id, NoId, GraphAssumption
<1>2. Attached = {}
  BY DEF Init, Attached
<1>3. Tree /\ Cleared /\ Owned /\ AnonymousNew /\ SiblingsDiffer /\ UniqueIds
  BY RootIsGraph DEF Init, Tree, Cleared, Owned, AnonymousNew, SiblingsDiffer, UniqueIds
<1>4. SetsSound
  BY <1>2 DEF SetsSound, IndexesAgree, SubgraphContainment, EndpointsPresent, NoDangling
<1>5. Numbered
  BY GraphAssumption DEF Init, Numbered, GraphAssumption
<1>6. \A x \in Name : refcnt[x] = 0 /\ References(x) = 0
  <2>1. \A x \in Name : /\ Uses(Attached, graphId, x) = 0 /\ Uses(nodes, nodeId, x) = 0
                        /\ Uses(edges, edgeId, x) = 0
    BY <1>2, UsesNone DEF Init
  <2> QED BY <2>1 DEF Init, References
<1>7. NamesHeld
  BY <1>2, <1>6 DEF Init, NamesHeld
<1> QED BY <1>1, <1>3, <1>4, <1>5, <1>7 DEF Inv

LEMMA NextInv == MaxSeq < SeqMod /\ Inv /\ [Next]_vars => Inv'
<1> SUFFICES ASSUME MaxSeq < SeqMod, Inv, [Next]_vars PROVE Inv'
  OBVIOUS
<1>1. TypeOK
  BY DEF Inv
<1>2. CASE UNCHANGED vars
  <2> USE DEF vars, objs, tree, ntags, etags, nsets, esets, ids
  <2>1. Attached' = Attached
    BY <1>2 DEF Attached, Visit
  <2>2. TypeOK'
    BY <1>1, <1>2 DEF TypeOK
  <2>3. Tree' /\ Cleared' /\ Owned' /\ AnonymousNew' /\ SiblingsDiffer'
    BY <1>2 DEF Inv, Tree, Cleared, Owned, AnonymousNew, SiblingsDiffer
  <2>4. SetsSound'
    BY <1>2, <2>1 DEF Inv, SetsSound, IndexesAgree, SubgraphContainment, EndpointsPresent, NoDangling
  <2>5. Numbered' /\ UniqueIds'
    BY <1>2 DEF Inv, Numbered, UniqueIds, MultiEdge
  <2>6. NamesHeld'
    BY <1>2, <2>1 DEF Inv, NamesHeld, References, Uses
  <2> QED BY <2>2, <2>3, <2>4, <2>5, <2>6 DEF Inv
<1>3. CASE GraphOp
  <2>1. TypeOK'
    BY <1>1, <1>3, GraphOpType
  <2> QED BY <1>3, <2>1, AgopenSafe, AgcloseRootSafe, AgcloseSubgSafe, AgdelsubgSafe,
     AgsubgCreateSafe DEF GraphOp
<1>4. CASE NodeOp
  <2>1. TypeOK'
    BY <1>1, <1>4, NodeOpType
  <2> QED BY <1>4, <2>1, AgdelnodeRootSafe, AgsubnodeSafe, AgdelnodeSubgSafe,
     AgnodeCreateSafe DEF NodeOp
<1>5. CASE EdgeOp
  <2>1. TypeOK'
    BY <1>1, <1>5, EdgeOpType
  <2> QED BY <1>5, <2>1, AgdeledgeRootSafe, AgsubedgeSafe, AgdeledgeSubgSafe,
     AgedgeSubedgeSafe, AgedgeCreateSafe DEF EdgeOp
<1> QED BY <1>2, <1>3, <1>4, <1>5 DEF Next

LEMMA Always == ASSUME MaxSeq < SeqMod PROVE Spec => []Inv
BY InitInv, NextInv, PTL DEF Spec

\* The sets of the reachable graphs stay in step, whatever the client does,
\* its own calls of agdelsubg included.
THEOREM SetsStaySound == ASSUME MaxSeq < SeqMod PROVE Spec => []SetsSound
<1>1. Inv => SetsSound
  BY DEF Inv
<1> QED BY <1>1, Always, PTL

\* A client that closes subgraphs with agclose only loses nothing: the graphs
\* are those of the tree under the root, which holds all nodes and edges.
THEOREM NothingEverLeaks ==
  ASSUME MaxSeq < SeqMod, ~ClientDetaches PROVE Spec => []NothingLeaks
<1>1. ASSUME Inv PROVE NothingLeaks
  <2>1. ReachableClosed
    BY <1>1, Reachable DEF Inv
  <2>2. graphs = Attached /\ Owned
    BY <1>1 DEF Inv, NamesHeld
  <2>3. CASE Root \in graphs
    <3>1. Attached \cap {Root} = {Root}
      BY <2>1, <2>3 DEF ReachableClosed
    <3>2. /\ UNION {nIdx[g] : g \in {Root}} = nIdx[Root]
          /\ UNION {inIdx[g] : g \in {Root}} = inIdx[Root]
      OBVIOUS
    <3> QED BY <2>2, <2>3, <3>1, <3>2 DEF Owned, NothingLeaks
  <2>4. CASE Root \notin graphs
    <3>1. Attached \cap {Root} = {}
      BY <2>1, <2>4 DEF ReachableClosed
    <3>2. UNION {nIdx[g] : g \in {}} = {} /\ UNION {inIdx[g] : g \in {}} = {}
      OBVIOUS
    <3> QED BY <2>2, <2>4, <3>1, <3>2 DEF Owned, NothingLeaks
  <2> QED BY <2>3, <2>4
<1>2. Inv => NothingLeaks
  BY <1>1
<1> QED BY <1>2, Always, PTL

\* For such a client ids tell the objects apart, and each name is held exactly
\* as often as live graphs, nodes and edges have it.
THEOREM IdsStaySound ==
  ASSUME MaxSeq < SeqMod, ~ClientDetaches PROVE Spec => []IdsSound
<1>1. Inv => IdsSound
  BY DEF Inv, NamesHeld, IdsSound, RefcountExact, References, Uses
<1> QED BY <1>1, Always, PTL

\* Whatever the client does, a name is never given up under a node, an edge or
\* a graph that can be reached.
THEOREM NamesStayHeld ==
  ASSUME MaxSeq < SeqMod
  PROVE  Spec => [](UniqueIds /\ \A x \in Name : refcnt[x] >= References(x))
<1>1. Inv => UniqueIds /\ \A x \in Name : refcnt[x] >= References(x)
  BY DEF Inv, NamesHeld
<1> QED BY <1>1, Always, PTL

-----------------------------------------------------------------------------
(* Strict graphs.                                                          *)

\* Two edges of a strict graph have different endpoints.
SingleEdges == Strict => \A e, f \in edges : ~MultiEdge(e, f)

LEMMA EdgesKept ==
  ASSUME SingleEdges, edges' \subseteq edges,
         \A e \in edges' : tail'[e] = tail[e] /\ head'[e] = head[e]
  PROVE  SingleEdges'
BY DEF SingleEdges, MultiEdge

LEMMA AgedgeCreateSingle ==
  ASSUME Inv, EdgeNames \subseteq {NULL}, SingleEdges, NEW g \in Attached, NEW e \in Edge,
         NEW t \in Node, NEW h \in Node, NEW name \in EdgeNames,
         AgedgeCreate(g, t, h, name, e)
  PROVE  SingleEdges'
<1> SUFFICES ASSUME Strict PROVE \A a, b \in edges' : ~MultiEdge(a, b)'
  BY DEF SingleEdges
<1>1. /\ e \notin edges /\ edges' = edges \cup {e}
      /\ Probes(name) => ProbeEdge(Root, t, h, name) = {}
      /\ tail' = [tail EXCEPT ![e] = t] /\ head' = [head EXCEPT ![e] = h]
  BY DEF AgedgeCreate
<1>2. /\ tail'[e] = t /\ head'[e] = h
      /\ \A f \in edges : tail'[f] = tail[f] /\ head'[f] = head[f]
  BY <1>1 DEF Inv, TypeOK
<1>3. /\ FoundAny(Root, t, h) = {}
      /\ ~Directed => FoundAny(Root, h, t) = {}
  BY <1>1 DEF Probes, ProbeEdge, ProbeDir
<1>4. edges = inIdx[Root]
  BY LiveMembers
<1>5. \A f \in edges : /\ ~(tail[f] = t /\ head[f] = h)
                       /\ ~Directed => ~(tail[f] = h /\ head[f] = t)
  BY <1>3, <1>4 DEF FoundAny
<1>6. \A a, b \in edges : ~MultiEdge(a, b)
  BY DEF SingleEdges
<1> QED BY <1>1, <1>2, <1>5, <1>6 DEF MultiEdge

LEMMA NextSingle == EdgeNames \subseteq {NULL} /\ Inv /\ SingleEdges /\ [Next]_vars => SingleEdges'
<1> SUFFICES ASSUME EdgeNames \subseteq {NULL}, Inv, SingleEdges, [Next]_vars
             PROVE  SingleEdges'
  OBVIOUS
<1> USE DEF objs, etags
<1>1. TypeOK
  BY DEF Inv
<1>2. CASE UNCHANGED vars
  BY <1>2, EdgesKept DEF vars
<1>3. CASE GraphOp
  <2>1. CASE Agopen
    BY <2>1, EdgesKept DEF Agopen
  <2>2. CASE AgcloseRoot
    <3>1. edges' \subseteq edges /\ \A e \in edges' : tail'[e] = tail[e] /\ head'[e] = head[e]
      BY <1>1, <2>2, FreeEdgesIs DEF AgcloseRoot
    <3> QED BY <3>1, EdgesKept
  <2>3. ASSUME NEW g \in Attached, AgcloseSubg(g) \/ Agdelsubg(g) PROVE SingleEdges'
    BY <2>3, EdgesKept DEF AgcloseSubg, Agdelsubg
  <2>4. ASSUME NEW g \in Attached, NEW s \in Graph, NEW name \in SubgNames,
               AgsubgCreate(g, name, s)
        PROVE  SingleEdges'
    BY <2>4, EdgesKept DEF AgsubgCreate
  <2> QED BY <1>3, <2>1, <2>2, <2>3, <2>4 DEF GraphOp
<1>4. CASE NodeOp
  <2>1. ASSUME NEW n \in Node, AgdelnodeRoot(n) PROVE SingleEdges'
    <3>1. edges' \subseteq edges /\ \A e \in edges' : tail'[e] = tail[e] /\ head'[e] = head[e]
      BY <1>1, <2>1, FreeEdgesIs DEF AgdelnodeRoot
    <3> QED BY <3>1, EdgesKept
  <2>2. ASSUME NEW g \in Attached, NEW n \in Node, Agsubnode(g, n) \/ AgdelnodeSubg(g, n)
        PROVE  SingleEdges'
    BY <2>2, EdgesKept DEF Agsubnode, AgdelnodeSubg
  <2>3. ASSUME NEW g \in Attached, NEW n \in Node, NEW name \in NodeNames,
               AgnodeCreate(g, name, n)
        PROVE  SingleEdges'
    BY <2>3, EdgesKept DEF AgnodeCreate
  <2> QED BY <1>4, <2>1, <2>2, <2>3 DEF NodeOp
<1>5. CASE EdgeOp
  <2>1. ASSUME NEW e \in Edge, AgdeledgeRoot(e) PROVE SingleEdges'
    <3>1. edges' \subseteq edges /\ \A f \in edges' : tail'[f] = tail[f] /\ head'[f] = head[f]
      BY <1>1, <2>1, FreeEdgesIs DEF AgdeledgeRoot
    <3> QED BY <3>1, EdgesKept
  <2>2. ASSUME NEW g \in Attached, NEW e \in Edge, Agsubedge(g, e) \/ AgdeledgeSubg(g, e)
        PROVE  SingleEdges'
    BY <2>2, EdgesKept DEF Agsubedge, AgdeledgeSubg
  <2>3. ASSUME NEW g \in Attached, NEW e \in Edge, NEW t \in Node, NEW h \in Node,
               NEW name \in EdgeNames, AgedgeSubedge(g, t, h, name, e)
        PROVE  SingleEdges'
    BY <2>3, EdgesKept DEF AgedgeSubedge
  <2> QED BY <1>5, <2>1, <2>2, <2>3, AgedgeCreateSingle DEF EdgeOp
<1> QED BY <1>2, <1>3, <1>4, <1>5 DEF Next

\* A strict graph whose client gives no edge a key never has two edges with the
\* same endpoints, at whatever level of the subgraph tree it asks for them.
THEOREM StrictStaysSimple ==
  ASSUME MaxSeq < SeqMod, EdgeNames \subseteq {NULL} PROVE Spec => []StrictNoMultiEdges
<1>1. Init => SingleEdges
  BY DEF Init, SingleEdges
<1>2. Inv /\ SingleEdges => StrictNoMultiEdges
  <2> SUFFICES ASSUME Inv, SingleEdges, Strict, Root \in graphs
               PROVE  \A e, f \in inIdx[Root] : ~MultiEdge(e, f)
    BY DEF StrictNoMultiEdges
  <2> QED BY DEF Inv, Owned, SingleEdges
<1>3. Inv /\ SingleEdges /\ [Next]_vars => SingleEdges'
  BY NextSingle
<1> QED BY <1>1, <1>2, <1>3, Always, PTL DEF Spec

-----------------------------------------------------------------------------
(* The walks of Cgraph against what is above and below a graph.            *)

Above(g) == Reach(graphs, {g}, {p \in graphs \X graphs : p[2] = parent[p[1]]})
Below(g) == {s \in graphs : g \in Above(s)}

LEMMA AboveIs == \A g : Abs!Above(g) = Above(g)
BY DEF Abs!Above, Above, Abs!Reach, Reach

LEMMA BelowIs == \A g : Abs!Below(g) = Below(g)
BY AboveIs DEF Abs!Below, Below

LEMMA AllReached ==
  ASSUME Inv, ~ClientDetaches
  PROVE  /\ graphs = Attached /\ Attached \subseteq Graph
         /\ TypeOK /\ Tree /\ ReachableClosed
BY Reachable DEF Inv, NamesHeld, ReachableClosed

LEMMA AboveFacts ==
  ASSUME Inv, ~ClientDetaches, NEW g \in Attached
  PROVE  /\ Above(g) \subseteq Attached
         /\ g \in Above(g)
         /\ \A s \in Above(g) \ {Root} : parent[s] \in Above(g)
<1> DEFINE step == {p \in graphs \X graphs : p[2] = parent[p[1]]}
<1>1. graphs = Attached /\ ReachableClosed
  BY AllReached
<1>2. Above(g) = Reach(graphs, {g}, step)
  BY DEF Above
<1>3. Above(g) \subseteq Attached /\ g \in Above(g)
  <2> HIDE DEF step
  <2> QED BY <1>1, <1>2, ReachIn, ReachStart
<1>4. ASSUME NEW s \in Above(g) \ {Root} PROVE parent[s] \in Above(g)
  <2>1. s \in graphs /\ parent[s] \in graphs
    BY <1>1, <1>3 DEF ReachableClosed
  <2>2. <<s, parent[s]>> \in step
    BY <2>1
  <2> HIDE DEF step
  <2> QED BY <1>2, <2>1, <2>2, ReachClosed
<1> QED BY <1>3, <1>4

LEMMA AboveLeast ==
  ASSUME Inv, ~ClientDetaches, NEW g \in Attached, NEW T, g \in T,
         \A s \in Attached \ {Root} : s \in T => parent[s] \in T
  PROVE  Above(g) \subseteq T
<1> DEFINE step == {p \in graphs \X graphs : p[2] = parent[p[1]]}
<1>1. /\ graphs = Attached /\ NULL \notin graphs /\ parent[Root] = NULL
  BY AllReached, GraphAssumption DEF GraphAssumption, Tree
<1>2. step \in SUBSET (graphs \X graphs) /\ {g} \in SUBSET graphs /\ {g} \subseteq T
  BY <1>1
<1>3. \A p \in step : p[1] \in T => p[2] \in T
  <2> TAKE p \in step
  <2>1. p[1] \in graphs /\ p[2] \in graphs /\ p[2] = parent[p[1]]
    OBVIOUS
  <2>2. p[1] # Root
    BY <1>1, <2>1
  <2> QED BY <1>1, <2>1, <2>2
<1> HIDE DEF step
<1>4. Reach(graphs, {g}, step) \subseteq T
  BY <1>2, <1>3, ReachLeast
<1> QED BY <1>4 DEF Above, step

\* agclose and agapply visit what is below a graph.
LEMMA BelowIsVisit ==
  ASSUME Inv, ~ClientDetaches, NEW g \in Attached
  PROVE  Below(g) = Visit(g, Graph)
<1>1. /\ graphs = Attached /\ Attached \subseteq Graph /\ TypeOK /\ Tree /\ ReachableClosed
  BY AllReached
<1>2. /\ Visit(g, Graph) \subseteq Attached /\ g \in Visit(g, Graph)
      /\ \A p \in Visit(g, Graph) : \A s \in gDict[p] : s \in Graph => s \in Visit(g, Graph)
  BY <1>1, VisitFacts
<1>3. Visit(g, Graph) \subseteq Below(g)
  <2> DEFINE T == Below(g)
  <2>1. g \in T
    BY <1>1, AboveFacts DEF Below
  <2>2. ASSUME NEW p \in T, NEW s \in gDict[p] PROVE s \in T
    <3>1. p \in Attached /\ g \in Above(p)
      BY <1>1 DEF Below
    <3>2. s \in Attached /\ s # Root /\ parent[s] = p
      BY <1>1, <3>1 DEF ReachableClosed
    <3>3. /\ p \in Above(s)
          /\ \A x \in Attached \ {Root} : x \in Above(s) => parent[x] \in Above(s)
      BY <3>2, AboveFacts
    <3>4. Above(p) \subseteq Above(s)
      BY <3>1, <3>3, AboveLeast
    <3> QED BY <1>1, <3>1, <3>2, <3>4 DEF Below
  <2>3. \A p \in T \cap Graph : \A s \in gDict[p] : s \in Graph => s \in T
    BY <2>2
  <2> HIDE DEF T
  <2>4. g \in Graph
    BY <1>1
  <2>5. Down(gDict, g, Graph) \subseteq T
    BY <2>1, <2>3, <2>4, DownLeast
  <2> QED BY <2>5, VisitIsDown DEF T
<1>4. ASSUME NEW s \in Below(g), s \notin Visit(g, Graph) PROVE FALSE
  <2> DEFINE T == Attached \ Visit(g, Graph)
  <2>1. s \in T /\ s \in Attached /\ g \in Above(s)
    BY <1>1, <1>4 DEF Below
  <2>2. \A x \in Attached \ {Root} : x \in T => parent[x] \in T
    BY <1>1, <1>2 DEF ReachableClosed
  <2> HIDE DEF T
  <2>3. Above(s) \subseteq T
    BY <2>1, <2>2, AboveLeast
  <2> QED BY <1>2, <2>1, <2>3 DEF T
<1> QED BY <1>3, <1>4

\* What a graph holds, the graphs above it hold.
LEMMA HeldAbove ==
  ASSUME Inv, ~ClientDetaches, NEW g \in Attached
  PROVE  \A s \in Above(g) : nIdx[g] \subseteq nIdx[s] /\ inIdx[g] \subseteq inIdx[s]
<1> DEFINE T == {s \in Attached : nIdx[g] \subseteq nIdx[s] /\ inIdx[g] \subseteq inIdx[s]}
<1>1. g \in T
  OBVIOUS
<1>2. \A s \in Attached \ {Root} : s \in T => parent[s] \in T
  BY DEF Inv, SetsSound, SubgraphContainment
<1> HIDE DEF T
<1>3. Above(g) \subseteq T
  BY <1>1, <1>2, AboveLeast
<1> QED BY <1>3 DEF T

LEMMA HeldAboveAll ==
  Inv /\ ~ClientDetaches => \A b \in Attached : \A s \in Above(b) :
    nIdx[b] \subseteq nIdx[s] /\ inIdx[b] \subseteq inIdx[s]
BY HeldAbove

LEMMA HeldBelow ==
  ASSUME Inv, ~ClientDetaches, NEW g \in Attached
  PROVE  \A s \in Below(g) : nIdx[s] \subseteq nIdx[g] /\ inIdx[s] \subseteq inIdx[g]
BY AllReached, HeldAbove DEF Below

\* The upward walks stay above the graph they start from.
LEMMA ClimbAbove ==
  ASSUME Inv, ~ClientDetaches, NEW g \in Attached, NEW H
  PROVE  Climb(g, H) \subseteq Above(g)
<1>1. TypeOK /\ Tree
  BY AllReached
<1>2. /\ g \in Above(g)
      /\ \A s \in Attached \ {Root} : s \in Above(g) => parent[s] \in Above(g)
  BY AboveFacts
<1> QED BY <1>1, <1>2, ClimbWithin

-----------------------------------------------------------------------------
(* What is not in use has no endpoints.                                    *)

DeadEnds == \A e \in Edge \ edges : tail[e] = NULL /\ head[e] = NULL

LEMMA EndsKept ==
  ASSUME DeadEnds, edges' = edges, tail' = tail, head' = head PROVE DeadEnds'
BY DEF DeadEnds

LEMMA EndsFreed ==
  ASSUME TypeOK, DeadEnds, NEW X, FreeEdges(X)
  PROVE  /\ DeadEnds'
         /\ \A e \in Edge : /\ e \in X => tail'[e] = NULL /\ head'[e] = NULL
                            /\ e \notin X => tail'[e] = tail[e] /\ head'[e] = head[e]
<1>1. \A e \in Edge : e \in DOMAIN tail /\ e \in DOMAIN head
  BY DEF TypeOK
<1>2. \A e \in Edge : /\ e \in X => tail'[e] = NULL /\ head'[e] = NULL
                      /\ e \notin X => tail'[e] = tail[e] /\ head'[e] = head[e]
  BY <1>1, BlankIs DEF FreeEdges
<1> QED BY <1>2 DEF DeadEnds, FreeEdges

-----------------------------------------------------------------------------
(* Graphs.                                                                 *)

Ends == [e \in Edge |-> <<tail[e], head[e]>>]

LEMMA OpenStep ==
  ASSUME Inv, ~ClientDetaches, Agopen PROVE Abs!Open
<1>1. graphs = {}
  <2>1. Root \notin graphs
    BY DEF Agopen
  <2> QED BY <2>1, AllReached DEF Attached
<1>2. graphs' = {Root}
  BY <1>1 DEF Agopen
<1>3. parent' = parent
  BY RootIsGraph DEF Agopen, Inv, TypeOK, Tree
<1>4. UNCHANGED <<nIdx, inIdx, tail, head>>
  BY DEF Agopen, nsets, esets, etags
<1> QED BY <1>1, <1>2, <1>3, <1>4 DEF Abs!Open

LEMMA NewSubgraphStep ==
  ASSUME Inv, NEW g \in Attached, NEW name \in SubgNames, NEW s \in Graph,
         AgsubgCreate(g, name, s)
  PROVE  Abs!NewSubgraph(g, s)
BY DEF AgsubgCreate, nsets, esets, etags, Abs!NewSubgraph

\* A function of the model and one of the abstract specification agree.
LEMMA SameOn ==
  ASSUME NEW S, NEW V, NEW f \in [S -> V], NEW h, h = [x \in S |-> h[x]],
         \A x \in S : f[x] = h[x]
  PROVE  f = h
OBVIOUS

LEMMA GraphsFreed ==
  ASSUME TypeOK, TypeOK', NEW G \in SUBSET Graph, FreeGraphs(G)
  PROVE  /\ parent' = [s \in Graph |-> IF s \in G THEN NULL ELSE parent[s]]
         /\ nIdx' = Abs!Minus(nIdx, G, Node)
         /\ inIdx' = Abs!Minus(inIdx, G, Edge)
<1>1. /\ \A x \in Graph \ G :
           parent'[x] = parent[x] /\ nIdx'[x] = nIdx[x] /\ inIdx'[x] = inIdx[x]
      /\ \A x \in Graph \cap G : parent'[x] = NULL /\ nIdx'[x] = {} /\ inIdx'[x] = {}
  BY FreeGraphsIs
<1>2. \A x \in Graph : nIdx[x] \ Node = {} /\ inIdx[x] \ Edge = {}
  BY DEF TypeOK
<1>3. /\ parent' \in [Graph -> Graph \cup {NULL}]
      /\ nIdx' \in [Graph -> SUBSET Node] /\ inIdx' \in [Graph -> SUBSET Edge]
  BY DEF TypeOK
<1>4. parent' = [s \in Graph |-> IF s \in G THEN NULL ELSE parent[s]]
  BY <1>1, <1>3
<1>5. nIdx' = [s \in Graph |-> IF s \in G THEN nIdx[s] \ Node ELSE nIdx[s]]
  BY <1>1, <1>2, <1>3
<1>6. inIdx' = [s \in Graph |-> IF s \in G THEN inIdx[s] \ Edge ELSE inIdx[s]]
  BY <1>1, <1>2, <1>3
<1> QED BY <1>4, <1>5, <1>6 DEF Abs!Minus

LEMMA CloseSubgStep ==
  ASSUME Inv, TypeOK', ~ClientDetaches, NEW g \in Attached, AgcloseSubg(g)
  PROVE  Abs!Close(g)
<1> DEFINE G == Visit(g, Graph)
<1>1. /\ graphs = Attached /\ Attached \subseteq Graph /\ TypeOK /\ Tree
  BY AllReached
<1>2. G \subseteq Graph /\ Abs!Below(g) = G
  BY <1>1, VisitFacts, BelowIsVisit, BelowIs
<1>3. g # Root /\ FreeGraphs(G) /\ tail' = tail /\ head' = head
  BY DEF AgcloseSubg, etags
<1> HIDE DEF G
<1>4. /\ parent' = [s \in Graph |-> IF s \in G THEN NULL ELSE parent[s]]
      /\ nIdx' = Abs!Minus(nIdx, G, Node)
      /\ inIdx' = Abs!Minus(inIdx, G, Edge)
  BY <1>1, <1>2, <1>3, GraphsFreed
<1>5. graphs' = graphs \ G
  BY <1>3 DEF FreeGraphs
<1> QED BY <1>2, <1>3, <1>4, <1>5 DEF Abs!Close

LEMMA CloseRootStep ==
  ASSUME Inv, TypeOK', ~ClientDetaches, DeadEnds, AgcloseRoot
  PROVE  Abs!Close(Root) /\ DeadEnds'
<1> DEFINE freed == {e \in UNION {Incident(Root, n) : n \in Swept} :
                       FoundEdge(Root, tail[e], head[e], edgeId[e]) # {}}
<1>1. /\ graphs = Attached /\ Attached \subseteq Graph /\ TypeOK /\ Tree /\ Root \in Attached
  BY AllReached DEF AgcloseRoot, ReachableClosed
<1>2. Attached = Visit(Root, Graph) /\ Abs!Below(Root) = Attached
  BY <1>1, BelowIsVisit, BelowIs DEF Attached
<1>3. FreeGraphs(Attached) /\ FreeEdges(freed)
  BY DEF AgcloseRoot
<1>4. edges \subseteq freed
  BY <1>1, SweptAll
<1> HIDE DEF freed
<1>5. \A e \in Edge : tail'[e] = NULL /\ head'[e] = NULL
  BY <1>1, <1>3, <1>4, EndsFreed DEF DeadEnds
<1>6. Ends' = [e \in Edge |-> Abs!NoEnds]
  BY <1>5 DEF Ends, Abs!NoEnds
<1>7. /\ parent' = [s \in Graph |-> IF s \in Attached THEN NULL ELSE parent[s]]
      /\ nIdx' = Abs!Minus(nIdx, Attached, Node)
      /\ inIdx' = Abs!Minus(inIdx, Attached, Edge)
  BY <1>1, <1>3, GraphsFreed
<1>8. graphs' = graphs \ Attached
  BY <1>3 DEF FreeGraphs
<1> QED BY <1>1, <1>2, <1>3, <1>6, <1>7, <1>8, EndsFreed DEF Abs!Close, Ends

-----------------------------------------------------------------------------
(* Insertions.                                                             *)

\* Sets that grow by X in g, at most by X above it, and nowhere else, grow by X
\* in every graph above, since in the end each graph has what those below have.
LEMMA PlusNodes ==
  ASSUME Inv, Inv', ~ClientDetaches, graphs' = graphs, parent' = parent, gDict' = gDict,
         NEW g \in Attached, NEW X, X \subseteq nIdx'[g],
         \A x \in Graph : nIdx[x] \subseteq nIdx'[x] /\ nIdx'[x] \subseteq nIdx[x] \cup X,
         \A x \in Graph : x \notin Above(g) => nIdx'[x] = nIdx[x]
  PROVE  nIdx' = Abs!Plus(nIdx, Above(g), X)
<1>1. Above(g)' = Above(g) /\ Attached' = Attached
  BY DEF Above, Attached, Visit
<1>2. \A s \in Above(g) : X \subseteq nIdx'[s]
  <2>1. (Inv /\ ~ClientDetaches => \A b \in Attached : \A s \in Above(b) :
          nIdx[b] \subseteq nIdx[s] /\ inIdx[b] \subseteq inIdx[s])'
    BY HeldAboveAll, PTL
  <2>2. \A s \in Above(g)' : nIdx'[g] \subseteq nIdx'[s]
    BY <1>1, <2>1
  <2> QED BY <1>1, <2>2
<1>3. nIdx' \in [Graph -> SUBSET Node]
  BY DEF Inv, TypeOK
<1>4. \A x \in Graph : /\ x \in Above(g) => nIdx'[x] = nIdx[x] \cup X
                       /\ x \notin Above(g) => nIdx'[x] = nIdx[x]
  BY <1>2
<1>5. nIdx' = [x \in Graph |-> IF x \in Above(g) THEN nIdx[x] \cup X ELSE nIdx[x]]
  BY <1>3, <1>4
<1> QED BY <1>5 DEF Abs!Plus

LEMMA PlusEdges ==
  ASSUME Inv, Inv', ~ClientDetaches, graphs' = graphs, parent' = parent, gDict' = gDict,
         NEW g \in Attached, NEW X, X \subseteq inIdx'[g],
         \A x \in Graph : inIdx[x] \subseteq inIdx'[x] /\ inIdx'[x] \subseteq inIdx[x] \cup X,
         \A x \in Graph : x \notin Above(g) => inIdx'[x] = inIdx[x]
  PROVE  inIdx' = Abs!Plus(inIdx, Above(g), X)
<1>1. Above(g)' = Above(g) /\ Attached' = Attached
  BY DEF Above, Attached, Visit
<1>2. \A s \in Above(g) : X \subseteq inIdx'[s]
  <2>1. (Inv /\ ~ClientDetaches => \A b \in Attached : \A s \in Above(b) :
          nIdx[b] \subseteq nIdx[s] /\ inIdx[b] \subseteq inIdx[s])'
    BY HeldAboveAll, PTL
  <2>2. \A s \in Above(g)' : inIdx'[g] \subseteq inIdx'[s]
    BY <1>1, <2>1
  <2> QED BY <1>1, <2>2
<1>3. inIdx' \in [Graph -> SUBSET Edge]
  BY DEF Inv, TypeOK
<1>4. \A x \in Graph : /\ x \in Above(g) => inIdx'[x] = inIdx[x] \cup X
                       /\ x \notin Above(g) => inIdx'[x] = inIdx[x]
  BY <1>2
<1>5. inIdx' = [x \in Graph |-> IF x \in Above(g) THEN inIdx[x] \cup X ELSE inIdx[x]]
  BY <1>3, <1>4
<1> QED BY <1>5 DEF Abs!Plus

\* An insertion adds nothing but the object, and only where it is made.
LEMMA JoinedBounds ==
  ASSUME NEW sets, NEW S, NEW o, NEW key, NEW x \in Graph
  PROVE  /\ sets[x] \subseteq Joined(sets, S, o, key)[x]
         /\ Joined(sets, S, o, key)[x] \subseteq sets[x] \cup {o}
         /\ x \notin S => Joined(sets, S, o, key)[x] = sets[x]
         /\ x \in S /\ (\A y \in sets[x] : key[y] = key[o] => y = o)
              => o \in Joined(sets, S, o, key)[x]
BY DEF Joined, AddNew

LEMMA AgsubnodeStep ==
  ASSUME Inv, Inv', ~ClientDetaches, NEW g \in Attached, NEW n \in Node, Agsubnode(g, n)
  PROVE  Abs!InsertNode(g, n)
<1> DEFINE S == Lacking(g, n)
<1>1. /\ nIdx' = Joined(nIdx, S, n, nodeId)
      /\ UNCHANGED <<objs, tree, ntags, etags, esets, ids, seqCtr>>
      /\ n \in nIdx[Root]
  BY DEF Agsubnode
<1>2. /\ graphs' = graphs /\ parent' = parent /\ gDict' = gDict
      /\ inIdx' = inIdx /\ tail' = tail /\ head' = head
  BY <1>1 DEF objs, tree, etags, esets
<1>3. n \in nodes /\ g \in Graph
  BY <1>1, LiveMembers, AllReached
<1>4. /\ S \subseteq Above(g)
      /\ g \in S \/ n \in nIdx[g]
  BY <1>3, ClimbAbove, LackingFacts DEF Lacking
<1> HIDE DEF S
<1>5. {n} \subseteq nIdx'[g]
  <2>1. \A m \in nIdx[g] : nodeId[m] = nodeId[n] => m = n
    BY <1>3, LiveMembers, NodeById
  <2> QED BY <1>1, <1>3, <1>4, <2>1, JoinedBounds
<1>6. /\ \A x \in Graph : nIdx[x] \subseteq nIdx'[x] /\ nIdx'[x] \subseteq nIdx[x] \cup {n}
      /\ \A x \in Graph : x \notin Above(g) => nIdx'[x] = nIdx[x]
  BY <1>1, <1>4, JoinedBounds
<1>7. nIdx' = Abs!Plus(nIdx, Above(g), {n})
  BY <1>2, <1>5, <1>6, PlusNodes
<1> QED BY <1>2, <1>7, AboveIs DEF Abs!InsertNode

LEMMA AgnodeCreateStep ==
  ASSUME Inv, Inv', ~ClientDetaches, NEW g \in Attached, NEW n \in Node, NEW name,
         AgnodeCreate(g, name, n)
  PROVE  Abs!InsertNode(g, n)
<1> DEFINE S == Climb(g, {})
<1>1. /\ nIdx' = Joined(nIdx, S, n, nodeId') /\ nodes' = nodes \cup {n}
      /\ UNCHANGED <<graphs, edges, tree, etags, esets>>
  BY DEF AgnodeCreate
<1>2. /\ graphs' = graphs /\ parent' = parent /\ gDict' = gDict
      /\ inIdx' = inIdx /\ tail' = tail /\ head' = head
  BY <1>1 DEF tree, etags, esets
<1>3. g \in Graph /\ nIdx[g] \subseteq nodes /\ TypeOK /\ Tree
  BY LiveMembers, AllReached
<1>4. S \subseteq Above(g) /\ g \in S
  BY <1>3, ClimbAbove, ClimbFacts
<1> HIDE DEF S
<1>5. {n} \subseteq nIdx'[g]
  <2>1. \A m \in nIdx[g] : nodeId'[m] = nodeId'[n] => m = n
    BY <1>1, <1>3 DEF Inv, UniqueIds
  <2> QED BY <1>1, <1>3, <1>4, <2>1, JoinedBounds
<1>6. /\ \A x \in Graph : nIdx[x] \subseteq nIdx'[x] /\ nIdx'[x] \subseteq nIdx[x] \cup {n}
      /\ \A x \in Graph : x \notin Above(g) => nIdx'[x] = nIdx[x]
  BY <1>1, <1>4, JoinedBounds
<1>7. nIdx' = Abs!Plus(nIdx, Above(g), {n})
  BY <1>2, <1>5, <1>6, PlusNodes
<1> QED BY <1>2, <1>7, AboveIs DEF Abs!InsertNode

LEMMA EdgeKeys ==
  Inv => \A x \in edges : \A f \in edges :
    head[x] = head[f] /\ nodeId[tail[x]] = nodeId[tail[f]] /\ edgeId[x] = edgeId[f] => x = f
BY EdgeByKey

LEMMA AgedgeCreateStep ==
  ASSUME Inv, Inv', ~ClientDetaches, DeadEnds, NEW g \in Attached, NEW e \in Edge,
         NEW t \in Node, NEW h \in Node, NEW name, AgedgeCreate(g, t, h, name, e)
  PROVE  /\ Abs!NewEdge(g, t, h, e) /\ DeadEnds'
         /\ e \notin inIdx[Root] /\ t \in nIdx[g] /\ h \in nIdx[g]
<1> DEFINE id == edgeId'[e]
           S == Climb(g, {})
           key == EdgeKey(head', tail', edgeId')
<1>1. /\ e \notin edges /\ edges' = edges \cup {e} /\ t \in nIdx[g] /\ h \in nIdx[g]
      /\ tail' = [tail EXCEPT ![e] = t] /\ head' = [head EXCEPT ![e] = h]
      /\ inIdx' = Joined(inIdx, Climb(g, HoldersOfEdge(t, h, id)), e, key)
  BY DEF AgedgeCreate, InstallEdge
<1>2. /\ graphs' = graphs /\ parent' = parent /\ gDict' = gDict /\ nodeId' = nodeId
      /\ nIdx' = nIdx
  BY DEF AgedgeCreate, tree, ntags, nsets
<1>3. /\ g \in Graph /\ TypeOK /\ Tree
      /\ edges = inIdx[Root] /\ t \in nodes /\ h \in nodes /\ inIdx[g] \subseteq edges
  BY <1>1, LiveMembers, AllReached
<1>4. \A f \in edges : /\ f \in Edge /\ f # e /\ tail'[f] = tail[f] /\ head'[f] = head[f]
                       /\ edgeId'[f] = edgeId[f]
  BY <1>1, <1>3 DEF AgedgeCreate, TypeOK
<1>5. tail'[e] = t /\ head'[e] = h
  BY <1>1, <1>3 DEF TypeOK
<1>6. \A f \in edges : ~(head[f] = h /\ nodeId[tail[f]] = nodeId[t] /\ edgeId[f] = id)
  <2>1. (Inv => \A x \in edges : \A f \in edges :
           head[x] = head[f] /\ nodeId[tail[x]] = nodeId[tail[f]] /\ edgeId[x] = edgeId[f]
             => x = f)'
    BY EdgeKeys, PTL
  <2> QED BY <2>1, <1>1, <1>2, <1>4, <1>5
<1>7. HoldersOfEdge(t, h, id) = {}
  <2> SUFFICES ASSUME NEW x \in Attached, NEW f \in FoundEdge(x, t, h, id) PROVE FALSE
    BY DEF HoldersOfEdge
  <2>1. /\ f \in inIdx[x] /\ head[f] = h /\ nodeId[tail[f]] = nodeId[t] /\ edgeId[f] = id
    BY DEF FoundEdge
  <2>2. f \in edges
    BY <2>1, LiveMembers
  <2> QED BY <2>1, <2>2, <1>6
<1>8. S \subseteq Above(g) /\ g \in S
  BY <1>3, ClimbAbove, ClimbFacts
<1>9. \A f \in inIdx[g] : key[f] = key[e] => f = e
  <2>1. key[e] = <<h, nodeId[t], id>>
    BY <1>5 DEF EdgeKey
  <2>2. ASSUME NEW f \in inIdx[g]
        PROVE  f \in edges /\ key[f] = <<head[f], nodeId[tail[f]], edgeId[f]>>
    BY <1>3, <1>4 DEF EdgeKey
  <2> HIDE DEF key
  <2> QED BY <2>1, <2>2, <1>6
<1>10. inIdx' = Joined(inIdx, S, e, key)
  BY <1>1, <1>7
<1> HIDE DEF S, key
<1>11. {e} \subseteq inIdx'[g]
  BY <1>3, <1>8, <1>9, <1>10, JoinedBounds
<1>12. /\ \A x \in Graph : inIdx[x] \subseteq inIdx'[x] /\ inIdx'[x] \subseteq inIdx[x] \cup {e}
       /\ \A x \in Graph : x \notin Above(g) => inIdx'[x] = inIdx[x]
  BY <1>8, <1>10, JoinedBounds
<1>13. inIdx' = Abs!Plus(inIdx, Above(g), {e})
  BY <1>2, <1>11, <1>12, PlusEdges
<1>14. Ends' = [Ends EXCEPT ![e] = <<t, h>>]
  BY <1>1, <1>3, <1>5 DEF Ends, TypeOK
<1>15. DeadEnds'
  BY <1>1, <1>3 DEF DeadEnds, TypeOK
<1> QED BY <1>1, <1>2, <1>3, <1>13, <1>14, <1>15, AboveIs DEF Abs!NewEdge, Ends

\* installedge puts an edge of the root into g and the graphs above.
LEMMA InstallOldStep ==
  ASSUME Inv, Inv', ~ClientDetaches, UNCHANGED <<objs, tree>>,
         NEW g \in Attached, NEW e \in edges, InstallOld(g, e)
  PROVE  inIdx' = Abs!Plus(inIdx, Above(g), {e})
<1>1. graphs' = graphs /\ parent' = parent /\ gDict' = gDict
  BY DEF objs, tree
<1>2. EdgeLacking(g, e) \subseteq Above(g) /\ EdgeLacking(g, e) \subseteq Attached
  BY ClimbAbove, EdgeLackingFacts DEF EdgeLacking
<1>3. g \in EdgeLacking(g, e) \/ e \in inIdx[g]
  BY EdgeLackingFacts
<1>4. /\ \A x \in Attached : \A f :
           f \in inIdx'[x] <=> f \in inIdx[x] \/ (x \in EdgeLacking(g, e) /\ f = e)
      /\ \A x \in Graph \ Attached : inIdx'[x] = inIdx[x]
  BY InstallOldIs
<1>5. {e} \subseteq inIdx'[g]
  BY <1>3, <1>4
<1>6. \A x \in Graph : inIdx[x] \in SUBSET Edge /\ inIdx'[x] \in SUBSET Edge
  BY DEF Inv, TypeOK
<1>7. \A x \in Graph : inIdx[x] \subseteq inIdx'[x] /\ inIdx'[x] \subseteq inIdx[x] \cup {e}
  BY <1>4
<1>8. \A x \in Graph : x \notin Above(g) => inIdx'[x] = inIdx[x]
  BY <1>2, <1>4, <1>6
<1> QED BY <1>1, <1>5, <1>7, <1>8, PlusEdges

LEMMA AgedgeSubedgeStep ==
  ASSUME Inv, Inv', ~ClientDetaches, NEW g \in Attached, NEW e \in Edge, NEW t \in Node,
         NEW h \in Node, NEW name, AgedgeSubedge(g, t, h, name, e)
  PROVE  Abs!InsertEdge(g, e) /\ e \in inIdx[Root]
<1>1. /\ t \in nIdx[g] /\ h \in nIdx[g] /\ e \in ProbeEdge(Root, t, h, name)
      /\ InstallOld(g, e)
      /\ UNCHANGED <<objs, tree, etags, nsets>>
  BY DEF AgedgeSubedge
<1>2. t \in nodes /\ h \in nodes /\ inIdx[Root] = edges
  BY <1>1, LiveMembers
<1>3. /\ e \in edges
      /\ \/ head[e] = h /\ nodeId[tail[e]] = nodeId[t]
         \/ head[e] = t /\ nodeId[tail[e]] = nodeId[h]
  BY <1>1, <1>2 DEF ProbeEdge, ProbeDir, FoundEdge, FoundAny
<1>4. {tail[e], head[e]} \subseteq nIdx[g]
  BY <1>1, <1>2, <1>3, LiveEnds, NodeById
<1>5. /\ graphs' = graphs /\ parent' = parent /\ gDict' = gDict /\ nIdx' = nIdx
      /\ tail' = tail /\ head' = head
  BY <1>1 DEF objs, tree, etags, nsets
<1>6. nIdx' = Abs!Plus(nIdx, Above(g), {tail[e], head[e]})
  BY <1>4, <1>5, PlusNodes
<1>7. inIdx' = Abs!Plus(inIdx, Above(g), {e})
  BY <1>1, <1>3, InstallOldStep
<1> QED BY <1>2, <1>3, <1>5, <1>6, <1>7, AboveIs DEF Abs!InsertEdge

LEMMA AgsubedgeStep ==
  ASSUME Inv, Inv', ~ClientDetaches, NEW g \in Attached, NEW e \in Edge, Agsubedge(g, e)
  PROVE  Abs!InsertEdge(g, e) /\ e \in inIdx[Root]
<1> DEFINE T == Lacking(g, tail[e])
           H == Lacking(g, head[e])
           first == Joined(nIdx, T, tail[e], nodeId)
<1>1. /\ e \in edges /\ InstallOld(g, e)
      /\ nIdx' = Joined(first, H, head[e], nodeId)
      /\ UNCHANGED <<objs, tree, etags>>
  BY DEF Agsubedge
<1>2. /\ graphs' = graphs /\ parent' = parent /\ gDict' = gDict
      /\ tail' = tail /\ head' = head
  BY <1>1 DEF objs, tree, etags
<1>3. inIdx' = Abs!Plus(inIdx, Above(g), {e})
  BY <1>1, InstallOldStep
<1>4. {tail[e], head[e]} \subseteq nIdx'[g]
  <2>1. g \in Attached' /\ g \in Above(g) /\ g \in Graph
    BY <1>2, AboveFacts, AllReached DEF Attached, Visit
  <2>2. e \in inIdx'[g]
    BY <1>3, <2>1 DEF Abs!Plus
  <2> QED BY <1>2, <2>1, <2>2 DEF Inv, SetsSound, EndpointsPresent
<1>5. T \subseteq Above(g) /\ H \subseteq Above(g)
  BY ClimbAbove DEF Lacking
<1> HIDE DEF T, H
<1>6. ASSUME NEW x \in Graph
      PROVE  /\ nIdx[x] \subseteq first[x] /\ first[x] \subseteq nIdx[x] \cup {tail[e]}
             /\ x \notin T => first[x] = nIdx[x]
  BY JoinedBounds
<1> HIDE DEF first
<1>7. ASSUME NEW x \in Graph
      PROVE  /\ first[x] \subseteq nIdx'[x] /\ nIdx'[x] \subseteq first[x] \cup {head[e]}
             /\ x \notin H => nIdx'[x] = first[x]
  BY <1>1, JoinedBounds
<1>8. \A x \in Graph : /\ nIdx[x] \subseteq nIdx'[x]
                       /\ nIdx'[x] \subseteq nIdx[x] \cup {tail[e], head[e]}
  <2> TAKE x \in Graph
  <2>1. nIdx[x] \subseteq first[x] /\ first[x] \subseteq nIdx[x] \cup {tail[e]}
    BY <1>6
  <2>2. first[x] \subseteq nIdx'[x] /\ nIdx'[x] \subseteq first[x] \cup {head[e]}
    BY <1>7
  <2> QED BY <2>1, <2>2
<1>9. \A x \in Graph : x \notin Above(g) => nIdx'[x] = nIdx[x]
  BY <1>5, <1>6, <1>7
<1>10. nIdx' = Abs!Plus(nIdx, Above(g), {tail[e], head[e]})
  BY <1>2, <1>4, <1>8, <1>9, PlusNodes
<1>11. inIdx[Root] = edges
  BY LiveMembers
<1> QED BY <1>1, <1>2, <1>3, <1>10, <1>11, AboveIs DEF Abs!InsertEdge

-----------------------------------------------------------------------------
(* Removals.                                                               *)

\* A recursion that enters fewer subgraphs visits no others.
LEMMA VisitFewer ==
  ASSUME NEW g \in Graph, NEW F \in SUBSET Graph
  PROVE  Visit(g, F) \subseteq Visit(g, Graph)
<1> DEFINE T == Down(gDict, g, Graph)
<1>1. g \in T /\ \A p \in T : \A s \in gDict[p] : s \in Graph => s \in T
  BY DownClosed
<1>2. \A p \in T \cap Graph : \A s \in gDict[p] : s \in F => s \in T
  BY <1>1
<1> HIDE DEF T
<1>3. Down(gDict, g, F) \subseteq T
  BY <1>1, <1>2, DownLeast
<1> QED BY <1>3, VisitIsDown DEF T

LEMMA AgdeledgeSubgStep ==
  ASSUME Inv, Inv', ~ClientDetaches, NEW g \in Attached, NEW e \in Edge, AgdeledgeSubg(g, e)
  PROVE  Abs!RemoveEdge(g, e) /\ e \in inIdx[g]
<1> DEFINE V == EdgeVisit(g, e)
           B == Below(g)
<1>1. /\ e \in edges /\ g # Root
      /\ FoundEdge(g, tail[e], head[e], edgeId[e]) # {}
      /\ UNCHANGED <<objs, tree, etags, nsets>>
  BY DEF AgdeledgeSubg
<1>2. /\ graphs' = graphs /\ parent' = parent /\ nIdx' = nIdx
      /\ tail' = tail /\ head' = head
  BY <1>1 DEF objs, tree, etags, nsets
<1>3. e \in inIdx[g]
  BY <1>1, FoundEdgeIs
<1>4. /\ \A x \in Attached : \A f :
           f \in inIdx'[x] <=> f \in inIdx[x] /\ ~(x \in V /\ f = e)
      /\ \A x \in Graph \ Attached : inIdx'[x] = inIdx[x]
  BY AgdeledgeSubgIs
<1>5. V \subseteq Below(g) /\ \A s \in Below(g) : e \in inIdx[s] => s \in V
  <2>1. Below(g) = Visit(g, Graph)
    BY BelowIsVisit
  <2>2. \A s \in Visit(g, Graph) : e \in inIdx[s] => s \in V
    BY <1>1, EdgeVisitFacts
  <2>3. HoldersOfEdge(tail[e], head[e], edgeId[e]) \subseteq Graph
    BY AllReached DEF HoldersOfEdge
  <2>4. V \subseteq Visit(g, Graph)
    BY <2>3, AllReached, VisitFewer DEF EdgeVisit
  <2> QED BY <2>1, <2>2, <2>4
<1>6. B \subseteq Attached /\ Attached \subseteq Graph
  BY AllReached DEF Below
<1> HIDE DEF V, B
<1>7. inIdx' \in [Graph -> SUBSET Edge]
  BY DEF Inv, TypeOK
<1>8. \A x \in Graph : /\ x \in B => inIdx'[x] = inIdx[x] \ {e}
                       /\ x \notin B => inIdx'[x] = inIdx[x]
  <2>1. \A x \in Graph : inIdx[x] \in SUBSET Edge /\ inIdx'[x] \in SUBSET Edge
    BY DEF Inv, TypeOK
  <2> QED BY <1>4, <1>5, <1>6, <2>1 DEF B
<1>9. inIdx' = [x \in Graph |-> IF x \in B THEN inIdx[x] \ {e} ELSE inIdx[x]]
  BY <1>7, <1>8
<1> QED BY <1>1, <1>2, <1>3, <1>9, BelowIs DEF Abs!RemoveEdge, Abs!Minus, B

LEMMA BelowRoot ==
  ASSUME Inv, ~ClientDetaches, Root \in graphs PROVE Below(Root) = Attached /\ Root \in Attached
<1>1. Root \in Attached
  BY AllReached
<1> QED BY <1>1, BelowIsVisit DEF Attached

LEMMA AgdeledgeRootStep ==
  ASSUME Inv, Inv', ~ClientDetaches, DeadEnds, NEW e \in Edge, AgdeledgeRoot(e)
  PROVE  Abs!RemoveEdge(Root, e) /\ e \in inIdx[Root] /\ Root \in graphs /\ DeadEnds'
<1>1. /\ Root \in graphs /\ e \in edges /\ FreeEdges({e})
      /\ graphs' = graphs /\ parent' = parent /\ nIdx' = nIdx
  BY DEF AgdeledgeRoot, tree, nsets
<1>2. Below(Root) = Attached /\ Root \in Attached /\ Attached \subseteq Graph /\ TypeOK
  BY <1>1, BelowRoot, AllReached
<1>3. e \in inIdx[Root]
  BY <1>1, <1>2, LiveMembers
<1>4. /\ \A x \in Attached : inIdx'[x] = inIdx[x] \ {e}
      /\ \A x \in Graph \ Attached : inIdx'[x] = inIdx[x]
  BY AgdeledgeRootIs
<1>5. inIdx' \in [Graph -> SUBSET Edge]
  BY DEF Inv, TypeOK
<1>6. inIdx' = [x \in Graph |-> IF x \in Attached THEN inIdx[x] \ {e} ELSE inIdx[x]]
  BY <1>4, <1>5
<1>7. \A f \in Edge : /\ f = e => tail'[f] = NULL /\ head'[f] = NULL
                      /\ f # e => tail'[f] = tail[f] /\ head'[f] = head[f]
  BY <1>1, <1>2, EndsFreed
<1>8. Ends' = [Ends EXCEPT ![e] = Abs!NoEnds]
  BY <1>7 DEF Ends, Abs!NoEnds
<1>9. DeadEnds'
  BY <1>1, <1>2, EndsFreed
<1> QED BY <1>1, <1>2, <1>3, <1>6, <1>8, <1>9, BelowIs DEF Abs!RemoveEdge, Abs!Minus, Ends

\* The edges a graph loses with a node, as the abstract specification has them.
LostWith(g, n) == {e \in inIdx[g] : n \in {Ends[e][1], Ends[e][2]}}

LEMMA LostIs ==
  ASSUME Inv, NEW g \in Attached, NEW n
  PROVE  \A e : e \in LostWith(g, n) <=> e \in inIdx[g] /\ n \in {tail[e], head[e]}
<1>1. inIdx[g] \subseteq Edge
  BY LiveMembers DEF Inv, TypeOK
<1> QED BY <1>1 DEF LostWith, Ends

LEMMA AgdelnodeSubgStep ==
  ASSUME Inv, Inv', ~ClientDetaches, NEW g \in Attached, NEW n \in Node, AgdelnodeSubg(g, n)
  PROVE  Abs!RemoveNode(g, n)
<1> DEFINE V == NodeVisit(g, n)
           B == Below(g)
           L == LostWith(g, n)
<1>1. /\ n \in nodes /\ g # Root /\ FoundNode(g, nodeId[n]) # {}
      /\ UNCHANGED <<objs, tree, etags>>
  BY DEF AgdelnodeSubg
<1>2. graphs' = graphs /\ parent' = parent /\ tail' = tail /\ head' = head
  BY <1>1 DEF objs, tree, etags
<1>3. n \in nIdx[g]
  BY <1>1, FoundNodeIs
<1>4. /\ \A x \in Attached :
           /\ \A m : m \in nIdx'[x] <=> m \in nIdx[x] /\ ~(x \in V /\ m = n)
           /\ \A e : e \in inIdx'[x] <=>
                e \in inIdx[x] /\ ~(x \in V /\ n \in {tail[e], head[e]})
      /\ \A x \in Graph \ Attached : nIdx'[x] = nIdx[x] /\ inIdx'[x] = inIdx[x]
  BY AgdelnodeSubgIs
<1>5. V \subseteq Below(g) /\ \A s \in Below(g) : n \in nIdx[s] => s \in V
  <2>1. Below(g) = Visit(g, Graph)
    BY BelowIsVisit
  <2>2. \A s \in Visit(g, Graph) : n \in nIdx[s] => s \in V
    BY <1>1, NodeVisitFacts
  <2>3. HoldersOfNode(n) \subseteq Graph
    BY AllReached DEF HoldersOfNode
  <2>4. V \subseteq Visit(g, Graph)
    BY <2>3, AllReached, VisitFewer DEF NodeVisit
  <2> QED BY <2>1, <2>2, <2>4
<1>6. B \subseteq Attached /\ Attached \subseteq Graph
  BY AllReached DEF Below
<1>7. \A e : e \in L <=> e \in inIdx[g] /\ n \in {tail[e], head[e]}
  BY LostIs
<1>8. \A x \in B : inIdx[x] \subseteq inIdx[g]
  BY HeldBelow
<1> HIDE DEF V, B, L
<1>9. \A x \in B \ V : \A e \in inIdx[x] : n \notin {tail[e], head[e]}
  <2> TAKE x \in B \ V
  <2>1. n \notin nIdx[x] /\ x \in Attached
    BY <1>5, <1>6 DEF B
  <2> QED BY <2>1, LiveMembers
<1>10. \A x \in Graph : /\ nIdx[x] \in SUBSET Node /\ nIdx'[x] \in SUBSET Node
                        /\ inIdx[x] \in SUBSET Edge /\ inIdx'[x] \in SUBSET Edge
  BY DEF Inv, TypeOK
<1>11. nIdx' \in [Graph -> SUBSET Node] /\ inIdx' \in [Graph -> SUBSET Edge]
  BY DEF Inv, TypeOK
<1>12. \A x \in Graph : /\ x \in B => nIdx'[x] = nIdx[x] \ {n}
                        /\ x \notin B => nIdx'[x] = nIdx[x]
  BY <1>4, <1>5, <1>6, <1>10 DEF B
<1>13. \A x \in B : inIdx'[x] = inIdx[x] \ L
  <2> TAKE x \in B
  <2>1. \A e : e \in inIdx'[x] <=> e \in inIdx[x] /\ e \notin L
    BY <1>4, <1>6, <1>7, <1>8, <1>9
  <2> QED BY <2>1
<1>14. \A x \in Graph \ B : inIdx'[x] = inIdx[x]
  <2> TAKE x \in Graph \ B
  <2>1. x \notin V
    BY <1>5 DEF B
  <2>2. \A e : e \in inIdx'[x] <=> e \in inIdx[x]
    BY <2>1, <1>4
  <2> QED BY <2>2, <1>10
<1>15. nIdx' = [x \in Graph |-> IF x \in B THEN nIdx[x] \ {n} ELSE nIdx[x]]
  BY <1>11, <1>12
<1>16. inIdx' = [x \in Graph |-> IF x \in B THEN inIdx[x] \ L ELSE inIdx[x]]
  BY <1>11, <1>13, <1>14
<1>17. Ends' = [e \in Edge |-> IF g = Root /\ e \in L THEN Abs!NoEnds ELSE Ends[e]]
  BY <1>1, <1>2 DEF Ends
<1> QED BY <1>2, <1>3, <1>15, <1>16, <1>17, BelowIs
       DEF Abs!RemoveNode, Abs!Minus, B, L, LostWith, Ends

LEMMA AgdelnodeRootStep ==
  ASSUME Inv, Inv', ~ClientDetaches, DeadEnds, NEW n \in Node, AgdelnodeRoot(n)
  PROVE  Abs!RemoveNode(Root, n) /\ Root \in graphs /\ DeadEnds'
<1> DEFINE L == LostWith(Root, n)
<1>1. /\ Root \in graphs /\ n \in nodes /\ FreeEdges(Touching(n))
      /\ graphs' = graphs /\ parent' = parent
  BY AgdelnodeRootIs DEF tree
<1>2. Below(Root) = Attached /\ Root \in Attached /\ Attached \subseteq Graph /\ TypeOK
  BY <1>1, BelowRoot, AllReached
<1>3. n \in nIdx[Root] /\ inIdx[Root] = edges
  BY <1>1, <1>2, LiveMembers
<1>4. /\ \A x \in Attached :
           nIdx'[x] = nIdx[x] \ {n} /\ inIdx'[x] = inIdx[x] \ Touching(n)
      /\ \A x \in Graph \ Attached : nIdx'[x] = nIdx[x] /\ inIdx'[x] = inIdx[x]
  BY AgdelnodeRootIs
<1>5. L = Touching(n)
  <2>1. \A e : e \in L <=> e \in inIdx[Root] /\ n \in {tail[e], head[e]}
    BY <1>2, LostIs
  <2> QED BY <2>1, <1>3 DEF Touching
<1> HIDE DEF L
<1>6. nIdx' \in [Graph -> SUBSET Node] /\ inIdx' \in [Graph -> SUBSET Edge]
  BY DEF Inv, TypeOK
<1>7. nIdx' = [x \in Graph |-> IF x \in Attached THEN nIdx[x] \ {n} ELSE nIdx[x]]
  BY <1>4, <1>6
<1>8. inIdx' = [x \in Graph |-> IF x \in Attached THEN inIdx[x] \ L ELSE inIdx[x]]
  BY <1>4, <1>5, <1>6
<1>9. \A e \in Edge : /\ e \in L => tail'[e] = NULL /\ head'[e] = NULL
                      /\ e \notin L => tail'[e] = tail[e] /\ head'[e] = head[e]
  BY <1>1, <1>2, <1>5, EndsFreed
<1>10. Ends' = [e \in Edge |-> IF Root = Root /\ e \in L THEN Abs!NoEnds ELSE Ends[e]]
  BY <1>9 DEF Ends, Abs!NoEnds
<1>11. DeadEnds'
  BY <1>1, <1>2, EndsFreed
<1> QED BY <1>1, <1>2, <1>3, <1>7, <1>8, <1>10, <1>11, BelowIs
       DEF Abs!RemoveNode, Abs!Minus, L, LostWith, Ends

-----------------------------------------------------------------------------
(* The refinement.                                                         *)

LEMMA InitRefines == Init => Abs!Init /\ DeadEnds
BY DEF Init, Abs!Init, Abs!NoEnds, DeadEnds

LEMMA GraphOpRefines ==
  ASSUME Inv, Inv', ~ClientDetaches, DeadEnds, GraphOp
  PROVE  Abs!Next /\ DeadEnds'
<1>1. graphs = Attached /\ TypeOK' /\ Root \in Graph
  BY AllReached, RootIsGraph DEF Inv
<1>2. CASE Agopen
  BY <1>2, OpenStep, EndsKept DEF Agopen, etags, Abs!Next
<1>3. CASE AgcloseRoot
  <2>1. Root \in graphs
    BY <1>3 DEF AgcloseRoot
  <2>2. Abs!Close(Root) /\ DeadEnds'
    BY <1>1, <1>3, CloseRootStep
  <2> QED BY <2>1, <2>2 DEF Abs!Next
<1>4. CASE \E g \in Attached : AgcloseSubg(g)
  <2>1. PICK g \in Attached : AgcloseSubg(g)
    BY <1>4
  <2>2. Abs!Close(g)
    BY <1>1, <2>1, CloseSubgStep
  <2>3. DeadEnds'
    BY <2>1, EndsKept DEF AgcloseSubg, etags
  <2> QED BY <1>1, <2>2, <2>3 DEF Abs!Next
<1>5. CASE \E g \in Attached : Agdelsubg(g)
  BY <1>5 DEF Agdelsubg
<1>6. CASE \E g \in Attached : \E s \in Graph, name \in SubgNames : AgsubgCreate(g, name, s)
  <2>1. PICK g \in Attached : \E s \in Graph, name \in SubgNames : AgsubgCreate(g, name, s)
    BY <1>6
  <2>2. PICK s \in Graph, name \in SubgNames : AgsubgCreate(g, name, s)
    BY <2>1
  <2>3. Abs!NewSubgraph(g, s)
    BY <2>2, NewSubgraphStep
  <2>4. DeadEnds'
    BY <2>2, EndsKept DEF AgsubgCreate, etags
  <2> QED BY <1>1, <2>3, <2>4 DEF Abs!Next
<1> QED BY <1>2, <1>3, <1>4, <1>5, <1>6 DEF GraphOp

LEMMA NodeOpRefines ==
  ASSUME Inv, Inv', ~ClientDetaches, DeadEnds, NodeOp
  PROVE  Abs!Next /\ DeadEnds'
<1>1. graphs = Attached
  BY AllReached
<1>2. CASE \E n \in Node : AgdelnodeRoot(n)
  <2>1. PICK n \in Node : AgdelnodeRoot(n)
    BY <1>2
  <2>2. Abs!RemoveNode(Root, n) /\ Root \in graphs /\ DeadEnds'
    BY <2>1, AgdelnodeRootStep
  <2> QED BY <2>2 DEF Abs!Next
<1>3. CASE \E g \in Attached, n \in Node : Agsubnode(g, n)
  <2>1. PICK g \in Attached, n \in Node : Agsubnode(g, n)
    BY <1>3
  <2>2. Abs!InsertNode(g, n)
    BY <2>1, AgsubnodeStep
  <2>3. DeadEnds'
    BY <2>1, EndsKept DEF Agsubnode, objs, etags
  <2> QED BY <1>1, <2>2, <2>3 DEF Abs!Next
<1>4. CASE \E g \in Attached, n \in Node : AgdelnodeSubg(g, n)
  <2>1. PICK g \in Attached, n \in Node : AgdelnodeSubg(g, n)
    BY <1>4
  <2>2. Abs!RemoveNode(g, n)
    BY <2>1, AgdelnodeSubgStep
  <2>3. DeadEnds'
    BY <2>1, EndsKept DEF AgdelnodeSubg, objs, etags
  <2> QED BY <1>1, <2>2, <2>3 DEF Abs!Next
<1>5. CASE \E g \in Attached, n \in Node : \E name \in NodeNames : AgnodeCreate(g, name, n)
  <2>1. PICK g \in Attached, n \in Node, name \in NodeNames : AgnodeCreate(g, name, n)
    BY <1>5
  <2>2. Abs!InsertNode(g, n)
    BY <2>1, AgnodeCreateStep
  <2>3. DeadEnds'
    BY <2>1, EndsKept DEF AgnodeCreate, etags
  <2> QED BY <1>1, <2>2, <2>3 DEF Abs!Next
<1> QED BY <1>2, <1>3, <1>4, <1>5 DEF NodeOp

LEMMA EdgeOpRefines ==
  ASSUME Inv, Inv', ~ClientDetaches, DeadEnds, EdgeOp
  PROVE  Abs!Next /\ DeadEnds'
<1>1. graphs = Attached
  BY AllReached
<1>2. CASE \E e \in Edge : AgdeledgeRoot(e)
  <2>1. PICK e \in Edge : AgdeledgeRoot(e)
    BY <1>2
  <2>2. Abs!RemoveEdge(Root, e) /\ e \in inIdx[Root] /\ Root \in graphs /\ DeadEnds'
    BY <2>1, AgdeledgeRootStep
  <2> QED BY <2>2 DEF Abs!Next
<1>3. CASE \E g \in Attached, e \in Edge : Agsubedge(g, e)
  <2>1. PICK g \in Attached, e \in Edge : Agsubedge(g, e)
    BY <1>3
  <2>2. Abs!InsertEdge(g, e) /\ e \in inIdx[Root]
    BY <2>1, AgsubedgeStep
  <2>3. DeadEnds'
    BY <2>1, EndsKept DEF Agsubedge, objs, etags
  <2> QED BY <1>1, <2>2, <2>3 DEF Abs!Next
<1>4. CASE \E g \in Attached, e \in Edge : AgdeledgeSubg(g, e)
  <2>1. PICK g \in Attached, e \in Edge : AgdeledgeSubg(g, e)
    BY <1>4
  <2>2. Abs!RemoveEdge(g, e) /\ e \in inIdx[g]
    BY <2>1, AgdeledgeSubgStep
  <2>3. DeadEnds'
    BY <2>1, EndsKept DEF AgdeledgeSubg, objs, etags
  <2> QED BY <1>1, <2>2, <2>3 DEF Abs!Next
<1>5. CASE \E g \in Attached, e \in Edge : \E t, h \in Node, name \in EdgeNames :
             AgedgeSubedge(g, t, h, name, e)
  <2>1. PICK g \in Attached, e \in Edge : \E t, h \in Node, name \in EdgeNames :
          AgedgeSubedge(g, t, h, name, e)
    BY <1>5
  <2>2. PICK t \in Node, h \in Node, name \in EdgeNames : AgedgeSubedge(g, t, h, name, e)
    BY <2>1
  <2>3. Abs!InsertEdge(g, e) /\ e \in inIdx[Root]
    BY <2>2, AgedgeSubedgeStep
  <2>4. DeadEnds'
    BY <2>2, EndsKept DEF AgedgeSubedge, objs, etags
  <2> QED BY <1>1, <2>3, <2>4 DEF Abs!Next
<1>6. CASE \E g \in Attached, e \in Edge : \E t, h \in Node, name \in EdgeNames :
             AgedgeCreate(g, t, h, name, e)
  <2>1. PICK g \in Attached, e \in Edge : \E t, h \in Node, name \in EdgeNames :
          AgedgeCreate(g, t, h, name, e)
    BY <1>6
  <2>2. PICK t \in Node, h \in Node, name \in EdgeNames : AgedgeCreate(g, t, h, name, e)
    BY <2>1
  <2>3. /\ Abs!NewEdge(g, t, h, e) /\ DeadEnds'
        /\ e \notin inIdx[Root] /\ t \in nIdx[g] /\ h \in nIdx[g]
    BY <2>2, AgedgeCreateStep
  <2> QED BY <1>1, <2>3 DEF Abs!Next
<1> QED BY <1>2, <1>3, <1>4, <1>5, <1>6 DEF EdgeOp

LEMMA NextRefines ==
  ~ClientDetaches /\ Inv /\ Inv' /\ DeadEnds /\ [Next]_vars => [Abs!Next]_(Abs!vars) /\ DeadEnds'
<1> SUFFICES ASSUME ~ClientDetaches, Inv, Inv', DeadEnds, [Next]_vars
             PROVE  [Abs!Next]_(Abs!vars) /\ DeadEnds'
  OBVIOUS
<1>1. CASE UNCHANGED vars
  <2>1. UNCHANGED Abs!vars
    BY <1>1 DEF vars, objs, tree, etags, nsets, esets, Abs!vars
  <2>2. DeadEnds'
    BY <1>1, EndsKept DEF vars, objs, etags
  <2> QED BY <2>1, <2>2
<1>2. CASE Next
  BY <1>2, GraphOpRefines, NodeOpRefines, EdgeOpRefines DEF Next
<1> QED BY <1>1, <1>2

\* A client that closes subgraphs with agclose never sees the sets of a graph
\* change but as CgraphAbs says, whatever names it gives and in whatever order it
\* inserts and deletes (agapply, agsubnode, agsubedge, agdelnode, agdeledge, agclose).
THEOREM KeepsItsPromise ==
  ASSUME MaxSeq < SeqMod, ~ClientDetaches PROVE Spec => KeepsPromise
<1>1. Spec => []Inv
  BY Always
<1>2. Init => Abs!Init /\ DeadEnds
  BY InitRefines
<1>3. Inv /\ Inv' /\ DeadEnds /\ [Next]_vars => [Abs!Next]_(Abs!vars) /\ DeadEnds'
  BY NextRefines
<1> QED BY <1>1, <1>2, <1>3, PTL DEF Spec, KeepsPromise, Abs!Spec
=============================================================================
