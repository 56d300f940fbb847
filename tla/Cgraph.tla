------------------------------- MODULE Cgraph -------------------------------
(***************************************************************************)
(* The graph store of libcgraph: the node, edge and subgraph sets of a     *)
(* root graph and the tree of its subgraphs (lib/cgraph graph.c, node.c,   *)
(* edge.c, subg.c, apply.c), with the reference counts that the default    *)
(* id discipline (id.c) keeps on object names.                             *)
(*                                                                         *)
(* A node (Agnode_t) and an edge (Agedgepair_t) are one struct, shared by  *)
(* the root graph and every subgraph that holds them.  A graph holds its   *)
(* nodes twice, ordered by id (n_id) and by sequence number (n_seq), and   *)
(* each edge four times: under its tail by id and sequence (out_id,        *)
(* out_seq) and under its head (in_id, in_seq).  All of these are keyed    *)
(* dictionaries: inserting an entry whose key is present changes nothing,  *)
(* and a deletion removes the entry with the key of its argument.          *)
(*                                                                         *)
(* Attributes, records and callbacks have no effect on this state.         *)
(*                                                                         *)
(* An operator named Bug... is a wrong version of the one that follows it: *)
(* with it, a property below fails.                                        *)
(***************************************************************************)
EXTENDS Integers, FiniteSets, Walks

CONSTANTS
  Graph,      \* the addresses an Agraph_t may have
  Node,       \* the addresses an Agnode_t may have
  Edge,       \* the addresses an Agedgepair_t may have
  Root,       \* the address of the root graph
  Name,       \* object names that do not start with LOCALNAMEPREFIX
  RootName,   \* the name given to agopen
  NodeNames,  \* names the client gives to nodes; NULL asks for an anonymous one
  EdgeNames,  \* keys the client gives to edges, or NULL
  SubgNames,  \* names the client gives to subgraphs, or NULL
  NULL,
  Directed, Strict, NoLoop, \* Agdesc_t of the root, copied into every subgraph
  SeqMod,     \* 2^w for the w bits of Agtag_s.seq (w = 28)
  MaxSeq,     \* bound: nodes, and edges, created by one root graph
  MaxAnon,    \* bound: anonymous ids handed out
  ClientDetaches \* whether the client calls agdelsubg directly

ASSUME GraphAssumption ==
  /\ IsFiniteSet(Graph) /\ IsFiniteSet(Node) /\ IsFiniteSet(Edge)
  /\ Root \in Graph
  /\ RootName \in Name
  /\ NULL \notin Graph \cup Node \cup Name \cup Int
  /\ NodeNames \subseteq Name \cup {NULL}
  /\ EdgeNames \subseteq Name \cup {NULL}
  /\ SubgNames \subseteq Name \cup {NULL}
  /\ Name \cap Int = {}
  /\ {Directed, Strict, NoLoop, ClientDetaches} \subseteq BOOLEAN
  /\ SeqMod \in Nat \ {0}
  /\ MaxSeq \in Nat
  /\ MaxAnon \in Nat

VARIABLES
  graphs,   \* allocated Agraph_t
  nodes,    \* allocated Agnode_t
  edges,    \* allocated Agedgepair_t
  parent,   \* Agraph_t.parent
  gDict,    \* Agraph_t.g_dict
  graphId, nodeId, edgeId,   \* Agtag_t.id
  nodeSeq, edgeSeq,          \* Agtag_t.seq
  tail, head,                \* Agedge_t.node of the in and the out half
  nIdx, nSeq,                \* Agraph_t.n_id and n_seq
  outIdx, outSeq, inIdx, inSeq, \* the edges in some out_id, out_seq, in_id, in_seq
  refcnt,   \* references object ids hold on each name in the string dictionary
  anonCtr,  \* idmap's static ctr
  seqCtr    \* Agclos_t.seq for nodes and edges

objs  == <<graphs, nodes, edges>>
tree  == <<parent, gDict, graphId>>
ntags == <<nodeId, nodeSeq>>
etags == <<edgeId, edgeSeq, tail, head>>
nsets == <<nIdx, nSeq>>
esets == <<outIdx, outSeq, inIdx, inSeq>>
ids   == <<refcnt, anonCtr>>
vars  == <<objs, tree, ntags, etags, nsets, esets, ids, seqCtr>>

Id == Name \cup Int
NoId == 0   \* the null pointer agstrbind returns for a string nobody holds

TypeOK ==
  /\ graphs \subseteq Graph
  /\ nodes \subseteq Node
  /\ edges \subseteq Edge
  /\ parent \in [Graph -> Graph \cup {NULL}]
  /\ gDict \in [Graph -> SUBSET Graph]
  /\ graphId \in [Graph -> Id]
  /\ nodeId \in [Node -> Id]
  /\ edgeId \in [Edge -> Id]
  /\ nodeSeq \in [Node -> Nat]
  /\ edgeSeq \in [Edge -> Nat]
  /\ tail \in [Edge -> Node \cup {NULL}]
  /\ head \in [Edge -> Node \cup {NULL}]
  /\ \A e \in edges : {tail[e], head[e]} \subseteq Node
  /\ nIdx \in [Graph -> SUBSET Node]
  /\ nSeq \in [Graph -> SUBSET Node]
  /\ outIdx \in [Graph -> SUBSET Edge]
  /\ outSeq \in [Graph -> SUBSET Edge]
  /\ inIdx \in [Graph -> SUBSET Edge]
  /\ inSeq \in [Graph -> SUBSET Edge]
  /\ refcnt \in [Name -> Int]
  /\ anonCtr \in Nat
  /\ seqCtr \in [{"node", "edge"} -> Nat]

-----------------------------------------------------------------------------
(* Dictionaries.                                                           *)

\* dtinsert: an entry whose key is already present leaves the set as it is.
AddNew(dict, x, key) ==
  IF \E y \in dict : key[y] = key[x] THEN dict ELSE dict \cup {x}

\* dtdelete, for each member of X: the entry with that key goes.
Without(dict, X, key) == {y \in dict : \A x \in X : key[y] # key[x]}

\* The key of an edge in a set that belongs to one of its endpoints, the near
\* one: agedgeidcmpf and agedgeseqcmpf compare the id of the far endpoint, then
\* the id or the sequence number of the edge.
EdgeKey(near, far, tag) ==
  [e \in Edge |-> <<near[e], nodeId[far[e]], tag[e]>>]

\* agfindnode_by_id
FoundNode(g, id) == {n \in nIdx[g] : nodeId[n] = id}

\* agfindedge_by_key with a tag that names an id: a search of h's in_id set
FoundEdge(g, t, h, id) ==
  {e \in inIdx[g] : /\ head[e] = h
                    /\ nodeId[tail[e]] = nodeId[t]
                    /\ edgeId[e] = id}

\* agfindedge_by_key with objtype 0, the wildcard
FoundAny(g, t, h) ==
  {e \in inIdx[g] : head[e] = h /\ nodeId[tail[e]] = nodeId[t]}

-----------------------------------------------------------------------------
(* Walks over the subgraph tree.                                           *)

\* Downward: rec_apply enters a subgraph only if the object is found there.
Visit(g, found) ==
  Reach(Graph, {g}, {p \in Graph \X found : p[2] \in gDict[p[1]]})

\* (the graph itself is forgotten to have a parent)
BugClimb(g, holders) == {g} \ holders

\* Upward: the recursion in agsubnode and the loop in installedge stop at the
\* first graph that already holds the object; installnodetoroot never stops.
Climb(g, holders) ==
  Reach(Graph, {g} \ holders,
        {p \in Graph \X (Graph \ holders) : p[2] = parent[p[1]]})

\* the graphs that can be reached from the root
Attached == IF Root \in graphs THEN Visit(Root, Graph) ELSE {}

\* the graphs in which a search for a node or an edge succeeds
HoldersOfNode(n) == {g \in Attached : FoundNode(g, nodeId[n]) # {}}
HoldersOfEdge(t, h, id) ==
  {g \in Attached : FoundEdge(g, t, h, id) # {}}

BugNodeVisit(g, n) == {g}
BugEdgeVisit(g, e) == HoldersOfEdge(tail[e], head[e], edgeId[e])

\* the graphs agapply visits for a node and for an edge, from g down
NodeVisit(g, n) == Visit(g, HoldersOfNode(n))
EdgeVisit(g, e) == Visit(g, HoldersOfEdge(tail[e], head[e], edgeId[e]))

-----------------------------------------------------------------------------
(* Names and ids.                                                          *)

\* (agstrbind looks in another graph's dictionary)
BugProbe(name) == NoId

\* agmapnametoid with createflag 0: the interned string, or a null pointer
Probe(name) == IF refcnt[name] > 0 THEN name ELSE NoId

\* (a name that is in use gets no further reference)
BugReserve(name, id) ==
  /\ id = IF name = NULL THEN anonCtr ELSE name
  /\ anonCtr < 2 * MaxAnon
  /\ anonCtr' = IF name = NULL THEN anonCtr + 2 ELSE anonCtr
  /\ refcnt' = [x \in Name |-> IF x = name /\ refcnt[x] = 0 THEN 1 ELSE refcnt[x]]

\* agmapnametoid with createflag 1: one more reference to the name, or the
\* next odd number
Reserve(name, id) ==
  IF name = NULL
  THEN /\ anonCtr < 2 * MaxAnon
       /\ id = anonCtr
       /\ anonCtr' = anonCtr + 2
       /\ UNCHANGED refcnt
  ELSE /\ id = name
       /\ refcnt' = [refcnt EXCEPT ![name] = @ + 1]
       /\ UNCHANGED anonCtr

\* agfreeid of every object of the given sets
FreeIds(G, N, E) ==
  /\ refcnt' = [x \in Name |-> refcnt[x]
                  - Cardinality({g \in G : graphId[g] = x})
                  - Cardinality({n \in N : nodeId[n] = x})
                  - Cardinality({e \in E : edgeId[e] = x})]
  /\ UNCHANGED anonCtr

\* A freed struct has no contents.
Blank(field, X, v) == [x \in DOMAIN field |-> IF x \in X THEN v ELSE field[x]]
BugFreeNodes(N) ==
  /\ nodes' = nodes \ N
  /\ nodeId' = Blank(nodeId, N, NULL)
  /\ nodeSeq' = Blank(nodeSeq, N, 0)
FreeNodes(N) ==
  /\ nodes' = nodes \ N
  /\ nodeId' = Blank(nodeId, N, NoId)
  /\ nodeSeq' = Blank(nodeSeq, N, 0)
FreeEdges(E) ==
  /\ edges' = edges \ E
  /\ edgeId' = Blank(edgeId, E, NoId)
  /\ edgeSeq' = Blank(edgeSeq, E, 0)
  /\ tail' = Blank(tail, E, NULL)
  /\ head' = Blank(head, E, NULL)

\* agnextseq; the object gets the low bits of the counter
NextSeq(kind) ==
  /\ seqCtr[kind] < MaxSeq
  /\ seqCtr' = [seqCtr EXCEPT ![kind] = @ + 1]

-----------------------------------------------------------------------------
(* Graphs.                                                                 *)

\* agopen: a new main graph
Agopen ==
  /\ Root \notin graphs
  /\ graphs' = graphs \cup {Root}
  /\ parent' = [parent EXCEPT ![Root] = NULL]
  /\ gDict' = [gDict EXCEPT ![Root] = {}]
  /\ graphId' = [graphId EXCEPT ![Root] = RootName]
  /\ refcnt' = [x \in Name |-> IF x = RootName THEN 1 ELSE 0]
  /\ seqCtr' = [k \in {"node", "edge"} |-> 0]
  /\ UNCHANGED <<nodes, edges, ntags, etags, nsets, esets, anonCtr>>

\* agsubg with createflag 1, when the name is not that of a subgraph of g
AgsubgCreate(g, name, s) ==
  /\ s \in Graph \ (graphs \cup {Root})
  /\ name # NULL => {x \in gDict[g] : graphId[x] = Probe(name)} = {}
  /\ \E id \in {name, anonCtr} :
       /\ Reserve(name, id)
       /\ graphId' = [graphId EXCEPT ![s] = id]
  /\ graphs' = graphs \cup {s}
  /\ parent' = [parent EXCEPT ![s] = g]
  /\ gDict' = [gDict EXCEPT ![s] = {}, ![g] = AddNew(@, s, graphId')]
  /\ UNCHANGED <<nodes, edges, ntags, etags, nsets, esets, seqCtr>>

\* the structs of the graphs of G, and the sets in them, are freed
FreeGraphs(G) ==
  /\ graphs' = graphs \ G
  /\ parent' = Blank(parent, G, NULL)
  /\ graphId' = Blank(graphId, G, NoId)
  /\ nIdx' = Blank(nIdx, G, {})
  /\ nSeq' = Blank(nSeq, G, {})
  /\ outIdx' = Blank(outIdx, G, {})
  /\ outSeq' = Blank(outSeq, G, {})
  /\ inIdx' = Blank(inIdx, G, {})
  /\ inSeq' = Blank(inSeq, G, {})

\* agclose of a subgraph: its own subgraphs first, then its node images, its
\* id, and its entry in the parent's set
AgcloseSubg(g) ==
  LET gone == Visit(g, Graph) IN
  /\ g # Root
  /\ FreeGraphs(gone)
  /\ gDict' = [Blank(gDict, gone, {}) EXCEPT
                 ![parent[g]] = Without(@, {g}, graphId)]
  /\ FreeIds(gone, {}, {})
  /\ UNCHANGED <<nodes, edges, ntags, etags, seqCtr>>

\* agdelsubg, which cgraph.h exports: the parent's entry only
Agdelsubg(g) ==
  /\ ClientDetaches
  /\ g # Root
  /\ gDict' = [gDict EXCEPT ![parent[g]] = Without(@, {g}, graphId)]
  /\ UNCHANGED <<objs, parent, graphId, ntags, etags, nsets, esets, ids, seqCtr>>

\* (the pass stops before the last node)
BugSwept == {n \in nSeq[Root] : \E m \in nSeq[Root] : nodeSeq[m] > nodeSeq[n]}

\* The nodes that a pass over n_seq deletes from the root (agdelnode wants
\* each one to be found by its id), and their edges.
Swept == {n \in nSeq[Root] : FoundNode(Root, nodeId[n]) # {}}
BugIncident(g, n) == {e \in outSeq[g] : tail[e] = n}
Incident(g, n) ==
  {e \in outSeq[g] : tail[e] = n} \cup {e \in inSeq[g] : head[e] = n}

\* agclose of the root graph, with the malloc discipline (no mem->close): the
\* subgraphs, then agdelnode of every node, then the string dictionary
AgcloseRoot ==
  LET gone == Attached
      freed == {e \in UNION {Incident(Root, n) : n \in Swept} :
                   FoundEdge(Root, tail[e], head[e], edgeId[e]) # {}}
  IN
  /\ Root \in graphs
  /\ FreeGraphs(gone)
  /\ gDict' = Blank(gDict, gone, {})
  /\ FreeNodes(Swept)
  /\ FreeEdges(freed)
  /\ refcnt' = [x \in Name |-> 0]
  /\ UNCHANGED <<anonCtr, seqCtr>>

-----------------------------------------------------------------------------
(* Nodes.                                                                  *)

\* x is inserted into the set of every graph of S
Joined(sets, S, x, key) ==
  [g \in Graph |-> IF g \in S THEN AddNew(sets[g], x, key) ELSE sets[g]]

\* agnode with createflag 1, for a name that no node of g or of the root has
AgnodeCreate(g, name, n) ==
  /\ n \in Node \ nodes
  /\ name # NULL => /\ FoundNode(g, Probe(name)) = {}
                    /\ FoundNode(Root, Probe(name)) = {}
  /\ NextSeq("node")
  /\ \E id \in {name, anonCtr} :
       /\ Reserve(name, id)
       /\ nodeId' = [nodeId EXCEPT ![n] = id]
  /\ nodeSeq' = [nodeSeq EXCEPT ![n] = seqCtr'["node"] % SeqMod]
  /\ nodes' = nodes \cup {n}
  /\ nIdx' = Joined(nIdx, Climb(g, {}), n, nodeId')
  /\ nSeq' = Joined(nSeq, Climb(g, {}), n, nodeSeq')
  /\ UNCHANGED <<graphs, edges, tree, etags, esets>>

\* the graphs agsubnode inserts n into, from g up
Lacking(g, n) == Climb(g, HoldersOfNode(n))

\* agsubnode with createflag 1; agnode ends here when the name is that of a
\* node of the root which g does not hold
Agsubnode(g, n) ==
  /\ n \in nIdx[Root]
  /\ FoundNode(g, nodeId[n]) = {}
  /\ nIdx' = Joined(nIdx, Lacking(g, n), n, nodeId)
  /\ nSeq' = Joined(nSeq, Lacking(g, n), n, nodeSeq)
  /\ UNCHANGED <<objs, tree, ntags, etags, esets, ids, seqCtr>>

\* agdeledgeimage: remove the images of lost[g] from each graph g
DropEdges(lost) ==
  /\ outIdx' = [g \in Graph |->
         Without(outIdx[g], lost[g], EdgeKey(tail, head, edgeId))]
  /\ outSeq' = [g \in Graph |->
         Without(outSeq[g], lost[g], EdgeKey(tail, head, edgeSeq))]
  /\ inIdx' = [g \in Graph |->
         Without(inIdx[g], lost[g], EdgeKey(head, tail, edgeId))]
  /\ inSeq' = [g \in Graph |->
         Without(inSeq[g], lost[g], EdgeKey(head, tail, edgeSeq))]

\* the edges of E, for the graphs of S
Images(S, E) == [g \in Graph |-> IF g \in S THEN E ELSE {}]

\* agdelnodeimage: remove n from each graph of S
DropNode(S, n) ==
  /\ nIdx' = [g \in Graph |-> IF g \in S THEN Without(nIdx[g], {n}, nodeId)
                                         ELSE nIdx[g]]
  /\ nSeq' = [g \in Graph |-> IF g \in S THEN Without(nSeq[g], {n}, nodeSeq)
                                         ELSE nSeq[g]]

\* agdelnode in a subgraph: the images in it and below it
AgdelnodeSubg(g, n) ==
  LET S == NodeVisit(g, n) IN
  /\ g # Root
  /\ n \in nodes
  /\ FoundNode(g, nodeId[n]) # {}
  /\ DropEdges([s \in Graph |-> IF s \in S THEN Incident(s, n) ELSE {}])
  /\ DropNode(S, n)
  /\ UNCHANGED <<objs, tree, ntags, etags, ids, seqCtr>>

\* agdelnode in the root: agdeledge of its edges, its id, its images, the
\* struct
AgdelnodeRoot(n) ==
  LET S == NodeVisit(Root, n)
      freed == {e \in Incident(Root, n) :
                  FoundEdge(Root, tail[e], head[e], edgeId[e]) # {}}
  IN
  /\ Root \in graphs
  /\ n \in nodes
  /\ FoundNode(Root, nodeId[n]) # {}
  /\ DropEdges([s \in Graph |->
                  {e \in freed : s \in EdgeVisit(Root, e)}
                    \cup (IF s \in S THEN Incident(s, n) ELSE {})])
  /\ DropNode(S, n)
  /\ FreeIds({}, {n}, freed)
  /\ FreeNodes({n})
  /\ FreeEdges(freed)
  /\ UNCHANGED <<graphs, tree, seqCtr>>

-----------------------------------------------------------------------------
(* Edges.                                                                  *)

\* (the set by sequence number is forgotten on the head's side)
BugInstallEdge(S, e, tailOf, headOf, id, seq) ==
  /\ outIdx' = Joined(outIdx, S, e, EdgeKey(tailOf, headOf, id))
  /\ outSeq' = Joined(outSeq, S, e, EdgeKey(tailOf, headOf, seq))
  /\ inIdx' = Joined(inIdx, S, e, EdgeKey(headOf, tailOf, id))
  /\ UNCHANGED inSeq

\* installedge: e goes into every graph of S
InstallEdge(S, e, tailOf, headOf, id, seq) ==
  /\ outIdx' = Joined(outIdx, S, e, EdgeKey(tailOf, headOf, id))
  /\ outSeq' = Joined(outSeq, S, e, EdgeKey(tailOf, headOf, seq))
  /\ inIdx' = Joined(inIdx, S, e, EdgeKey(headOf, tailOf, id))
  /\ inSeq' = Joined(inSeq, S, e, EdgeKey(headOf, tailOf, seq))

InstallOld(g, e) ==
  InstallEdge(Climb(g, HoldersOfEdge(tail[e], head[e], edgeId[e])), e,
              tail, head, edgeId, edgeSeq)

\* the probe agedge makes in one graph
ProbeDir(g, t, h, name) ==
  IF name # NULL THEN FoundEdge(g, t, h, Probe(name)) ELSE FoundAny(g, t, h)
BugProbeEdge(g, t, h, name) == ProbeDir(g, t, h, name)
ProbeEdge(g, t, h, name) ==
  IF ProbeDir(g, t, h, name) = {} /\ ~Directed
  THEN ProbeDir(g, h, t, name)
  ELSE ProbeDir(g, t, h, name)

\* (an anonymous edge is probed for by nobody)
BugProbes(name) == name # NULL

\* agedge probes for a named edge, or for any edge in a strict graph
Probes(name) == name # NULL \/ Strict

OkToMakeEdge(g, t, h) ==
  Strict => /\ ~(NoLoop /\ t = h)
            /\ FoundAny(g, t, h) = {}

\* agedge with createflag 1 finds the edge in the root only.  (It does not ask
\* whether t and h are nodes of g: that they are is the client's part.)
AgedgeSubedge(g, t, h, name, e) ==
  /\ {t, h} \subseteq nIdx[g]
  /\ Probes(name)
  /\ ProbeEdge(g, t, h, name) = {}
  /\ e \in ProbeEdge(Root, t, h, name)
  /\ InstallOld(g, e)
  /\ UNCHANGED <<objs, tree, ntags, etags, nsets, ids, seqCtr>>

\* agedge with createflag 1 creates the edge, for a client that keeps its part too
AgedgeCreate(g, t, h, name, e) ==
  /\ {t, h} \subseteq nIdx[g]
  /\ e \in Edge \ edges
  /\ Probes(name) => /\ ProbeEdge(g, t, h, name) = {}
                     /\ ProbeEdge(Root, t, h, name) = {}
  /\ OkToMakeEdge(g, t, h)
  /\ NextSeq("edge")
  /\ \E id \in {name, anonCtr} :
       /\ Reserve(name, id)
       /\ edgeId' = [edgeId EXCEPT ![e] = id]
  /\ edgeSeq' = [edgeSeq EXCEPT ![e] = seqCtr'["edge"] % SeqMod]
  /\ tail' = [tail EXCEPT ![e] = t]
  /\ head' = [head EXCEPT ![e] = h]
  /\ edges' = edges \cup {e}
  /\ InstallEdge(Climb(g, HoldersOfEdge(t, h, edgeId'[e])), e,
                 tail', head', edgeId', edgeSeq')
  /\ UNCHANGED <<graphs, nodes, tree, ntags, nsets>>

\* agsubedge with createflag 1: the endpoints first, then the edge
Agsubedge(g, e) ==
  /\ e \in edges
  /\ FoundEdge(g, tail[e], head[e], edgeId[e]) = {}
  /\ nIdx' = Joined(Joined(nIdx, Lacking(g, tail[e]), tail[e], nodeId),
                    Lacking(g, head[e]), head[e], nodeId)
  /\ nSeq' = Joined(Joined(nSeq, Lacking(g, tail[e]), tail[e], nodeSeq),
                    Lacking(g, head[e]), head[e], nodeSeq)
  /\ InstallOld(g, e)
  /\ UNCHANGED <<objs, tree, ntags, etags, ids, seqCtr>>

\* agdeledge in a subgraph: the images in it and below it
AgdeledgeSubg(g, e) ==
  /\ g # Root
  /\ e \in edges
  /\ FoundEdge(g, tail[e], head[e], edgeId[e]) # {}
  /\ DropEdges(Images(EdgeVisit(g, e), {e}))
  /\ UNCHANGED <<objs, tree, ntags, etags, nsets, ids, seqCtr>>

\* agdeledge in the root: its id, its images, the struct
AgdeledgeRoot(e) ==
  /\ Root \in graphs
  /\ e \in edges
  /\ FoundEdge(Root, tail[e], head[e], edgeId[e]) # {}
  /\ DropEdges(Images(EdgeVisit(Root, e), {e}))
  /\ FreeIds({}, {}, {e})
  /\ FreeEdges({e})
  /\ UNCHANGED <<graphs, nodes, tree, ntags, nsets, seqCtr>>

-----------------------------------------------------------------------------
(* The program: one client that calls the operations in any order, for     *)
(* graphs it can reach from the root.                                      *)

Init ==
  /\ graphs = {} /\ nodes = {} /\ edges = {}
  /\ parent = [g \in Graph |-> NULL]
  /\ gDict = [g \in Graph |-> {}]
  /\ graphId = [g \in Graph |-> NoId]
  /\ nodeId = [n \in Node |-> NoId]
  /\ nodeSeq = [n \in Node |-> 0]
  /\ edgeId = [e \in Edge |-> NoId]
  /\ edgeSeq = [e \in Edge |-> 0]
  /\ tail = [e \in Edge |-> NULL] /\ head = [e \in Edge |-> NULL]
  /\ nIdx = [g \in Graph |-> {}] /\ nSeq = [g \in Graph |-> {}]
  /\ outIdx = [g \in Graph |-> {}] /\ outSeq = [g \in Graph |-> {}]
  /\ inIdx = [g \in Graph |-> {}] /\ inSeq = [g \in Graph |-> {}]
  /\ refcnt = [x \in Name |-> 0]
  /\ anonCtr = 1
  /\ seqCtr = [k \in {"node", "edge"} |-> 0]

GraphOp ==
  \/ Agopen
  \/ AgcloseRoot
  \/ \E g \in Attached : \/ AgcloseSubg(g)
                        \/ Agdelsubg(g)
                        \/ \E s \in Graph, name \in SubgNames :
                             AgsubgCreate(g, name, s)

NodeOp ==
  \/ \E n \in Node : AgdelnodeRoot(n)
  \/ \E g \in Attached, n \in Node :
       \/ Agsubnode(g, n)
       \/ AgdelnodeSubg(g, n)
       \/ \E name \in NodeNames : AgnodeCreate(g, name, n)

EdgeOp ==
  \/ \E e \in Edge : AgdeledgeRoot(e)
  \/ \E g \in Attached, e \in Edge :
       \/ Agsubedge(g, e)
       \/ AgdeledgeSubg(g, e)
       \/ \E t, h \in Node, name \in EdgeNames :
            \/ AgedgeSubedge(g, t, h, name, e)
            \/ AgedgeCreate(g, t, h, name, e)

Next == GraphOp \/ NodeOp \/ EdgeOp

Spec == Init /\ [][Next]_vars

-----------------------------------------------------------------------------
(* Properties.                                                             *)

\* The two node sets of a graph hold the same nodes, as the assertions in
\* installnode say, and so do its four kinds of edge sets, on which the
\* assertion in del (edge.c) depends.
IndexesAgree ==
  \A g \in Attached : /\ nIdx[g] = nSeq[g]
                     /\ outIdx[g] = outSeq[g]
                     /\ outIdx[g] = inIdx[g]
                     /\ inIdx[g] = inSeq[g]

\* What a subgraph holds, its parent holds: agapply reaches an object in a
\* subgraph only through a parent that has it.
SubgraphContainment ==
  \A g \in Attached \ {Root} : /\ parent[g] \in Attached
                              /\ nIdx[g] \subseteq nIdx[parent[g]]
                              /\ inIdx[g] \subseteq inIdx[parent[g]]

\* A graph that holds an edge holds both endpoints: installedge and
\* agdeledgeimage use the endpoints' sets without testing for them.
EndpointsPresent ==
  \A g \in Attached : \A e \in inIdx[g] : {tail[e], head[e]} \subseteq nIdx[g]

\* No graph a client can reach holds a struct that was freed.
NoDangling ==
  \A g \in Attached : nIdx[g] \subseteq nodes /\ inIdx[g] \subseteq edges

\* The sets of the graphs that can be reached are in step with one another, from
\* one graph to its parent and from edges to nodes, and hold no freed struct, after
\* any mixture of operations at any level (installnode, installedge, agapply).
SetsSound == IndexesAgree /\ SubgraphContainment /\ EndpointsPresent /\ NoDangling

\* Everything allocated is in the root graph or in its subgraph tree, so that
\* closing the root frees it.
NothingLeaks ==
  /\ graphs = Attached
  /\ nodes = UNION {nIdx[g] : g \in Attached \cap {Root}}
  /\ edges = UNION {inIdx[g] : g \in Attached \cap {Root}}

\* Two different edges between the same two nodes
MultiEdge(e, f) ==
  /\ e # f
  /\ \/ tail[e] = tail[f] /\ head[e] = head[f]
     \/ ~Directed /\ tail[e] = head[f] /\ head[e] = tail[f]

\* Among the live nodes, and among the live edges between two nodes, a name or
\* id stands for one object.
UniqueIds ==
  /\ \A m, n \in nodes : nodeId[m] = nodeId[n] => m = n
  /\ \A e, f \in edges : MultiEdge(e, f) => edgeId[e] # edgeId[f]

\* The references on a name are those of the live objects that have it as
\* their id: a name is not freed under an object, nor held for none.
RefcountExact ==
  \A x \in Name :
    refcnt[x] = Cardinality({g \in graphs : graphId[g] = x})
                + Cardinality({n \in nodes : nodeId[n] = x})
                + Cardinality({e \in edges : edgeId[e] = x})

\* Ids tell the objects apart, and names outlive exactly the objects that have them
\* (idmap and idfree in id.c, agmapnametoid).
IdsSound == UniqueIds /\ RefcountExact

\* The sets change as CgraphAbs says.
Abs == INSTANCE CgraphAbs WITH
         live <- graphs,
         up <- parent,
         N <- nIdx,
         E <- inIdx,
         ends <- [e \in Edge |-> <<tail[e], head[e]>>]
KeepsPromise == Abs!Spec

\* "strict: if multi-edges forbidden" (cgraph.h)
StrictNoMultiEdges ==
  Strict /\ Root \in graphs => \A e, f \in inIdx[Root] : ~MultiEdge(e, f)

\* "A strict graph cannot have multi-edges or self-arcs" (cgraph.3)
StrictNoSelfArcs ==
  Strict /\ Root \in graphs => \A e \in inIdx[Root] : tail[e] # head[e]
=============================================================================
